------------------------------- MODULE MCHttp1 ------------------------------
(***************************************************************************)
(* The requests of small HTTP/1 connections for TLC.                       *)
(***************************************************************************)
EXTENDS Http1

Get == [form |-> "request", expect |-> "no", len |-> 0, upgrade |-> "no",
        reads |-> FALSE, close |-> FALSE]
Script   == [Get EXCEPT !.reads = TRUE]
Post     == [Script EXCEPT !.len = 2]
Ignored  == [Post EXCEPT !.reads = FALSE]
Expects  == [Post EXCEPT !.expect = "100-continue"]
Unread   == [Expects EXCEPT !.reads = FALSE]
Close    == [Post EXCEPT !.close = TRUE]
Bad      == [Get EXCEPT !.form = "bad"]
BadLen   == [Get EXCEPT !.len = -1]
Unknown  == [Get EXCEPT !.expect = "other"]
H2c      == [Get EXCEPT !.upgrade = "h2c"]
Socket   == [Get EXCEPT !.upgrade = "websocket"]
Start2   == [Get EXCEPT !.form = "preface"]

Serial == {Get, Script, Post, Ignored, Expects, Unread, Close, Bad, BadLen, Unknown,
           H2c, Socket, Start2}
Posts == {Script, Post}
=============================================================================
