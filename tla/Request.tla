------------------------------ MODULE Request -------------------------------
(***************************************************************************)
(* One request after the other of a connection, from its headers to its    *)
(* answer (CHttpServ::DoAction): the checks in the order the code makes    *)
(* them, each with its own way out, and what each writes to the socket.    *)
(*                                                                         *)
(* The stages of DoAction are values of "stage".  What a stage reads of    *)
(* the request, the configuration or the file system is chosen when the    *)
(* stage reads it.  The body is written in one step: how it is cut into    *)
(* frames and windows is FlowControl's subject, how a script gets its      *)
(* input that of ReqBody, Http1 and FcgiRequest.                           *)
(***************************************************************************)
EXTENDS Integers, Sequences, FiniteSets, SequencesExt

CONSTANTS
  Versions,     \* httpVers: 1 for HTTP/1.0 and 1.1, 2 for HTTP/2
  MaxRequests,  \* bound on the requests of a connection
  AuthSchemes,  \* the schemes of the Authenticate setting
  Locations,    \* the locations it protects
  FileSize,     \* sizes a file can have
  Names,        \* paths a client asks for, as characters
  BrokenPaths,  \* paths that encode nothing, as tokens of UrlPath
  RangeSpecs    \* Range headers: sequences of pairs

Url == INSTANCE UrlPath
Rng == INSTANCE Ranges

ASSUME RequestAssumption ==
  /\ Versions \subseteq {1, 2} /\ Versions # {}
  /\ MaxRequests \in Nat \ {0} /\ AuthSchemes \subseteq {"BASIC", "DIGEST"}
  /\ FileSize \subseteq Nat
  /\ RangeSpecs \subseteq Seq(Rng!Position \X Rng!Position)

VARIABLES
  vers,      \* httpVers
  open,      \* the socket is not closed
  stop,      \* *patStop
  reset,     \* RESET_STREAM of the request's stream
  count,     \* requests so far
  known,     \* the locations lstAuthInfo has an entry for
  stage,     \* where DoAction is
  req,       \* method, version and path of the request
  closing,   \* bCloseConnection
  target,    \* what strItemPath names, and how it is served
  size,      \* stFileInfo.st_size, or what of it is to be sent
  ranges,    \* vecRanges
  nth,       \* which of them is compared with the next one
  auth,      \* what the request had to show, and what it showed
  heads,     \* headers written
  head,      \* the last of them
  sent,      \* bytes of the body written
  last       \* the end of the body was written: END_STREAM, last chunk

conn == <<vers, open, stop, count, known>>
answer == <<heads, head, sent, last>>
route == <<req, closing, target, size, ranges, nth, auth>>
requestVars == <<conn, reset, stage, route, answer>>

NoHead == [status |-> 0, length |-> -1, chunked |-> FALSE, close |-> FALSE]
Public == "public"
NoAuth == [at |-> Public, shown |-> "none"]
NoTarget == [exec |-> FALSE, star |-> FALSE, script |-> "no", packed |-> FALSE]
NoRequest == [method |-> "none", minor |-> "0", path |-> <<>>, item |-> <<>>,
              specs |-> <<>>]

RequestInit ==
  /\ vers \in Versions /\ open = TRUE /\ stop = FALSE /\ reset = FALSE
  /\ count = 0 /\ known = {} /\ stage = "idle"
  /\ req = NoRequest /\ closing = FALSE /\ target = NoTarget /\ size = 0
  /\ ranges = <<>> /\ nth = 0 /\ auth = NoAuth
  /\ heads = 0 /\ head = NoHead /\ sent = 0 /\ last = FALSE

Goto(s) == stage' = s

Paths == {Url!EncodePath(cs) : cs \in Names} \cup BrokenPaths

-----------------------------------------------------------------------------
(* What is written *)

\* BuildRespHeader: a Content-Length only when there is something to send, or
\* ADDCONENTLENGTH is set.
Length(n, always) == IF n # 0 \/ always THEN n ELSE -1

WriteHead(status, length, chunked, close) ==
  /\ heads' = heads + 1
  /\ head' = [status |-> status, length |-> length, chunked |-> chunked, close |-> close]

\* "if (fnIsStreamReset(nStreamId) == false)".
HeadUnlessReset(status, length, chunked, close) ==
  IF vers = 2 /\ reset THEN UNCHANGED <<heads, head>>
  ELSE WriteHead(status, length, chunked, close)

\* A header without a body: the frame of HTTP/2 has END_STREAM.
HeadOnly(status, length, close) ==
  /\ HeadUnlessReset(status, length, FALSE, close)
  /\ last' = (vers = 2 /\ ~reset)
  /\ UNCHANGED sent

\* fSocketClose when c holds.
CloseIf(c) == open' = (open /\ ~c)

\* The size of <status>.html, when there is one and the client takes HTML.
LoadErrorHtmlMessage == {0, 1}

\* SendErrorRespons and, for HTTP/1, the end of the connection.
SendErrorRespons(status) ==
  \E page \in LoadErrorHtmlMessage :
    /\ WriteHead(status, Length(page, FALSE), FALSE, TRUE)
    /\ sent' = page
    /\ last' = (vers = 2)
    /\ CloseIf(vers < 2)
    /\ Goto("exit")
    /\ UNCHANGED <<vers, stop, count, known, reset, route>>

-----------------------------------------------------------------------------
(* The stages *)

\* Http1 or EndOfStreamAction starts DoAction for the next request.
StartAction ==
  /\ stage = "idle" /\ open /\ ~stop /\ count < MaxRequests
  /\ count' = count + 1 /\ reset' = FALSE
  /\ \E m \in {"none", "GET", "HEAD", "POST", "OPTIONS"}, v \in {"0", "1", "9"} :
       req' = [NoRequest EXCEPT !.method = m, !.minor = v]
  /\ closing' = FALSE /\ target' = NoTarget /\ size' = 0 /\ ranges' = <<>>
  /\ nth' = 0 /\ auth' = NoAuth
  /\ heads' = 0 /\ head' = NoHead /\ sent' = 0 /\ last' = FALSE
  /\ Goto("version")
  /\ UNCHANGED <<vers, open, stop, known>>

\* HTTP/1.0, and "Connection: close", end the connection after the answer.
Version ==
  /\ stage = "version"
  /\ \E close \in BOOLEAN : closing' = (vers < 2 /\ (req.minor # "1" \/ close))
  /\ Goto("method")
  /\ UNCHANGED <<conn, reset, req, target, size, ranges, nth, auth, answer>>

\* :method and :path are needed, and a version of 0 or 1.
BadRequest ==
  /\ stage = "method" /\ (req.method = "none" \/ (vers < 2 /\ req.minor = "9"))
  /\ SendErrorRespons(400)

DecodePath ==
  /\ stage = "method" /\ req.method # "none" /\ (vers < 2 => req.minor # "9")
  /\ \E p \in Paths : req' = [req EXCEPT !.path = p, !.item = Url!Decode(p)]
  /\ Goto("path")
  /\ UNCHANGED <<conn, reset, closing, target, size, ranges, nth, auth, answer>>

BadPath ==
  /\ stage = "path" /\ req.item.left = "bad request"
  /\ SendErrorRespons(400)

\* Whatever the RewriteRules make of the path, no RedirectMatch fits it.
Rewritten ==
  /\ stage = "path" /\ req.item.left # "bad request"
  /\ req' = [req EXCEPT !.path = <<>>, !.item = <<>>]
  /\ Goto("forbidden")
  /\ UNCHANGED <<conn, reset, closing, target, size, ranges, nth, auth, answer>>

\* RedirectMatch: 307, and the connection ends.
Redirect ==
  /\ stage = "path" /\ req.item.left # "bad request"
  /\ WriteHead(307, -1, FALSE, TRUE)
  /\ last' = (vers = 2) /\ UNCHANGED sent
  /\ CloseIf(vers < 2)
  /\ Goto("exit")
  /\ UNCHANGED <<vers, stop, count, known, reset, route>>

\* /.. and its like, device names, .htaccess.
Forbidden ==
  /\ stage = "forbidden"
  /\ SendErrorRespons(403)

NotForbidden ==
  /\ stage = "forbidden"
  /\ \E l \in Locations \cup {Public} : auth' = [auth EXCEPT !.at = l]
  /\ Goto("auth")
  /\ UNCHANGED <<conn, reset, req, closing, target, size, ranges, nth, answer>>

\* What an Authorization header proves: Basic for each request, Digest also
\* for the later requests of the connection.
Valid(shown) ==
  \/ shown = "Basic" /\ "BASIC" \in AuthSchemes
  \/ shown = "Digest" /\ "DIGEST" \in AuthSchemes

AcceptedAnywhere(shown) ==    \* mutant: strUrl is not compared
  Valid(shown) \/ (shown = "none" /\ known # {})

Accepted(shown) == Valid(shown) \/ (shown = "none" /\ auth.at \in known)

Credentials == {"none", "Basic", "Digest", "wrong"}

\* No location of the configuration covers the path, or AuthHandler leaves it
\* to the script.
AuthNotNeeded ==
  /\ stage = "auth" /\ auth.at = Public
  /\ Goto("alias")
  /\ UNCHANGED <<conn, reset, route, answer>>

Authenticated ==
  /\ stage = "auth" /\ auth.at # Public
  /\ \E shown \in Credentials :
       /\ Accepted(shown)
       /\ auth' = [auth EXCEPT !.shown = shown]
       /\ known' = IF shown = "Digest" THEN known \cup {auth.at} ELSE known
  /\ Goto("alias")
  /\ UNCHANGED <<vers, open, stop, count, reset, req, closing, target, size, ranges, nth, answer>>

\* fnSendAuthRespons: the connection is left open.  On a stream that was reset
\* the page itself is not written.
Unauthorized ==
  /\ stage = "auth" /\ auth.at # Public /\ \E shown \in Credentials : ~Accepted(shown)
  /\ \E page \in LoadErrorHtmlMessage :
       /\ WriteHead(401, Length(page, TRUE), FALSE, closing)
       /\ sent' = IF vers = 2 /\ reset THEN 0 ELSE page
       /\ last' = (vers = 2)
  /\ Goto("exit")
  /\ UNCHANGED <<conn, reset, route>>

\* AliasMatch may name a script to run; ReverseProxy always does.
Alias ==
  /\ stage = "alias"
  /\ \E exec \in BOOLEAN, star \in BOOLEAN :
       /\ exec => ~star
       /\ target' = [target EXCEPT !.exec = exec, !.star = star]
  /\ Goto("stat")
  /\ UNCHANGED <<conn, reset, req, closing, size, ranges, nth, auth, answer>>

\* ReverseProxy, when the Referer is under the proxied location and the path
\* is not.
MovedToProxy ==
  /\ stage = "alias" /\ HeadOnly(307, -1, closing)
  /\ Goto("exit")
  /\ UNCHANGED <<conn, reset, route>>

\* A directory without its slash.
MovedToDirectory ==
  /\ stage = "stat" /\ ~target.star /\ HeadOnly(301, -1, closing)
  /\ Goto("exit")
  /\ UNCHANGED <<conn, reset, route>>

\* stat of the file, the default items of a directory, PATH_INFO.
NotFound ==
  /\ stage = "stat" /\ ~target.star /\ ~target.exec
  /\ \E status \in {404, 500} : SendErrorRespons(status)

\* The root path is put in front, PATH_INFO cut off, the default item of a
\* directory added, and there is such a file.  Its type has an action, or
\* AliasMatch asks for one; OPTIONS goes to a script only with OptionsHandler.
Found ==
  /\ stage = "stat"
  /\ \E s \in FileSize, typed \in BOOLEAN, optionsHandler \in BOOLEAN :
       /\ size' = s
       /\ Goto(IF (typed \/ target.exec) /\ (req.method # "OPTIONS" \/ optionsHandler)
               THEN "script" ELSE "range")
  /\ UNCHANGED <<conn, reset, req, closing, target, ranges, nth, auth, answer>>

-----------------------------------------------------------------------------
(* A script *)

ScriptErrorKept ==            \* mutant: ADDCONNECTIONCLOSE is forgotten
  /\ \/ stage = "script"
     \/ stage = "output" /\ heads = 0 /\ ~stop /\ ~reset
  /\ HeadOnly(500, -1, closing)
  /\ CloseIf(vers < 2)
  /\ Goto("exit")
  /\ UNCHANGED <<vers, stop, count, known, reset, route>>

\* fnSendError, when the script cannot be started; fnAfterCgi, when its output
\* ended within its header.
ScriptError ==
  /\ \/ stage = "script"
     \/ stage = "output" /\ heads = 0 /\ ~stop /\ ~reset
  /\ HeadOnly(500, -1, TRUE)
  /\ CloseIf(vers < 2)
  /\ Goto("exit")
  /\ UNCHANGED <<vers, stop, count, known, reset, route>>

\* A FastCGI address without a port, and a request that ended before the
\* FastCGI server took it: nothing is answered at all.
NoAnswer ==
  /\ stage = "script"
  /\ CloseIf(closing)
  /\ Goto("exit")
  /\ UNCHANGED <<vers, stop, count, known, reset, route, answer>>

StartScript ==
  /\ stage = "script"
  /\ \E s \in {"cgi", "fcgi"} : target' = [target EXCEPT !.script = s]
  /\ Goto("output")
  /\ UNCHANGED <<conn, reset, req, closing, size, ranges, nth, auth, answer>>

ChunksNever(own) ==           \* mutant: no chunks at all
  FALSE

\* Chunks for HTTP/1.1, unless the script gave a Content-Length or a
\* Transfer-Encoding of its own.
Chunks(own) == ~own /\ vers < 2 /\ req.minor = "1"

\* fnSendOutput at the empty line that ends the script's header, which may give
\* a status.  A script that gives a Content-Length sends as much.
ScriptHeader ==
  /\ stage = "output" /\ heads = 0
  /\ \E own \in BOOLEAN, iStatus \in {200, 304} :
       HeadUnlessReset(iStatus, IF own THEN size ELSE -1, Chunks(own), closing)
  /\ Goto("body")
  /\ UNCHANGED <<conn, reset, route, sent, last>>

\* fnAfterCgi: the last frame or chunk, and the end of the connection.
ScriptBody ==
  /\ stage = "body" /\ target.script # "no" /\ ~stop /\ ~reset
  /\ sent' = size
  /\ last' = (vers = 2 \/ head.chunked)
  /\ CloseIf(closing)
  /\ Goto("exit")
  /\ UNCHANGED <<vers, stop, count, known, reset, route, heads, head>>

\* The connection ended or the stream was reset: the script is killed or its
\* request aborted.  A CGI handler does not close the socket.
ScriptAborted ==
  /\ stage \in {"output", "body"} /\ target.script # "no" /\ (stop \/ reset)
  /\ CloseIf(closing /\ target.script = "fcgi")
  /\ Goto("exit")
  /\ UNCHANGED <<vers, stop, count, known, reset, route, answer>>

-----------------------------------------------------------------------------
(* A file *)

\* The ranges of the Range header, sorted; none when one of its numbers does
\* not fit into 64 bits.
EvaluateRange ==
  /\ stage = "range"
  /\ \E specs \in RangeSpecs :
       /\ req' = [req EXCEPT !.specs = specs]
       /\ ranges' \in Rng!Sorted(Rng!Parsed(specs, size)) \cup {<<>>}
  /\ nth' = 1
  /\ Goto("merge")
  /\ UNCHANGED <<conn, reset, closing, target, size, auth, answer>>

\* Each is compared with the next one; joined, it is compared again.
MergeRanges ==
  /\ stage = "merge" /\ nth < Len(ranges) /\ Rng!ValidPair(ranges, nth, size)
  /\ IF Rng!Touch(ranges[nth], ranges[nth + 1])
     THEN ranges' = Rng!Joined(ranges, nth) /\ nth' = nth
     ELSE ranges' = ranges /\ nth' = nth + 1
  /\ UNCHANGED <<conn, reset, stage, req, closing, target, size, auth, answer>>

RefuseRanges ==
  /\ stage = "merge" /\ nth < Len(ranges) /\ ~Rng!ValidPair(ranges, nth, size)
  /\ SendErrorRespons(416)

RangesMerged ==
  /\ stage = "merge" /\ nth >= Len(ranges)
  /\ nth' = 0
  /\ Goto("condition")
  /\ UNCHANGED <<conn, reset, req, closing, target, size, ranges, auth, answer>>

\* If-None-Match, then If-Modified-Since.
NotModified ==
  /\ stage = "condition"
  /\ HeadOnly(304, -1, closing)
  /\ CloseIf(closing)
  /\ Goto("exit")
  /\ UNCHANGED <<vers, stop, count, known, reset, route>>

\* If-Range with another date or tag: the whole file.
Modified ==
  /\ stage = "condition"
  /\ \E ifRange \in BOOLEAN : ranges' = IF ifRange THEN <<>> ELSE ranges
  /\ Goto("answer")
  /\ UNCHANGED <<conn, reset, req, closing, target, size, nth, auth, answer>>

Options ==
  /\ stage = "answer" /\ req.method = "OPTIONS"
  /\ HeadOnly(200, Length(0, TRUE), closing)
  /\ CloseIf(closing)
  /\ Goto("exit")
  /\ UNCHANGED <<vers, stop, count, known, reset, route>>

Star ==
  /\ stage = "answer" /\ req.method # "OPTIONS" /\ target.star
  /\ SendErrorRespons(404)

HeadMethod ==
  /\ stage = "answer" /\ req.method = "HEAD" /\ ~target.star
  /\ HeadOnly(200, Length(size, FALSE), closing)
  /\ CloseIf(closing)
  /\ Goto("exit")
  /\ UNCHANGED <<vers, stop, count, known, reset, route>>

NotAllowed ==
  /\ stage = "answer" /\ req.method = "POST" /\ ~target.star
  /\ SendErrorRespons(405)

OpenFails ==
  /\ stage = "answer" /\ req.method = "GET" /\ ~target.star
  /\ SendErrorRespons(500)

\* One valid range makes it 206.  gzip, deflate and brotli answers are of
\* unknown length: chunks in HTTP/1.
SendFile ==
  /\ stage = "answer" /\ req.method = "GET" /\ ~target.star
  /\ \E packed \in BOOLEAN :
       LET r == Rng!Served(ranges, size)
           n == r[2] - r[1]
           status == IF Rng!Servable(ranges, size) THEN 206 ELSE 200
       IN  /\ HeadUnlessReset(status, IF packed THEN -1 ELSE Length(n, FALSE),
                              packed /\ vers < 2, closing)
           /\ ranges' = <<r>>
           /\ target' = [target EXCEPT !.packed = packed]
  /\ Goto("body")
  /\ UNCHANGED <<conn, reset, req, closing, size, nth, auth, sent, last>>

\* The body; the end of an empty file that is not packed is not marked.
FileBody ==
  LET n == ranges[1][2] - ranges[1][1]
      whole == ~stop /\ ~reset IN
  /\ stage = "body" /\ target.script = "no"
  /\ sent' = IF whole THEN n ELSE 0
  /\ last' = (whole /\ (target.packed \/ (vers = 2 /\ n # 0)))
  /\ CloseIf(closing)
  /\ Goto("exit")
  /\ UNCHANGED <<vers, stop, count, known, reset, route, heads, head>>

-----------------------------------------------------------------------------
\* fuExitDoAction.
Exit ==
  /\ stage = "exit"
  /\ reset' = (vers = 2)
  /\ Goto("idle")
  /\ UNCHANGED <<conn, route, answer>>

RstStream ==
  /\ vers = 2 /\ ~reset /\ stage # "idle"
  /\ reset' = TRUE
  /\ UNCHANGED <<conn, stage, route, answer>>

StopConnection ==
  /\ ~stop /\ stop' = TRUE
  /\ UNCHANGED <<vers, open, count, known, reset, stage, route, answer>>

Route ==
  \/ Version \/ BadRequest \/ DecodePath \/ BadPath \/ Rewritten \/ Redirect
  \/ Forbidden \/ NotForbidden \/ AuthNotNeeded \/ Authenticated \/ Unauthorized
  \/ Alias \/ MovedToProxy \/ MovedToDirectory \/ NotFound \/ Found

Serve ==
  \/ ScriptError \/ NoAnswer \/ StartScript \/ ScriptHeader \/ ScriptBody \/ ScriptAborted
  \/ EvaluateRange \/ MergeRanges \/ RefuseRanges \/ RangesMerged \/ NotModified
  \/ Modified \/ Options \/ Star \/ HeadMethod \/ NotAllowed \/ OpenFails \/ SendFile \/ FileBody

DoAction == StartAction \/ Route \/ Serve \/ Exit

RequestNext == DoAction \/ RstStream \/ StopConnection

RequestSpec == RequestInit /\ [][RequestNext]_requestVars

-----------------------------------------------------------------------------
Answered == stage = "exit" /\ heads = 1 /\ ~stop /\ ~reset

\* Answers that a client takes to have no body whatever their header says.
Bodiless == req.method = "HEAD" \/ head.status = 304

\* A client knows where the answer it got ends: by END_STREAM, because the
\* connection ends with it, with its header, by its length or the last chunk.
\* Else the next answer of the connection is taken for a part of this one.
Framed ==
  \/ vers = 2 /\ last
  \/ vers < 2 /\ ~open
  \/ vers < 2 /\ Bodiless /\ sent = 0 /\ ~last
  \/ vers < 2 /\ ~Bodiless /\ (head.length = sent \/ (head.chunked /\ last))

\* Three kinds of answers that the code does not frame (HeadBody.cfg).  A script's
\* output, its last chunk and the page of a 401 are written whatever the method
\* and the status are;
BodyAnyway == vers < 2 /\ Bodiless /\ (target.script # "no" \/ head.status = 401)

\* BuildRespHeader tells no length of no octets, of 301 and 307
Moved == vers < 2 /\ head.status \in {301, 307}

\* and of a file or a range without any, which END_STREAM is not sent for either.
EmptyFile ==
  /\ head.status \in {200, 206} /\ req.method = "GET"
  /\ target.script = "no" /\ ~target.packed /\ sent = 0

AnswerFramed == Answered => Framed \/ BodyAnyway \/ Moved \/ EmptyFile

\* A server that ends an HTTP/1 connection has told the client so in the header
\* of the last answer: the client does not send its next request into it.
CloseAnnounced == (vers < 2 /\ ~open /\ heads = 1) => head.close

\* A client knows where an answer ends, and whether another may follow.
AnswerEndKnown == AnswerFramed /\ CloseAnnounced

\* HTTP/1.0, and "Connection: close": the connection ends with the answer.
CloseKept == (Answered /\ vers < 2 /\ closing) => ~open

\* What a location protects is answered only to a request that showed a user,
\* or to a later one of a connection that showed one for this very location.
ProtectedNeedsUser ==
  (Answered /\ auth.at # Public /\ head.status \in {200, 206, 304}) =>
    Valid(auth.shown) \/ auth.at \in known

\* The bytes a range request gets are in the file, and each range it asked for
\* that the file has is among them or the whole file is.
RangeServed ==
  (stage = "body" /\ target.script = "no") =>
    /\ Rng!Cover(ranges) \subseteq 0 .. size - 1
    /\ head.status = 206 =>
         Rng!Cover(ranges) = Rng!Cover(Rng!Parsed(req.specs, size))

\* What a client encoded is what the path is read as.
PathDecoded ==
  stage = "path" =>
    \A cs \in Names : req.path = Url!EncodePath(cs) => req.item.path = cs
=============================================================================
