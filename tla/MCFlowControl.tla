--------------------------- MODULE MCFlowControl ----------------------------
(***************************************************************************)
(* Small connections for TLC: which handlers there are, what they send and *)
(* on which streams.                                                       *)
(***************************************************************************)
EXTENDS FlowControl, TLC

CONSTANTS s1, s3, s5, h1, h2, h3

TwoStreams == {s1, s3}
TwoHandlers == {h1, h2}
ThreeStreams == {s1, s3, s5}
ThreeHandlers == {h1, h2, h3}

OwnStream  == h1 :> s1 @@ h2 :> s3
OwnStreams == h1 :> s1 @@ h2 :> s3 @@ h3 :> s5

FileGzip    == h1 :> "file"   @@ h2 :> "gzip"
FileFile    == h1 :> "file"   @@ h2 :> "file"
FileBrotli  == h1 :> "file"   @@ h2 :> "brotli"
FileCgiError == h1 :> "file"  @@ h2 :> "cgi" @@ h3 :> "error"
GzipCgiError == h1 :> "gzip"  @@ h2 :> "cgi" @@ h3 :> "error"

ThreeTwo   == h1 :> 3 @@ h2 :> 2
TwoTwo     == h1 :> 2 @@ h2 :> 2
TwoTwoOne  == h1 :> 2 @@ h2 :> 2 @@ h3 :> 1
ZeroTwo    == h1 :> 0 @@ h2 :> 2

\* EndsOnce without its exceptions, each of which the code does not keep.
NothingAfterAnyEnd == \A s \in Stream : wire[s] # "after"
EveryResponseEnded ==
  \A h \in Handler :
    pc[h] = "exit" /\ ~stop /\ StreamOf[h] \notin reset
      => wire[StreamOf[h]] # "open"
=============================================================================
