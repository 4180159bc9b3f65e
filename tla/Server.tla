------------------------------- MODULE Server -------------------------------
(***************************************************************************)
(* A request to srvfb -proxy: handler.ServeHTTP of srvfb.go with           *)
(* serveVideo (ProxyVideo) or serveImage, which needs one frame of the     *)
(* raw stream only.                                                        *)
(***************************************************************************)
EXTENDS ProxyVideo

VARIABLES
  request,  \* its path, or "POST" for another method than GET
  answer    \* the status line: "none" yet, or the status

serverVars == <<vars, request, answer>>

ServerInit ==
  /\ Init
  /\ request \in {"/", "/video", "/raw", "/download", "other", "POST"}
  /\ answer = "none"

\* Requests that ServeHTTP answers at once.
Status ==
  CASE request = "POST"  -> "405"
    [] request = "/"     -> "200"  \* serveIndex
    [] request = "/raw"  -> "501"  \* h.fb is nil
    [] request = "other" -> "404"

ServeHTTP ==
  /\ request \notin {"/video", "/download"}
  /\ Goto("dial", "done")
  /\ answer' = Status
  /\ UNCHANGED <<im, dedupVars, respVars, browserVars, upstream, request>>

\* The status that a step of the handler sets.
Answer ==
  CASE pc \in {"dial", "header"} /\ pc' = "done"                    -> "502"
    [] request = "/download" /\ pc = "read" /\ pc' = "done"         -> "500"
    [] request = "/video" /\ pc = "header" /\ pc' = "read"          -> "200"
    [] OTHER                                                        -> answer

\* dialProxy and readImage, which the two handlers have in common, and the rest of
\* serveVideo
Handle ==
  /\ request = "/video" \/ (request = "/download" /\ pc # "dedup")
  /\ Proxy \/ DialFail
  /\ answer' = Answer
  /\ UNCHANGED request

\* The address is that of another proxy, which answers 501: readHdr refuses its
\* Content-Type.
DialChained ==
  /\ "device" \in Failures /\ request \in {"/video", "/download"}
  /\ Goto("dial", "header")
  /\ rpc' = "done"
  /\ UNCHANGED <<im, dedupVars, respVars, browserVars, request, answer>>
  /\ UNCHANGED <<screen, reading, rim, r1, r2, rawWire, rawPeer, rawErr>>

\* png.Encode, whose error serveImage drops, and the deferred c.close
ServeImage ==
  /\ request = "/download" /\ Goto("dedup", "done")
  /\ Write(im)
  /\ CloseBody
  /\ answer' = "200"
  /\ UNCHANGED <<im, dedupVars, browserVars, request>>

ServerNext ==
  \/ ServeHTTP \/ Handle \/ ServeImage \/ DialChained
  \/ Environment /\ UNCHANGED <<request, answer>>

\* As in ProxyVideo
ServerSpec ==
  /\ ServerInit /\ [][ServerNext]_serverVars
  /\ WF_serverVars(ServeHTTP \/ Handle \/ ServeImage)
  /\ WF_serverVars(RawStep /\ UNCHANGED <<videoVars, request, answer>>)
  /\ WF_serverVars(RawReset /\ UNCHANGED <<videoVars, request, answer>>)
  /\ WF_serverVars(Receive /\ UNCHANGED <<upstream, request, answer>>)
  /\ WF_serverVars(KernelReset /\ UNCHANGED <<upstream, request, answer>>)

-----------------------------------------------------------------------------

\* A download through the proxy is answered, although its frame comes free with
\* the next one only (srvfb.go:461) and the device's screen may be at rest: the
\* first frame does not go through serveRaw's deduper, so that another follows.
DownloadAnswered == (request = "/download") ~> (answer # "none")
=============================================================================
