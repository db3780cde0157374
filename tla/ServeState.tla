------------------------------ MODULE ServeState ------------------------------
(***************************************************************************)
(* xml2db serve: the state shared by the threads of the HTTP server        *)
(* (cli._State), the handlers, and the browser pages that send them the    *)
(* text of their editor.  ThreadingHTTPServer runs every request in a      *)
(* thread of its own; a page does not wait for an answer before it sends   *)
(* the next request, and handles the answers in the order they arrive.     *)
(*                                                                         *)
(* A configuration is a model value; what is built from it (outputs,       *)
(* schema_info) and the message of its error are written with the text.    *)
(***************************************************************************)
EXTENDS Naturals, Sequences, FiniteSets

CONSTANTS
  Page,       \* browser pages
  Good, Bad,  \* configurations that build, and that do not
  Width,      \* configuration -> length of its text
  Initial,    \* the configurations the file may hold at the start
  NoText,     \* nothing built, no error
  Saved,        \* the page's message after a save
  NetworkError, \* the page's message after a fetch that failed
  MaxRequests,  \* bound on the requests of a behaviour
  MaxLost       \* bound on the fetches that fail

Text == Good \union Bad

ASSUME TextAssumption ==
  /\ Good \intersect Bad = {} /\ NoText \notin Text
  /\ Width \in [Text -> Nat]
  /\ Initial \subseteq Text
  /\ MaxRequests \in Nat /\ MaxLost \in Nat

VARIABLES
  state,   \* outputs, schema_info, config_yaml, build_error of _State
  file,    \* the configuration file, its characters known by their text
  req,     \* the requests, in the order they were sent
  doc,     \* page -> text of the editor; NoText: not loaded
  timer,   \* page -> debounceTimer is set
  outputs, \* page -> its variable outputs
  shown,   \* page -> the outputs that renderTab drew last
  msg,     \* page -> message: NoText, Saved, NetworkError, or the text whose error it is
  lost     \* the requests whose fetch failed

pageVars == <<doc, timer, outputs, shown, msg, lost>>
vars == <<state, file, req, pageVars>>

Id == DOMAIN req
Content(t) == [i \in 1..Width[t] |-> t]
Loaded(p) == doc[p] # NoText

(***************************************************************************)
(* A request starts in a thread at once.  alone records that no other      *)
(* request was in progress, from its sending to the handling of its answer.*)
(***************************************************************************)
Pending == {r \in Id : req[r].step # "handled"}

Send(p, kind, text) ==
  req' = Append([r \in Id |-> IF r \in Pending THEN [req[r] EXCEPT !.alone = FALSE] ELSE req[r]],
                [page |-> p, kind |-> kind, text |-> text, step |-> "received",
                 alone |-> Pending = {}, answer |-> <<>>])

At(r, kind, step) == req[r].kind = kind /\ req[r].step = step
Advance(r, step) == req' = [req EXCEPT ![r].step = step]
Respond(r, answer) == req' = [req EXCEPT ![r].step = "answered", ![r].answer = answer]

(***************************************************************************)
(* The page.  Every edit restarts the timer of half a second; when it      *)
(* fires, the text the editor then has is posted.                          *)
(***************************************************************************)
Budget == Len(req) + Cardinality({p \in Page : timer[p]}) < MaxRequests

OpenPage(p) ==
  /\ ~Loaded(p) /\ Budget
  /\ \A r \in Id : req[r].page # p
  /\ Send(p, "page", NoText)
  /\ UNCHANGED <<state, file, pageVars>>

Edit(p, text) ==
  /\ Loaded(p) /\ text # doc[p]
  /\ Budget \/ timer[p]
  /\ doc' = [doc EXCEPT ![p] = text]
  /\ timer' = [timer EXCEPT ![p] = TRUE]
  /\ UNCHANGED <<state, file, req, outputs, shown, msg, lost>>

TimerFires(p) ==
  /\ timer[p]
  /\ timer' = [timer EXCEPT ![p] = FALSE]
  /\ Send(p, "config", doc[p])
  /\ UNCHANGED <<state, file, doc, outputs, shown, msg, lost>>

ClickSave(p) ==
  /\ Loaded(p) /\ Budget
  /\ Send(p, "save", doc[p])
  /\ UNCHANGED <<state, file, pageVars>>

ClickTab(p) ==
  /\ Loaded(p) /\ shown[p] # outputs[p]
  /\ shown' = [shown EXCEPT ![p] = outputs[p]]
  /\ UNCHANGED <<state, file, req, doc, timer, outputs, msg, lost>>

(***************************************************************************)
(* POST /config.  apply_yaml calls _rebuild, which builds a model of its   *)
(* own and takes the lock only to store the result; then it takes the lock *)
(* again and answers with what the state holds.                            *)
(***************************************************************************)
RebuiltKeepingError(text) ==
  IF text \in Good THEN [state EXCEPT !.outputs = text, !.schemaInfo = text, !.yaml = text]
  ELSE [state EXCEPT !.error = text]
Rebuilt(text) ==
  IF text \in Good THEN [outputs |-> text, schemaInfo |-> text, yaml |-> text, error |-> NoText]
  ELSE [state EXCEPT !.error = text]

Rebuild(r) ==
  /\ At(r, "config", "received")
  /\ state' = Rebuilt(req[r].text)
  /\ Advance(r, "built")
  /\ UNCHANGED <<file, pageVars>>

AnswerConfig(r) ==
  /\ At(r, "config", "built")
  /\ Respond(r, [outputs |-> state.outputs, error |-> state.error])
  /\ UNCHANGED <<state, file, pageVars>>

(***************************************************************************)
(* GET /.  _build_html reads the fields one after the other, without the   *)
(* lock.                                                                   *)
(***************************************************************************)
PageFields == <<"schemaInfo", "yaml", "outputs", "error">>

ReadField(r) ==
  LET read == Cardinality(DOMAIN req[r].answer)
      field == PageFields[read + 1]
  IN
  /\ At(r, "page", "received")
  /\ req' = [req EXCEPT ![r].answer = [f \in DOMAIN @ \union {field} |->
                                         IF f = field THEN state[field] ELSE @[f]],
                        ![r].step = IF read + 1 < Len(PageFields) THEN @ ELSE "answered"]
  /\ UNCHANGED <<state, file, pageVars>>

(***************************************************************************)
(* POST /save.  The file is opened for writing, which empties it, and the  *)
(* text is written when it is closed.  Two threads that have it open write *)
(* over each other from its start.  Opening and writing may fail with an   *)
(* OSError, which is answered; some of the text may then be written.       *)
(***************************************************************************)
KeptOnOpen(content) == content
EmptiedOnOpen(content) == <<>>
Overwritten(start) == start \o SubSeq(file, Len(start) + 1, Len(file))

OpenFile(r) ==
  /\ At(r, "save", "received")
  /\ file' = EmptiedOnOpen(file)
  /\ Advance(r, "opened")
  /\ UNCHANGED <<state, pageVars>>

WriteFile(r) ==
  /\ At(r, "save", "opened")
  /\ file' = Overwritten(Content(req[r].text))
  /\ Respond(r, [error |-> NoText])
  /\ UNCHANGED <<state, pageVars>>

OpenFails(r) ==
  /\ At(r, "save", "received")
  /\ Respond(r, [error |-> req[r].text])
  /\ UNCHANGED <<state, file, pageVars>>

WriteFails(r) ==
  /\ At(r, "save", "opened")
  /\ \E n \in 0..(Width[req[r].text] - 1) : file' = Overwritten(SubSeq(Content(req[r].text), 1, n))
  /\ Respond(r, [error |-> req[r].text])
  /\ UNCHANGED <<state, pageVars>>

(***************************************************************************)
(* The page handles an answer: doRebuild, the save button, the page itself *)
(* loading.  doRebuild takes the outputs of any answer but draws them only *)
(* without an error; a success clears the message unless another edit is   *)
(* waiting.                                                                *)
(***************************************************************************)
Handle(r) ==
  LET p == req[r].page
      a == req[r].answer
  IN
  /\ req[r].step = "answered" /\ r \notin lost
  /\ Advance(r, "handled")
  /\ \/ /\ req[r].kind = "config"
        /\ outputs' = [outputs EXCEPT ![p] = a.outputs]
        /\ shown' = IF a.error # NoText THEN shown ELSE [shown EXCEPT ![p] = a.outputs]
        /\ msg' = [msg EXCEPT ![p] = IF a.error # NoText THEN a.error
                                     ELSE IF timer[p] THEN @ ELSE NoText]
        /\ UNCHANGED doc
     \/ /\ req[r].kind = "save"
        /\ msg' = [msg EXCEPT ![p] = IF a.error # NoText THEN a.error ELSE Saved]
        /\ UNCHANGED <<doc, outputs, shown>>
     \/ /\ req[r].kind = "page"
        /\ doc' = [doc EXCEPT ![p] = a.yaml]
        /\ outputs' = [outputs EXCEPT ![p] = a.outputs]
        /\ shown' = [shown EXCEPT ![p] = a.outputs]
        /\ msg' = [msg EXCEPT ![p] = a.error]
  /\ UNCHANGED <<state, file, timer, lost>>

(***************************************************************************)
(* A fetch fails and the page says so: the request has not reached the     *)
(* server, or its answer will not reach the page.  A server that has it    *)
(* goes on with it all the same.                                           *)
(***************************************************************************)
FetchFails(r) ==
  /\ req[r].kind # "page" /\ req[r].step # "handled"
  /\ r \notin lost /\ Cardinality(lost) < MaxLost
  /\ lost' = lost \union {r}
  /\ msg' = [msg EXCEPT ![req[r].page] = NetworkError]
  /\ UNCHANGED <<state, file, req, doc, timer, outputs, shown>>

Drop(r) ==
  /\ r \in lost /\ req[r].step \in {"received", "answered"}
  /\ Advance(r, "handled")
  /\ UNCHANGED <<state, file, pageVars>>

(***************************************************************************)
(* _State.__init__ builds the file's configuration before any request.     *)
(***************************************************************************)
Init ==
  /\ \E t \in Initial :
       /\ state = IF t \in Good
                  THEN [outputs |-> t, schemaInfo |-> t, yaml |-> t, error |-> NoText]
                  ELSE [outputs |-> NoText, schemaInfo |-> NoText, yaml |-> t, error |-> t]
       /\ file = Content(t)
  /\ req = <<>>
  /\ doc = [p \in Page |-> NoText]
  /\ timer = [p \in Page |-> FALSE]
  /\ outputs = [p \in Page |-> NoText]
  /\ shown = [p \in Page |-> NoText]
  /\ msg = [p \in Page |-> NoText]
  /\ lost = {}

Next ==
  \/ \E p \in Page : \/ OpenPage(p) \/ TimerFires(p) \/ ClickSave(p) \/ ClickTab(p)
                     \/ \E t \in Text : Edit(p, t)
  \/ \E r \in Id : \/ Rebuild(r) \/ AnswerConfig(r) \/ ReadField(r)
                   \/ OpenFile(r) \/ WriteFile(r) \/ OpenFails(r) \/ WriteFails(r)
                   \/ Handle(r) \/ FetchFails(r) \/ Drop(r)

Spec == Init /\ [][Next]_vars

-----------------------------------------------------------------------------
(***************************************************************************)
(* The page waits for no answer and has no edit to post.                   *)
(***************************************************************************)
RequestsOf(p) == {r \in Id : req[r].page = p}
Quiet(p) == Loaded(p) /\ ~timer[p] /\ RequestsOf(p) \intersect Pending \subseteq lost
Last(S) == CHOOSE r \in S : \A q \in S : q <= r
LastBuild(p) == Last({r \in RequestsOf(p) : req[r].kind # "save"})

(***************************************************************************)
(* What a page should show for its text: what is built from it, and, after *)
(* an edit and unless a save had its own message since, its error or none. *)
(***************************************************************************)
ShowsItsText(p) ==
  /\ doc[p] \in Good => shown[p] = doc[p]
  /\ req[Last(RequestsOf(p))].kind = "config" =>
       msg[p] = IF doc[p] \in Good THEN NoText ELSE doc[p]

SaysLost(p) == Last(RequestsOf(p)) = LastBuild(p) => msg[p] = NetworkError

(***************************************************************************)
(* A page that waits for nothing shows its text, provided that no other    *)
(* request, of any page, was in progress with its last one: the answer     *)
(* read from the shared state is then the request's own, whatever was      *)
(* built, failed, lost or overtaken before.  If that request itself failed *)
(* on its way, the page says so.                                           *)
(***************************************************************************)
LoneAnswerShown ==
  \A p \in Page : Quiet(p) /\ req[LastBuild(p)].alone =>
    IF LastBuild(p) \in lost THEN SaysLost(p) ELSE ShowsItsText(p)

(***************************************************************************)
(* "Edit the config and the diagram updates automatically": the diagram of *)
(* a page that waits for nothing is that of its text.                      *)
(***************************************************************************)
DiagramFollowsEdits == \A p \in Page : Quiet(p) /\ doc[p] \in Good => shown[p] = doc[p]

(***************************************************************************)
(* After the last save the file holds the saved text, all of it and        *)
(* nothing else, when the page got its answer without an error and no      *)
(* other request was in progress with it; whatever failed, lost or         *)
(* overlapping saves left in the file before.                              *)
(***************************************************************************)
Saves == {r \in Id : req[r].kind = "save"}
LoneSaveKept ==
  Saves # {} =>
    LET s == Last(Saves) IN
    req[s].alone /\ req[s].step = "handled" /\ s \notin lost /\ req[s].answer.error = NoText
      => file = Content(req[s].text)
=============================================================================
