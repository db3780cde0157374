----------------------------- MODULE ServeProofs -----------------------------
(***************************************************************************)
(* Theorems about ServeState, for any number of pages and requests.        *)
(***************************************************************************)
EXTENDS ServeState, DataLemmas, FiniteSetTheorems

Outcome == Text \union {NoText}
Field == {"schemaInfo", "yaml", "outputs", "error"}
Answer == UNION {[F -> Outcome] : F \in SUBSET Field}
Request ==
  [page : Page, kind : {"page", "config", "save"}, text : Outcome,
   step : {"received", "built", "opened", "answered", "handled"}, alone : BOOLEAN, answer : Answer]

TypeOK ==
  /\ state \in [outputs : Outcome, schemaInfo : Outcome, yaml : Text, error : Outcome]
  /\ file \in Seq(Text)
  /\ req \in Seq(Request)
  /\ doc \in [Page -> Outcome] /\ timer \in [Page -> BOOLEAN]
  /\ outputs \in [Page -> Outcome] /\ shown \in [Page -> Outcome]
  /\ msg \in [Page -> Outcome \union {Saved, NetworkError}]
  /\ lost \subseteq Id

(***************************************************************************)
(* What an answer has, by the kind of its request and its step.  A page is *)
(* read field by field.  A lost request may have none.                     *)
(***************************************************************************)
FieldsRead(n) == {PageFields[i] : i \in 1..n}

Fits(q) ==
  /\ q.kind = "save" => /\ q.text \in Text /\ q.step # "built"
                        /\ q.step = "answered" => DOMAIN q.answer = {"error"}
  /\ q.kind = "config" => /\ q.text \in Text /\ q.step # "opened"
                          /\ q.step = "answered" => DOMAIN q.answer = {"outputs", "error"}
  /\ q.kind = "page" => /\ q.step \notin {"built", "opened"}
                        /\ q.step = "received" => \E n \in 0..3 : DOMAIN q.answer = FieldsRead(n)
                        /\ q.step # "received" => DOMAIN q.answer = Field
                        /\ "yaml" \in DOMAIN q.answer => q.answer.yaml \in Text
AllFit == \A r \in Id : Fits(req[r]) /\ (r \in lost => req[r].kind # "page")

(***************************************************************************)
(* A request that was alone had all earlier ones handled, and is the only  *)
(* one in progress until it is handled itself.                             *)
(***************************************************************************)
Lone(r) ==
  /\ \A q \in Id : q < r => q \notin Pending
  /\ r \in Pending => Pending \subseteq {r}
LoneAlone == \A r \in Id : req[r].alone => Lone(r)

(***************************************************************************)
(* A page sends nothing else before it is loaded, and loads once.          *)
(***************************************************************************)
Builds(p) == {r \in RequestsOf(p) : req[r].kind # "save"}

PagesLoad ==
  \A p \in Page :
    /\ ~Loaded(p) => /\ ~timer[p]
                     /\ \A r \in RequestsOf(p) : req[r].kind = "page" /\ RequestsOf(p) \subseteq {r}
    /\ Loaded(p) => /\ Builds(p) # {}
                    /\ \A r \in RequestsOf(p) : req[r].kind = "page" => req[r].step = "handled"

IsLast(r, S) == r \in S /\ \A q \in S : q <= r
Received(r) == req[r].step = "handled" /\ r \notin lost

(***************************************************************************)
(* The last save, if alone: the file is empty when it writes, and nothing  *)
(* writes after it.                                                        *)
(***************************************************************************)
SaveKept(s) ==
  /\ req[s].step = "opened" => file = <<>>
  /\ (req[s].step = "answered" \/ Received(s)) /\ req[s].answer.error = NoText => file = Content(req[s].text)
SavesKept == \A s \in Id : IsLast(s, Saves) /\ req[s].alone => SaveKept(s)

(***************************************************************************)
(* The last build of a page, if alone: what it stored in the state is      *)
(* there until it answers, and what it answers is what the page shows.  If *)
(* it is lost, the page says so.                                           *)
(***************************************************************************)
OutputsMatch == state.yaml \in Good => state.outputs = state.yaml

Result(t, drawn, error) ==
  /\ t \in Good => drawn = t /\ error = NoText
  /\ t \in Bad => error = t

TextIs(p, b) ==
  ~timer[p] => /\ req[b].kind = "config" => doc[p] = req[b].text
               /\ req[b].kind = "page" /\ req[b].step = "handled" => doc[p] = req[b].answer.yaml

ConfigShown(p, b) ==
  /\ req[b].step = "built" => Result(req[b].text, state.outputs, state.error)
  /\ req[b].step = "answered" \/ Received(b) =>
       Result(req[b].text, req[b].answer.outputs, req[b].answer.error)
  /\ Received(b) =>
       /\ outputs[p] = req[b].answer.outputs
       /\ req[b].answer.error = NoText => shown[p] = outputs[p]
       /\ ~timer[p] /\ IsLast(b, RequestsOf(p)) => msg[p] = req[b].answer.error
  /\ b \in lost /\ IsLast(b, RequestsOf(p)) => msg[p] = NetworkError

PageShown(p, b) ==
  /\ req[b].step = "received" => \A f \in DOMAIN req[b].answer : req[b].answer[f] = state[f]
  /\ req[b].step \in {"answered", "handled"} =>
       (req[b].answer.yaml \in Good => req[b].answer.outputs = req[b].answer.yaml)
  /\ req[b].step = "handled" => shown[p] = req[b].answer.outputs /\ outputs[p] = shown[p]

BuildShown(p, b) ==
  /\ TextIs(p, b)
  /\ req[b].alone => /\ req[b].kind = "config" => ConfigShown(p, b)
                     /\ req[b].kind = "page" => PageShown(p, b)
BuildsShown == \A p \in Page : \A b \in Id : IsLast(b, Builds(p)) => BuildShown(p, b)

ServeInv ==
  TypeOK /\ AllFit /\ LoneAlone /\ PagesLoad /\ OutputsMatch /\ SavesKept /\ BuildsShown

-----------------------------------------------------------------------------
(***************************************************************************)
(* What sending a request and a step of one do to the requests.            *)
(***************************************************************************)
Kind == {"page", "config", "save"}
Steps == {"received", "built", "opened", "answered", "handled"}

LEMMA Ids ==
  ASSUME TypeOK
  PROVE  /\ Len(req) \in Nat /\ Id = 1..Len(req)
         /\ \A r \in Id : req[r] \in Request
BY DEF TypeOK, Id

Sent(p, kind, text) ==
  LET n == Len(req) + 1 IN
  /\ req' \in Seq(Request)
  /\ Id' = Id \union {n} /\ n \notin Id /\ \A q \in Id : q < n
  /\ req'[n] = [page |-> p, kind |-> kind, text |-> text, step |-> "received",
                alone |-> Pending = {}, answer |-> <<>>]
  /\ \A q \in Id : /\ req'[q].page = req[q].page /\ req'[q].kind = req[q].kind
                   /\ req'[q].text = req[q].text /\ req'[q].step = req[q].step
                   /\ req'[q].answer = req[q].answer
                   /\ req'[q].alone => req[q].alone /\ q \notin Pending

LEMMA NoAnswerYet == <<>> \in Answer
<1>1. <<>> \in [{} -> Outcome]
  OBVIOUS
<1> QED
  BY <1>1 DEF Answer

LEMMA Sends ==
  ASSUME TypeOK, NEW p \in Page, NEW kind \in Kind, NEW text \in Outcome, Send(p, kind, text)
  PROVE  Sent(p, kind, text)
<1> DEFINE new == [page |-> p, kind |-> kind, text |-> text, step |-> "received",
                   alone |-> Pending = {}, answer |-> <<>>]
           old == [r \in Id |-> IF r \in Pending THEN [req[r] EXCEPT !.alone = FALSE] ELSE req[r]]
<1>1. new \in Request
  <2>1. (Pending = {}) \in BOOLEAN
    OBVIOUS
  <2> QED
    BY <2>1, NoAnswerYet DEF Request, Kind
<1>2. \A q \in Id : /\ old[q] \in Request
                    /\ old[q].page = req[q].page /\ old[q].kind = req[q].kind
                    /\ old[q].text = req[q].text /\ old[q].step = req[q].step
                    /\ old[q].answer = req[q].answer
                    /\ old[q].alone => req[q].alone /\ q \notin Pending
  BY Ids DEF Request
<1>3. old \in Seq(Request) /\ Len(old) = Len(req) /\ DOMAIN old = 1..Len(req)
  <2>1. old \in [1..Len(req) -> Request]
    BY <1>2, Ids
  <2> QED
    BY <2>1, Ids
<1> HIDE DEF new, old
<1>4. req' = Append(old, new)
  BY DEF Send, new, old
<1>5. /\ req' \in Seq(Request) /\ Len(req') = Len(req) + 1 /\ DOMAIN req' = 1..(Len(req) + 1)
      /\ req'[Len(req) + 1] = new
      /\ \A q \in 1..Len(req) : req'[q] = old[q]
  BY <1>1, <1>3, <1>4, Ids
<1> QED
  BY <1>2, <1>5, Ids DEF Sent, new, Id

Stepped(r, step, answer) ==
  /\ req' \in Seq(Request)
  /\ Id' = Id
  /\ \A q \in Id \ {r} : req'[q] = req[q]
  /\ req'[r].page = req[r].page /\ req'[r].kind = req[r].kind
  /\ req'[r].text = req[r].text /\ req'[r].alone = req[r].alone
  /\ req'[r].step = step /\ req'[r].answer = answer

LEMMA StepsRequest ==
  ASSUME TypeOK, NEW r \in Id, NEW step \in Steps, NEW answer \in Answer,
         req' = [req EXCEPT ![r] = [@ EXCEPT !.step = step, !.answer = answer]]
  PROVE  Stepped(r, step, answer)
<1>1. [req[r] EXCEPT !.step = step, !.answer = answer] \in Request
  BY Ids DEF Request, Steps
<1>2. req' \in Seq(Request) /\ DOMAIN req' = DOMAIN req
  <2>1. req' \in [1..Len(req) -> Request]
    BY <1>1, Ids DEF TypeOK, Id
  <2> QED
    BY <2>1, Ids DEF Id
<1>3. req'[r] = [req[r] EXCEPT !.step = step, !.answer = answer]
  BY DEF Id
<1> QED
  BY <1>2, <1>3, Ids DEF Stepped, Id, Request

LEMMA Advances ==
  ASSUME TypeOK, NEW r \in Id, NEW step \in Steps, Advance(r, step)
  PROVE  Stepped(r, step, req[r].answer)
<1>1. req[r].answer \in Answer /\ req[r] \in Request
  BY Ids DEF Request
<1>2. [req[r] EXCEPT !.step = step] = [req[r] EXCEPT !.step = step, !.answer = req[r].answer]
  BY <1>1 DEF Request
<1>3. req' = [req EXCEPT ![r] = [@ EXCEPT !.step = step, !.answer = req[r].answer]]
  BY <1>2 DEF Advance
<1> QED
  BY <1>1, <1>3, StepsRequest

LEMMA Responds ==
  ASSUME TypeOK, NEW r \in Id, NEW answer \in Answer, Respond(r, answer)
  PROVE  Stepped(r, "answered", answer)
<1>1. req' = [req EXCEPT ![r] = [@ EXCEPT !.step = "answered", !.answer = answer]]
  BY Ids DEF Respond, Id
<1> QED
  BY <1>1, StepsRequest DEF Steps

LEMMA Answers ==
  ASSUME TypeOK
  PROVE  /\ [outputs |-> state.outputs, error |-> state.error] \in Answer
         /\ \A e \in Outcome : [error |-> e] \in Answer
<1>1. [outputs |-> state.outputs, error |-> state.error] \in [{"outputs", "error"} -> Outcome]
  BY DEF TypeOK
<1>2. \A e \in Outcome : [error |-> e] \in [{"error"} -> Outcome]
  OBVIOUS
<1>3. {"outputs", "error"} \in SUBSET Field /\ {"error"} \in SUBSET Field
  BY DEF Field
<1> QED
  BY <1>1, <1>2, <1>3 DEF Answer

LEMMA PageSends ==
  ASSUME TypeOK, PagesLoad, NEW p \in Page
  PROVE  /\ OpenPage(p) => Sent(p, "page", NoText)
         /\ TimerFires(p) => Sent(p, "config", doc[p]) /\ doc[p] \in Text
         /\ ClickSave(p) => Sent(p, "save", doc[p]) /\ doc[p] \in Text
<1>1. NoText \in Outcome /\ doc[p] \in Outcome /\ (Loaded(p) => doc[p] \in Text)
  BY DEF TypeOK, Outcome, Loaded
<1>2. timer[p] => Loaded(p)
  BY DEF PagesLoad
<1> QED
  BY <1>1, <1>2, Sends DEF OpenPage, TimerFires, ClickSave, Kind

(***************************************************************************)
(* The fields of a page are read in order, each once.                      *)
(***************************************************************************)
LEMMA Reading ==
  ASSUME NEW n \in 0..3, NEW a, DOMAIN a = FieldsRead(n)
  PROVE  /\ Cardinality(DOMAIN a) = n /\ PageFields[n + 1] \in Field
         /\ FieldsRead(n + 1) = FieldsRead(n) \union {PageFields[n + 1]}
         /\ n + 1 < Len(PageFields) <=> n < 3
         /\ FieldsRead(4) = Field
<1>1. /\ FieldsRead(0) = {} /\ FieldsRead(1) = {"schemaInfo"} /\ FieldsRead(2) = {"schemaInfo", "yaml"}
      /\ FieldsRead(3) = {"schemaInfo", "yaml", "outputs"} /\ FieldsRead(4) = Field
  BY DEF FieldsRead, PageFields, Field
<1>2. Cardinality({}) = 0 /\ IsFiniteSet({})
  BY FS_EmptySet
<1>3. Cardinality({"schemaInfo"}) = 1 /\ IsFiniteSet({"schemaInfo"})
  BY FS_Singleton
<1>4. Cardinality({"schemaInfo", "yaml"}) = 2 /\ IsFiniteSet({"schemaInfo", "yaml"})
  <2>1. {"schemaInfo", "yaml"} = {"schemaInfo"} \cup {"yaml"} /\ "yaml" \notin {"schemaInfo"}
    OBVIOUS
  <2> QED
    BY <1>3, <2>1, FS_AddElement
<1>5. Cardinality({"schemaInfo", "yaml", "outputs"}) = 3
  <2>1. /\ {"schemaInfo", "yaml", "outputs"} = {"schemaInfo", "yaml"} \cup {"outputs"}
        /\ "outputs" \notin {"schemaInfo", "yaml"}
    OBVIOUS
  <2> QED
    BY <1>4, <2>1, FS_AddElement
<1>6. n = 0 \/ n = 1 \/ n = 2 \/ n = 3
  OBVIOUS
<1>7. Cardinality(DOMAIN a) = n
  BY <1>1, <1>2, <1>3, <1>4, <1>5, <1>6
<1>8. /\ PageFields[n + 1] \in Field
      /\ FieldsRead(n + 1) = FieldsRead(n) \union {PageFields[n + 1]}
      /\ n + 1 < Len(PageFields) <=> n < 3
  BY <1>1, <1>6 DEF PageFields, Field
<1> QED
  BY <1>1, <1>7, <1>8

ReadStep(r, n) ==
  /\ DOMAIN req[r].answer = FieldsRead(n)
  /\ Stepped(r, IF n < 3 THEN "received" ELSE "answered",
             [f \in FieldsRead(n + 1) |-> IF f = PageFields[n + 1] THEN state[f] ELSE req[r].answer[f]])

LEMMA Reads ==
  ASSUME TypeOK, AllFit, NEW r \in Id, ReadField(r)
  PROVE  \E n \in 0..3 : ReadStep(r, n)
<1>1. req[r].kind = "page" /\ req[r].step = "received" /\ req[r] \in Request
  BY Ids DEF ReadField, At
<1>2. PICK n \in 0..3 : DOMAIN req[r].answer = FieldsRead(n)
  BY <1>1 DEF AllFit, Fits
<1> DEFINE field == PageFields[n + 1]
           answer == [f \in DOMAIN req[r].answer \union {field} |->
                        IF f = field THEN state[field] ELSE req[r].answer[f]]
<1>3. /\ Cardinality(DOMAIN req[r].answer) = n /\ field \in Field
      /\ FieldsRead(n + 1) = FieldsRead(n) \union {field}
      /\ n + 1 < Len(PageFields) <=> n < 3
  BY <1>2, Reading
<1>4. req' = [req EXCEPT ![r] = [@ EXCEPT !.step = IF n < 3 THEN "received" ELSE "answered",
                                          !.answer = answer]]
  <2>1. req' = [req EXCEPT ![r].answer = [f \in DOMAIN @ \union {field} |->
                                            IF f = field THEN state[field] ELSE @[f]],
                           ![r].step = IF n + 1 < Len(PageFields) THEN @ ELSE "answered"]
    BY <1>3 DEF ReadField
  <2>2. [req[r] EXCEPT !.answer = [f \in DOMAIN @ \union {field} |->
                                     IF f = field THEN state[field] ELSE @[f]],
                       !.step = IF n + 1 < Len(PageFields) THEN @ ELSE "answered"]
        = [req[r] EXCEPT !.step = IF n < 3 THEN "received" ELSE "answered", !.answer = answer]
    BY <1>1, <1>3 DEF Request
  <2> QED
    BY <2>1, <2>2, Ids DEF Id
<1>5. answer \in Answer
  <2>1. \A f \in DOMAIN req[r].answer : req[r].answer[f] \in Outcome /\ f \in Field
    BY <1>1 DEF Request, Answer
  <2>2. \A f \in Field : state[f] \in Outcome
    BY DEF TypeOK, Field, Outcome
  <2>3. answer \in [(DOMAIN req[r].answer \union {field}) -> Outcome]
    BY <1>3, <2>1, <2>2
  <2>4. (DOMAIN req[r].answer \union {field}) \in SUBSET Field
    BY <1>3, <2>1
  <2> QED
    BY <2>3, <2>4 DEF Answer
<1>6. answer = [f \in FieldsRead(n + 1) |-> IF f = field THEN state[f] ELSE req[r].answer[f]]
  BY <1>2, <1>3
<1>7. Stepped(r, IF n < 3 THEN "received" ELSE "answered", answer)
  <2> HIDE DEF answer
  <2> QED
    BY <1>4, <1>5, StepsRequest DEF Steps
<1> QED
  BY <1>2, <1>6, <1>7 DEF ReadStep

LEMMA Serves ==
  ASSUME TypeOK, AllFit, NEW r \in Id
  PROVE  /\ Rebuild(r) => Stepped(r, "built", req[r].answer) /\ req[r].text \in Text
         /\ AnswerConfig(r) => Stepped(r, "answered", [outputs |-> state.outputs, error |-> state.error])
         /\ OpenFile(r) => Stepped(r, "opened", req[r].answer)
         /\ WriteFile(r) => Stepped(r, "answered", [error |-> NoText]) /\ req[r].text \in Text
         /\ OpenFails(r) \/ WriteFails(r) =>
              Stepped(r, "answered", [error |-> req[r].text]) /\ req[r].text \in Text
         /\ Handle(r) \/ Drop(r) => Stepped(r, "handled", req[r].answer)
<1>1. /\ req[r].kind \in {"config", "save"} => req[r].text \in Text
      /\ req[r].text \in Outcome
  BY Ids DEF AllFit, Fits, Request
<1>2. Rebuild(r) => Stepped(r, "built", req[r].answer)
  BY Advances DEF Rebuild, Steps
<1>3. AnswerConfig(r) => Stepped(r, "answered", [outputs |-> state.outputs, error |-> state.error])
  BY Responds, Answers DEF AnswerConfig
<1>4. OpenFile(r) => Stepped(r, "opened", req[r].answer)
  BY Advances DEF OpenFile, Steps
<1>5. WriteFile(r) => Stepped(r, "answered", [error |-> NoText])
  BY Responds, Answers DEF WriteFile, Outcome
<1>6. OpenFails(r) \/ WriteFails(r) => Stepped(r, "answered", [error |-> req[r].text])
  BY <1>1, Responds, Answers DEF OpenFails, WriteFails
<1>7. Handle(r) \/ Drop(r) => Stepped(r, "handled", req[r].answer)
  BY Advances DEF Handle, Drop, Steps
<1> QED
  BY <1>1, <1>2, <1>3, <1>4, <1>5, <1>6, <1>7 DEF Rebuild, WriteFile, OpenFails, WriteFails, At

-----------------------------------------------------------------------------
(***************************************************************************)
(* Types, and what answers have.                                           *)
(***************************************************************************)
LEMMA SentFits ==
  ASSUME TypeOK, AllFit, NEW p, NEW kind, NEW text, Sent(p, kind, text), kind # "page" => text \in Text,
         lost' = lost
  PROVE  AllFit' /\ lost' \subseteq Id'
<1>1. ASSUME NEW q \in Id PROVE Fits(req'[q]) /\ (q \in lost => req'[q].kind # "page")
  <2>1. Fits(req[q]) /\ (q \in lost => req[q].kind # "page")
    BY DEF AllFit
  <2>2. /\ req'[q].kind = req[q].kind /\ req'[q].text = req[q].text
        /\ req'[q].step = req[q].step /\ req'[q].answer = req[q].answer
    BY <1>1 DEF Sent
  <2> QED
    BY <2>1, <2>2 DEF Fits
<1>2. Fits(req'[Len(req) + 1])
  <2>1. DOMAIN <<>> = FieldsRead(0)
    BY DEF FieldsRead
  <2> QED
    BY <2>1 DEF Sent, Fits
<1>3. Id' = Id \union {Len(req) + 1} /\ lost \subseteq Id /\ Len(req) + 1 \notin Id
  BY DEF Sent, TypeOK
<1> QED
  BY <1>1, <1>2, <1>3 DEF AllFit

LEMMA SteppedFits ==
  ASSUME TypeOK, AllFit, NEW r \in Id, NEW step, NEW answer, Stepped(r, step, answer), Fits(req'[r]),
         lost' = lost
  PROVE  AllFit' /\ lost' \subseteq Id'
BY DEF AllFit, Stepped, TypeOK

LEMMA Fields ==
  ASSUME TypeOK, NEW r \in Id, NEW f \in DOMAIN req[r].answer
  PROVE  req[r].answer[f] \in Outcome
BY Ids DEF Request, Answer

LEMMA ContentText ==
  ASSUME NEW t \in Text
  PROVE  /\ Content(t) \in Seq(Text) /\ Len(Content(t)) = Width[t]
         /\ \A n \in 0..(Width[t] - 1) : SubSeq(Content(t), 1, n) \in Seq(Text)
<1>1. Width[t] \in Nat
  BY TextAssumption
<1>2. Content(t) \in [1..Width[t] -> Text]
  BY DEF Content
<1>3. Content(t) \in Seq(Text) /\ Len(Content(t)) = Width[t]
  BY <1>1, <1>2
<1> QED
  BY <1>1, <1>3

LEMMA OverwrittenText ==
  ASSUME TypeOK, NEW start \in Seq(Text)
  PROVE  Overwritten(start) \in Seq(Text)
<1>1. SubSeq(file, Len(start) + 1, Len(file)) \in Seq(Text)
  BY DEF TypeOK
<1> QED
  BY <1>1 DEF Overwritten

LEMMA RebuiltState ==
  ASSUME TypeOK, NEW t \in Text
  PROVE  Rebuilt(t) \in [outputs : Outcome, schemaInfo : Outcome, yaml : Text, error : Outcome]
BY DEF Rebuilt, TypeOK, Outcome, Text

LEMMA PageTyped ==
  ASSUME TypeOK, AllFit, PagesLoad, NEW p \in Page,
         OpenPage(p) \/ TimerFires(p) \/ ClickSave(p) \/ ClickTab(p) \/ \E t \in Text : Edit(p, t)
  PROVE  TypeOK' /\ AllFit'
<1>1. CASE OpenPage(p)
  <2>1. Sent(p, "page", NoText)
    BY <1>1, PageSends
  <2>2. AllFit' /\ lost' \subseteq Id'
    BY <1>1, <2>1, SentFits DEF OpenPage, pageVars
  <2> QED
    BY <1>1, <2>1, <2>2 DEF OpenPage, TypeOK, Sent, pageVars
<1>2. CASE TimerFires(p)
  <2>1. Sent(p, "config", doc[p]) /\ doc[p] \in Text
    BY <1>2, PageSends
  <2>2. AllFit' /\ lost' \subseteq Id'
    BY <1>2, <2>1, SentFits DEF TimerFires
  <2>3. timer' \in [Page -> BOOLEAN]
    BY <1>2 DEF TimerFires, TypeOK
  <2> QED
    BY <1>2, <2>1, <2>2, <2>3 DEF TimerFires, TypeOK, Sent
<1>3. CASE ClickSave(p)
  <2>1. Sent(p, "save", doc[p]) /\ doc[p] \in Text
    BY <1>3, PageSends
  <2>2. AllFit' /\ lost' \subseteq Id'
    BY <1>3, <2>1, SentFits DEF ClickSave, pageVars
  <2> QED
    BY <1>3, <2>1, <2>2 DEF ClickSave, TypeOK, Sent, pageVars
<1>4. CASE \E t \in Text : Edit(p, t)
  <2>1. req' = req /\ Id' = Id /\ (\A q : Fits(req'[q]) <=> Fits(req[q]))
    BY <1>4 DEF Edit, Id
  <2>2. doc' \in [Page -> Outcome] /\ timer' \in [Page -> BOOLEAN]
    BY <1>4 DEF Edit, TypeOK, Outcome
  <2> QED
    BY <1>4, <2>1, <2>2 DEF Edit, TypeOK, AllFit
<1>5. CASE ClickTab(p)
  <2>1. req' = req /\ Id' = Id /\ (\A q : Fits(req'[q]) <=> Fits(req[q]))
    BY <1>5 DEF ClickTab, Id
  <2>2. shown' \in [Page -> Outcome]
    BY <1>5 DEF ClickTab, TypeOK
  <2> QED
    BY <1>5, <2>1, <2>2 DEF ClickTab, TypeOK, AllFit
<1> QED
  BY <1>1, <1>2, <1>3, <1>4, <1>5

LEMMA ServerTyped ==
  ASSUME TypeOK, AllFit, NEW r \in Id,
         \/ Rebuild(r) \/ AnswerConfig(r) \/ ReadField(r)
         \/ OpenFile(r) \/ WriteFile(r) \/ OpenFails(r) \/ WriteFails(r)
  PROVE  TypeOK' /\ AllFit'
<1>1. CASE Rebuild(r)
  <2>1. Stepped(r, "built", req[r].answer) /\ req[r].text \in Text /\ req[r].kind = "config"
    BY <1>1, Serves DEF Rebuild, At
  <2>2. Fits(req'[r])
    BY <2>1 DEF Stepped, Fits
  <2>3. state' \in [outputs : Outcome, schemaInfo : Outcome, yaml : Text, error : Outcome]
    BY <1>1, <2>1, RebuiltState DEF Rebuild
  <2> QED
    BY <1>1, <2>1, <2>2, <2>3, SteppedFits DEF Rebuild, TypeOK, Stepped, pageVars
<1>2. CASE AnswerConfig(r)
  <2>1. /\ Stepped(r, "answered", [outputs |-> state.outputs, error |-> state.error])
        /\ req[r].kind = "config"
    BY <1>2, Serves DEF AnswerConfig, At
  <2>2. Fits(req'[r])
    BY <2>1 DEF Stepped, Fits, AllFit
  <2> QED
    BY <1>2, <2>1, <2>2, SteppedFits DEF AnswerConfig, TypeOK, Stepped, pageVars
<1>3. CASE ReadField(r)
  <2>1. PICK n \in 0..3 : ReadStep(r, n)
    BY <1>3, Reads
  <2>2. req[r].kind = "page" /\ Fits(req[r])
    BY <1>3 DEF ReadField, At, AllFit
  <2>3. /\ FieldsRead(n + 1) = FieldsRead(n) \union {PageFields[n + 1]}
        /\ FieldsRead(4) = Field
    BY <2>1, Reading DEF ReadStep
  <2>4. DOMAIN req'[r].answer = FieldsRead(n + 1)
    BY <2>1 DEF ReadStep, Stepped
  <2>5. "yaml" \in DOMAIN req'[r].answer => req'[r].answer.yaml \in Text
    <3>1. state.yaml \in Text
      BY DEF TypeOK
    <3> QED
      BY <2>1, <2>2, <2>3, <3>1 DEF ReadStep, Stepped, Fits
  <2>6. /\ req'[r].kind = "page"
        /\ req'[r].step = IF n < 3 THEN "received" ELSE "answered"
    BY <2>1, <2>2 DEF ReadStep, Stepped
  <2>7. Fits(req'[r])
    <3>1. CASE n < 3
      <4>1. n + 1 \in 0..3
        BY <3>1
      <4> QED
        BY <2>4, <2>5, <2>6, <3>1, <4>1 DEF Fits
    <3>2. CASE n = 3
      BY <2>3, <2>4, <2>5, <2>6, <3>2 DEF Fits
    <3> QED
      BY <3>1, <3>2
  <2> QED
    BY <1>3, <2>1, <2>7, SteppedFits DEF ReadField, ReadStep, TypeOK, Stepped, pageVars
<1>4. CASE OpenFile(r)
  <2>1. Stepped(r, "opened", req[r].answer) /\ req[r].kind = "save"
    BY <1>4, Serves DEF OpenFile, At
  <2>2. Fits(req'[r])
    BY <2>1 DEF Stepped, Fits, AllFit
  <2>3. file' \in Seq(Text)
    BY <1>4 DEF OpenFile, EmptiedOnOpen
  <2> QED
    BY <1>4, <2>1, <2>2, <2>3, SteppedFits DEF OpenFile, TypeOK, Stepped, pageVars
<1>5. CASE WriteFile(r)
  <2>1. Stepped(r, "answered", [error |-> NoText]) /\ req[r].kind = "save" /\ req[r].text \in Text
    BY <1>5, Serves DEF WriteFile, At
  <2>2. Fits(req'[r])
    BY <2>1 DEF Stepped, Fits, AllFit
  <2>3. file' \in Seq(Text)
    BY <1>5, <2>1, ContentText, OverwrittenText DEF WriteFile
  <2> QED
    BY <1>5, <2>1, <2>2, <2>3, SteppedFits DEF WriteFile, TypeOK, Stepped, pageVars
<1>6. CASE OpenFails(r) \/ WriteFails(r)
  <2>1. Stepped(r, "answered", [error |-> req[r].text]) /\ req[r].kind = "save" /\ req[r].text \in Text
    BY <1>6, Serves DEF OpenFails, WriteFails, At
  <2>2. Fits(req'[r])
    BY <2>1 DEF Stepped, Fits, AllFit
  <2>3. file' \in Seq(Text)
    BY <1>6, <2>1, ContentText, OverwrittenText DEF OpenFails, WriteFails, TypeOK
  <2> QED
    BY <1>6, <2>1, <2>2, <2>3, SteppedFits DEF OpenFails, WriteFails, TypeOK, Stepped, pageVars
<1> QED
  BY <1>1, <1>2, <1>3, <1>4, <1>5, <1>6

LEMMA HandleTyped ==
  ASSUME TypeOK, AllFit, NEW r \in Id, Handle(r)
  PROVE  TypeOK' /\ AllFit'
<1>1. /\ Stepped(r, "handled", req[r].answer) /\ req[r].step = "answered" /\ Fits(req[r])
      /\ state' = state /\ file' = file /\ timer' = timer /\ lost' = lost
  BY Serves DEF Handle, AllFit
<1>2. Fits(req'[r])
  BY <1>1 DEF Stepped, Fits
<1>3. /\ "outputs" \in DOMAIN req[r].answer => req[r].answer.outputs \in Outcome
      /\ "error" \in DOMAIN req[r].answer => req[r].answer.error \in Outcome
      /\ "yaml" \in DOMAIN req[r].answer => req[r].answer.yaml \in Outcome
  BY Fields
<1>4. /\ doc' \in [Page -> Outcome] /\ outputs' \in [Page -> Outcome] /\ shown' \in [Page -> Outcome]
      /\ msg' \in [Page -> Outcome \union {Saved, NetworkError}]
  <2>1. NoText \in Outcome
    BY DEF Outcome
  <2>2. req[r].kind = "page" => req[r].answer.yaml \in Outcome
    BY <1>1, <1>3 DEF Fits, Field
  <2>3. req[r].kind # "save" => req[r].answer.outputs \in Outcome
    BY <1>1, <1>3, Ids DEF Fits, Field, Request
  <2>4. req[r].answer.error \in Outcome
    BY <1>1, <1>3, Ids DEF Fits, Field, Request
  <2>5. doc' \in [Page -> Outcome]
    BY <2>2 DEF Handle, TypeOK
  <2>6. outputs' \in [Page -> Outcome]
    BY <2>3 DEF Handle, TypeOK
  <2>7. shown' \in [Page -> Outcome]
    <3>1. CASE req[r].kind = "config"
      BY <2>3, <3>1 DEF Handle, TypeOK
    <3>2. CASE req[r].kind # "config"
      BY <2>3, <3>2 DEF Handle, TypeOK
    <3> QED
      BY <3>1, <3>2
  <2>8. msg' \in [Page -> Outcome \union {Saved, NetworkError}]
    BY <2>1, <2>4 DEF Handle, TypeOK
  <2> QED
    BY <2>5, <2>6, <2>7, <2>8
<1> QED
  BY <1>1, <1>2, <1>4, SteppedFits DEF TypeOK, Stepped

LEMMA FetchTyped ==
  ASSUME TypeOK, AllFit, NEW r \in Id, FetchFails(r) \/ Drop(r)
  PROVE  TypeOK' /\ AllFit'
<1>1. CASE FetchFails(r)
  <2>1. req' = req /\ Id' = Id /\ (\A q : Fits(req'[q]) <=> Fits(req[q]))
    BY <1>1 DEF FetchFails, Id
  <2>2. msg' \in [Page -> Outcome \union {Saved, NetworkError}] /\ lost' \subseteq Id'
    BY <1>1, <2>1 DEF FetchFails, TypeOK
  <2> QED
    BY <1>1, <2>1, <2>2 DEF FetchFails, TypeOK, AllFit
<1>2. CASE Drop(r)
  <2>1. Stepped(r, "handled", req[r].answer) /\ Fits(req[r]) /\ req[r].kind # "page"
    BY <1>2, Serves DEF Drop, AllFit
  <2>2. Fits(req'[r])
    BY <2>1 DEF Stepped, Fits
  <2> QED
    BY <1>2, <2>1, <2>2, SteppedFits DEF Drop, TypeOK, Stepped, pageVars
<1> QED
  BY <1>1, <1>2

-----------------------------------------------------------------------------
(***************************************************************************)
(* The sets of requests after a step.                                      *)
(***************************************************************************)
LEMMA SentSets ==
  ASSUME TypeOK, NEW p \in Page, NEW kind \in Kind, NEW text, Sent(p, kind, text),
         NEW n, n = Len(req) + 1
  PROVE  /\ Pending' = Pending \union {n}
         /\ Saves' = IF kind = "save" THEN Saves \union {n} ELSE Saves
         /\ \A g \in Page :
              /\ RequestsOf(g)' = IF g = p THEN RequestsOf(g) \union {n} ELSE RequestsOf(g)
              /\ Builds(g)' = IF g = p /\ kind # "save" THEN Builds(g) \union {n} ELSE Builds(g)
<1>1. /\ Id' = Id \union {n}
      /\ req'[n].page = p /\ req'[n].kind = kind /\ req'[n].step = "received"
      /\ \A q \in Id : /\ req'[q].page = req[q].page /\ req'[q].kind = req[q].kind
                       /\ req'[q].step = req[q].step
  BY DEF Sent
<1>2. Pending' = Pending \union {n}
  BY <1>1 DEF Pending
<1>3. Saves' = IF kind = "save" THEN Saves \union {n} ELSE Saves
  BY <1>1 DEF Saves
<1>4. \A g \in Page : RequestsOf(g)' = IF g = p THEN RequestsOf(g) \union {n} ELSE RequestsOf(g)
  BY <1>1 DEF RequestsOf
<1>5. \A g \in Page : Builds(g)' = IF g = p /\ kind # "save" THEN Builds(g) \union {n} ELSE Builds(g)
  BY <1>1, <1>4 DEF Builds, RequestsOf
<1> QED
  BY <1>2, <1>3, <1>4, <1>5

LEMMA SteppedSets ==
  ASSUME NEW r \in Id, NEW step, NEW answer, Stepped(r, step, answer)
  PROVE  /\ Pending' \subseteq Pending \union {r}
         /\ step = "handled" => r \notin Pending'
         /\ Saves' = Saves
         /\ \A g \in Page : RequestsOf(g)' = RequestsOf(g) /\ Builds(g)' = Builds(g)
<1>1. /\ Id' = Id
      /\ \A q \in Id : req'[q].page = req[q].page /\ req'[q].kind = req[q].kind
      /\ \A q \in Id \ {r} : req'[q].step = req[q].step
      /\ req'[r].step = step
  BY DEF Stepped
<1>2. \A g \in Page : RequestsOf(g)' = RequestsOf(g)
  BY <1>1 DEF RequestsOf
<1>3. \A g \in Page : Builds(g)' = Builds(g)
  BY <1>1 DEF Builds, RequestsOf
<1> QED
  BY <1>1, <1>2, <1>3 DEF Pending, Saves

LEMMA Subsets ==
  ASSUME TypeOK
  PROVE  /\ Saves \subseteq Id /\ Pending \subseteq Id /\ Id \subseteq Nat
         /\ \A g \in Page : RequestsOf(g) \subseteq Id /\ Builds(g) \subseteq Id
BY Ids DEF Saves, Pending, RequestsOf, Builds

(***************************************************************************)
(* Requests that were alone.                                               *)
(***************************************************************************)
LEMMA SentLone ==
  ASSUME TypeOK, LoneAlone, NEW p \in Page, NEW kind \in Kind, NEW text, Sent(p, kind, text)
  PROVE  LoneAlone'
<1> SUFFICES ASSUME NEW n, n = Len(req) + 1 PROVE LoneAlone'
  OBVIOUS
<1>1. /\ n \in Nat /\ Id' = Id \union {n} /\ n \notin Id /\ \A q \in Id : q < n
      /\ \A q \in Id : req'[q].alone => req[q].alone /\ q \notin Pending
      /\ Pending' = Pending \union {n}
      /\ Id \subseteq Nat /\ Pending \subseteq Id
  BY Ids, SentSets, Subsets DEF Sent
<1>2. ASSUME NEW q \in Id, req'[q].alone PROVE Lone(q)'
  BY <1>1, <1>2 DEF LoneAlone, Lone
<1>3. CASE Pending = {}
  <2>1. Pending' = {n} /\ \A q \in Id' : q < n => q \in Id
    BY <1>1, <1>3
  <2>2. Lone(n)'
    BY <1>1, <2>1 DEF Lone
  <2> QED
    BY <1>1, <1>2, <2>2 DEF LoneAlone
<1>4. CASE Pending # {}
  <2>1. (Pending = {}) = FALSE
    BY <1>4
  <2>2. req'[n].alone = FALSE
    <3> DEFINE new(alone) == [page |-> p, kind |-> kind, text |-> text, step |-> "received",
                              alone |-> alone, answer |-> <<>>]
    <3>1. req'[n] = new(Pending = {})
      BY DEF Sent
    <3>2. req'[n] = new(FALSE)
      <4> HIDE DEF new
      <4> QED
        BY <2>1, <3>1
    <3> QED
      BY <3>2
  <2> QED
    BY <1>1, <1>2, <2>2 DEF LoneAlone
<1> QED
  BY <1>3, <1>4

LEMMA SteppedLone ==
  ASSUME LoneAlone, NEW r \in Pending, NEW step, NEW answer, Stepped(r, step, answer)
  PROVE  LoneAlone'
<1>1. /\ Id' = Id /\ Pending' \subseteq Pending /\ r \in Id
      /\ \A q \in Id : req'[q].alone = req[q].alone
  BY SteppedSets DEF Stepped, Pending
<1> QED
  BY <1>1 DEF LoneAlone, Lone

(***************************************************************************)
(* A server's step or the handling of an answer is of a request in         *)
(* progress.                                                               *)
(***************************************************************************)
LEMMA InProgress ==
  ASSUME NEW r \in Id,
         \/ Rebuild(r) \/ AnswerConfig(r) \/ ReadField(r) \/ OpenFile(r) \/ WriteFile(r)
         \/ OpenFails(r) \/ WriteFails(r) \/ Handle(r) \/ FetchFails(r) \/ Drop(r)
  PROVE  r \in Pending
BY DEF Rebuild, AnswerConfig, ReadField, OpenFile, WriteFile, OpenFails, WriteFails, Handle, FetchFails,
       Drop, At, Pending

-----------------------------------------------------------------------------
(***************************************************************************)
(* Pages are loaded first, and once.                                       *)
(***************************************************************************)
LEMMA OpenLoads ==
  ASSUME TypeOK, PagesLoad, NEW p \in Page, OpenPage(p)
  PROVE  PagesLoad'
<1> SUFFICES ASSUME NEW n, n = Len(req) + 1 PROVE PagesLoad'
  OBVIOUS
<1>1. Sent(p, "page", NoText) /\ ~Loaded(p) /\ RequestsOf(p) = {}
  BY PageSends DEF OpenPage, RequestsOf
<1>2. /\ doc' = doc /\ timer' = timer
      /\ \A g \in Page : Loaded(g)' <=> Loaded(g)
  BY DEF OpenPage, pageVars, Loaded
<1>3. /\ req'[n].kind = "page"
      /\ \A q \in Id : req'[q].kind = req[q].kind /\ req'[q].step = req[q].step
      /\ \A g \in Page : RequestsOf(g) \subseteq Id
      /\ \A g \in Page :
           /\ RequestsOf(g)' = IF g = p THEN RequestsOf(g) \union {n} ELSE RequestsOf(g)
           /\ Builds(g)' = IF g = p THEN Builds(g) \union {n} ELSE Builds(g)
  BY <1>1, SentSets, Subsets DEF Sent, Kind
<1> QED
  BY <1>1, <1>2, <1>3 DEF PagesLoad

LEMMA SendLoads ==
  ASSUME TypeOK, PagesLoad, NEW p \in Page, TimerFires(p) \/ ClickSave(p)
  PROVE  PagesLoad'
<1> SUFFICES ASSUME NEW n, n = Len(req) + 1 PROVE PagesLoad'
  OBVIOUS
<1>1. PICK kind \in {"config", "save"} : Sent(p, kind, doc[p])
  BY PageSends
<1>2. /\ Loaded(p) /\ doc' = doc
      /\ \A g \in Page : (Loaded(g)' <=> Loaded(g)) /\ (timer'[g] => timer[g])
  BY DEF TimerFires, ClickSave, pageVars, Loaded, PagesLoad, TypeOK
<1>3. /\ req'[n].kind # "page"
      /\ \A q \in Id : req'[q].kind = req[q].kind /\ req'[q].step = req[q].step
      /\ \A g \in Page : RequestsOf(g) \subseteq Id
      /\ \A g \in Page :
           /\ RequestsOf(g)' = IF g = p THEN RequestsOf(g) \union {n} ELSE RequestsOf(g)
           /\ Builds(g) \subseteq Builds(g)'
  BY <1>1, SentSets, Subsets DEF Sent, Kind
<1> QED
  BY <1>2, <1>3 DEF PagesLoad

LEMMA EditLoads ==
  ASSUME TypeOK, PagesLoad, NEW p \in Page, NEW t \in Text, Edit(p, t)
  PROVE  PagesLoad'
<1>1. /\ req' = req /\ Loaded(p) /\ t # NoText
      /\ \A g \in Page : (Loaded(g)' <=> Loaded(g)) /\ (g # p => timer'[g] = timer[g])
  BY TextAssumption DEF Edit, Loaded, TypeOK
<1>2. \A g \in Page : RequestsOf(g)' = RequestsOf(g) /\ Builds(g)' = Builds(g)
  BY <1>1 DEF RequestsOf, Builds, Id
<1> QED
  BY <1>1, <1>2 DEF PagesLoad

LEMMA ServerLoads ==
  ASSUME TypeOK, PagesLoad, NEW r \in Pending, NEW step, NEW answer, Stepped(r, step, answer),
         UNCHANGED <<doc, timer>>
  PROVE  PagesLoad'
<1>1. /\ \A g \in Page : (Loaded(g)' <=> Loaded(g)) /\ timer'[g] = timer[g]
      /\ \A g \in Page : RequestsOf(g)' = RequestsOf(g) /\ Builds(g)' = Builds(g)
      /\ \A g \in Page : RequestsOf(g) \subseteq Id
      /\ r \in Id /\ req[r].step # "handled"
  BY SteppedSets, Subsets DEF Loaded, Pending
<1>2. /\ \A q \in Id : req'[q].kind = req[q].kind
      /\ \A q \in Id \ {r} : req'[q].step = req[q].step
  BY <1>1 DEF Stepped
<1> QED
  BY <1>1, <1>2 DEF PagesLoad

LEMMA HandleLoads ==
  ASSUME TypeOK, AllFit, PagesLoad, NEW r \in Id, Handle(r)
  PROVE  PagesLoad'
<1>1. /\ Stepped(r, "handled", req[r].answer) /\ r \in Pending /\ req[r].page \in Page
      /\ req[r].step = "answered" /\ timer' = timer
  BY Ids, Serves, InProgress DEF Handle, Request
<1>2. CASE req[r].kind = "page"
  <2> SUFFICES ASSUME NEW p, p = req[r].page PROVE PagesLoad'
    OBVIOUS
  <2>1. doc' = [doc EXCEPT ![p] = req[r].answer.yaml]
    BY <1>2 DEF Handle
  <2>2. req[r].answer.yaml \in Text
    BY <1>1, <1>2 DEF AllFit, Fits, Field
  <2>3. r \in RequestsOf(p) /\ ~Loaded(p)
    BY <1>1, <1>2 DEF RequestsOf, PagesLoad
  <2>4. RequestsOf(p) \subseteq {r}
    BY <1>1, <2>3 DEF PagesLoad
  <2>5. r \in Builds(p)
    BY <1>2, <2>3 DEF Builds
  <2>6. p \in Page /\ Loaded(p)' /\ \A g \in Page \ {p} : Loaded(g)' <=> Loaded(g)
    BY <1>1, <2>1, <2>2, TextAssumption DEF Loaded, TypeOK
  <2>7. /\ \A g \in Page : RequestsOf(g)' = RequestsOf(g) /\ Builds(g)' = Builds(g)
        /\ \A g \in Page : RequestsOf(g) \subseteq Id
        /\ \A g \in Page \ {p} : r \notin RequestsOf(g)
        /\ req'[r].step = "handled"
        /\ \A q \in Id \ {r} : req'[q].step = req[q].step /\ req'[q].kind = req[q].kind
    BY <1>1, SteppedSets, Subsets DEF Stepped, RequestsOf
  <2>8. ASSUME NEW g \in Page \ {p}
        PROVE  /\ ~Loaded(g)' => /\ ~timer'[g]
                                 /\ \A q \in RequestsOf(g)' : req'[q].kind = "page" /\ RequestsOf(g)' \subseteq {q}
               /\ Loaded(g)' => /\ Builds(g)' # {}
                                /\ \A q \in RequestsOf(g)' : req'[q].kind = "page" => req'[q].step = "handled"
    BY <1>1, <2>6, <2>7 DEF PagesLoad
  <2>9. Builds(p)' # {} /\ \A q \in RequestsOf(p)' : req'[q].kind = "page" => req'[q].step = "handled"
    BY <2>4, <2>5, <2>6, <2>7
  <2> QED
    BY <2>6, <2>8, <2>9 DEF PagesLoad
<1>3. CASE req[r].kind # "page"
  <2>1. UNCHANGED <<doc, timer>>
    BY <1>1, <1>3 DEF Handle
  <2> QED
    BY <1>1, <2>1, ServerLoads
<1> QED
  BY <1>2, <1>3

(***************************************************************************)
(* The last save.                                                          *)
(***************************************************************************)
LEMMA SentKept ==
  ASSUME TypeOK, SavesKept, NEW p \in Page, NEW kind \in Kind, NEW text, Sent(p, kind, text),
         file' = file, lost' = lost
  PROVE  SavesKept'
<1> SUFFICES ASSUME NEW n, n = Len(req) + 1,
                    NEW s \in Id', IsLast(s, Saves)', req'[s].alone
             PROVE  SaveKept(s)'
  BY DEF SavesKept
<1>1. /\ n \in Nat /\ Id' = Id \union {n} /\ n \notin Id /\ \A q \in Id : q < n
      /\ req'[n].step = "received"
      /\ \A q \in Id : /\ req'[q].step = req[q].step /\ req'[q].text = req[q].text
                       /\ req'[q].answer = req[q].answer
                       /\ req'[q].alone => req[q].alone
      /\ Saves' = IF kind = "save" THEN Saves \union {n} ELSE Saves
      /\ Saves \subseteq Id /\ Id \subseteq Nat
  BY Ids, SentSets, Subsets DEF Sent
<1>2. CASE s = n
  BY <1>1, <1>2 DEF SaveKept, Received
<1>3. CASE s # n
  <2>1. s \in Id /\ IsLast(s, Saves) /\ req[s].alone
    BY <1>1, <1>3 DEF IsLast
  <2>2. SaveKept(s)
    BY <2>1 DEF SavesKept
  <2> QED
    BY <1>1, <2>1, <2>2 DEF SaveKept, Received, Content
<1> QED
  BY <1>2, <1>3

LEMMA OtherKept ==
  ASSUME SavesKept, NEW r \in Id, NEW step, NEW answer, Stepped(r, step, answer),
         file' = file, lost' = lost,
         \/ r \notin Saves
         \/ step = "handled" /\ answer = req[r].answer /\ (req[r].step = "answered" \/ r \in lost)
  PROVE  SavesKept'
<1> SUFFICES ASSUME NEW s \in Id', IsLast(s, Saves)', req'[s].alone
             PROVE  SaveKept(s)'
  BY DEF SavesKept
<1>1. /\ Id' = Id /\ Saves' = Saves
      /\ \A q \in Id : req'[q].alone = req[q].alone /\ req'[q].text = req[q].text
      /\ \A q \in Id \ {r} : req'[q] = req[q]
      /\ req'[r].step = step /\ req'[r].answer = answer
  BY SteppedSets DEF Stepped
<1>2. s \in Id /\ s \in Saves /\ SaveKept(s)
  BY <1>1 DEF SavesKept, IsLast
<1> QED
  BY <1>1, <1>2 DEF SaveKept, Received, Content

LEMMA SaveStepKept ==
  ASSUME TypeOK, AllFit, LoneAlone, SavesKept, NEW r \in Id,
         OpenFile(r) \/ WriteFile(r) \/ OpenFails(r) \/ WriteFails(r)
  PROVE  SavesKept'
<1> SUFFICES ASSUME NEW s \in Id', IsLast(s, Saves)', req'[s].alone
             PROVE  SaveKept(s)'
  BY DEF SavesKept
<1>1. PICK step, answer :
        /\ Stepped(r, step, answer)
        /\ \/ OpenFile(r) /\ step = "opened"
           \/ WriteFile(r) /\ step = "answered"
           \/ /\ OpenFails(r) \/ WriteFails(r)
              /\ step = "answered" /\ answer = [error |-> req[r].text] /\ req[r].text \in Text
  BY Serves
<1>2. Id' = Id /\ Saves' = Saves /\ \A q \in Id : req'[q].alone = req[q].alone
  BY <1>1, SteppedSets DEF Stepped
<1>3. r \in Saves /\ r \in Pending /\ lost' = lost
  BY InProgress DEF OpenFile, WriteFile, OpenFails, WriteFails, At, Saves, pageVars
<1>4. s \in Id /\ s \in Nat /\ r \in Nat /\ r <= s /\ Lone(s) /\ IsLast(s, Saves) /\ req[s].alone
  BY <1>2, <1>3, Subsets DEF IsLast, LoneAlone
<1>5. s = r
  BY <1>3, <1>4 DEF Lone
<1>6. req'[r].step = step /\ req'[r].answer = answer /\ req'[r].text = req[r].text
  BY <1>1 DEF Stepped
<1>7. CASE OpenFile(r) /\ step = "opened"
  <2>1. file' = <<>>
    BY <1>7 DEF OpenFile, EmptiedOnOpen
  <2> QED
    BY <1>5, <1>6, <1>7, <2>1 DEF SaveKept, Received
<1>8. CASE WriteFile(r) /\ step = "answered"
  <2>1. req[r].step = "opened" /\ file' = Overwritten(Content(req[r].text)) /\ req[r].text \in Text
    BY <1>8, Serves DEF WriteFile, At
  <2>2. file = <<>>
    BY <1>4, <1>5, <2>1 DEF SavesKept, SaveKept
  <2>3. Overwritten(Content(req[r].text)) = Content(req[r].text)
    <3> DEFINE c == Content(req[r].text)
    <3>1. c \in Seq(Text)
      BY <2>1, ContentText
    <3> HIDE DEF c
    <3>2. SubSeq(<<>>, Len(c) + 1, 0) = <<>>
      BY <3>1
    <3>3. Overwritten(c) = c
      BY <2>2, <3>1, <3>2 DEF Overwritten
    <3> QED
      BY <3>3 DEF c
  <2> QED
    BY <1>5, <1>6, <1>8, <2>1, <2>3 DEF SaveKept, Content, Received
<1>9. CASE /\ step = "answered" /\ answer = [error |-> req[r].text] /\ req[r].text \in Text
  <2>1. req'[r].answer.error # NoText
    BY <1>6, <1>9, TextAssumption
  <2> QED
    BY <1>5, <1>6, <1>9, <2>1 DEF SaveKept, Received
<1> QED
  BY <1>1, <1>7, <1>8, <1>9

-----------------------------------------------------------------------------
(***************************************************************************)
(* The last build of a page.  What a step leaves alone.                    *)
(***************************************************************************)
SameRequest(b) ==
  /\ req'[b].kind = req[b].kind /\ req'[b].text = req[b].text
  /\ req'[b].step = req[b].step /\ req'[b].answer = req[b].answer
  /\ req'[b].alone => req[b].alone

LEMMA StillShown ==
  ASSUME NEW p \in Page, NEW b \in Id, BuildShown(p, b), SameRequest(b),
         timer'[p] \/ (timer'[p] = timer[p] /\ doc'[p] = doc[p]),
         shown'[p] = shown[p], outputs'[p] = outputs[p], b \in lost' <=> b \in lost,
         msg'[p] = msg[p] \/ ~req'[b].alone \/ ~IsLast(b, RequestsOf(p))',
         IsLast(b, RequestsOf(p))' => IsLast(b, RequestsOf(p)),
         state' = state \/ ~req'[b].alone \/ req[b].step \in {"answered", "handled"}
  PROVE  BuildShown(p, b)'
<1>1. TextIs(p, b)'
  BY DEF BuildShown, TextIs, SameRequest
<1>2. ASSUME req'[b].alone, req'[b].kind = "config" PROVE ConfigShown(p, b)'
  <2>1. ConfigShown(p, b) /\ req[b].alone
    BY <1>2 DEF BuildShown, SameRequest
  <2>2. req'[b].step = "built" => Result(req'[b].text, state'.outputs, state'.error)
    BY <1>2, <2>1 DEF ConfigShown, SameRequest
  <2>3. (Received(b)' <=> Received(b)) /\ req'[b].step = req[b].step
    BY DEF Received, SameRequest
  <2>4. req'[b].step = "answered" \/ Received(b)' =>
          Result(req'[b].text, req'[b].answer.outputs, req'[b].answer.error)
    BY <2>1, <2>3 DEF ConfigShown, SameRequest
  <2>5. Received(b)' => /\ outputs'[p] = req'[b].answer.outputs
                        /\ req'[b].answer.error = NoText => shown'[p] = outputs'[p]
    BY <2>1, <2>3 DEF ConfigShown, SameRequest
  <2>6. IsLast(b, RequestsOf(p))' => msg'[p] = msg[p] /\ IsLast(b, RequestsOf(p)) /\ (timer'[p] \/ timer'[p] = timer[p])
    BY <1>2
  <2>7. /\ Received(b)' /\ ~timer'[p] /\ IsLast(b, RequestsOf(p))' => msg'[p] = req'[b].answer.error
        /\ b \in lost' /\ IsLast(b, RequestsOf(p))' => msg'[p] = NetworkError
    BY <2>1, <2>3, <2>6 DEF ConfigShown, SameRequest
  <2> QED
    BY <2>2, <2>4, <2>5, <2>7 DEF ConfigShown
<1>3. ASSUME req'[b].alone, req'[b].kind = "page" PROVE PageShown(p, b)'
  <2>1. PageShown(p, b) /\ req[b].alone
    BY <1>3 DEF BuildShown, SameRequest
  <2> QED
    BY <1>3, <2>1 DEF PageShown, SameRequest
<1> QED
  BY <1>1, <1>2, <1>3 DEF BuildShown

LEMMA SentShown ==
  ASSUME TypeOK, BuildsShown, NEW p \in Page, NEW kind \in Kind, NEW text, Sent(p, kind, text),
         UNCHANGED <<state, doc, outputs, shown, msg, lost>>,
         \A g \in Page \ {p} : timer'[g] = timer[g],
         timer'[p] = timer[p] \/ kind = "config",
         kind = "config" => text = doc[p]
  PROVE  BuildsShown'
<1> SUFFICES ASSUME NEW n, n = Len(req) + 1,
                    NEW g \in Page, NEW b \in Id', IsLast(b, Builds(g))'
             PROVE  BuildShown(g, b)'
  BY DEF BuildsShown
<1>1. /\ n \in Nat /\ Id' = Id \union {n} /\ n \notin Id /\ \A q \in Id : q < n
      /\ req'[n].step = "received" /\ req'[n].answer = <<>>
      /\ req'[n].kind = kind /\ req'[n].text = text
      /\ \A q \in Id : SameRequest(q)
      /\ \A h \in Page :
           /\ RequestsOf(h)' = IF h = p THEN RequestsOf(h) \union {n} ELSE RequestsOf(h)
           /\ Builds(h)' = IF h = p /\ kind # "save" THEN Builds(h) \union {n} ELSE Builds(h)
           /\ RequestsOf(h) \subseteq Id /\ Builds(h) \subseteq Id
      /\ Id \subseteq Nat
  BY Ids, SentSets, Subsets DEF Sent, SameRequest
<1>2. CASE b = n
  <2>1. g = p /\ kind # "save"
    BY <1>1, <1>2 DEF IsLast
  <2>2. TextIs(g, b)'
    BY <1>1, <1>2, <2>1 DEF TextIs
  <2>3. ConfigShown(g, b)'
    BY <1>1, <1>2 DEF ConfigShown, Received, TypeOK
  <2>4. PageShown(g, b)'
    BY <1>1, <1>2 DEF PageShown
  <2> QED
    BY <2>2, <2>3, <2>4 DEF BuildShown
<1>3. CASE b # n
  <2>5. b \in Id /\ b \in Nat /\ b < n /\ b \in Builds(g)' /\ \A q \in Builds(g)' : q <= b
    BY <1>1, <1>3 DEF IsLast
  <2>6. n \notin Builds(g)'
    BY <1>1, <2>5
  <2>1. b \in Id /\ IsLast(b, Builds(g)) /\ ~(g = p /\ kind # "save")
    BY <1>1, <2>5, <2>6 DEF IsLast
  <2>2. BuildShown(g, b)
    BY <2>1 DEF BuildsShown
  <2>3. timer'[g] = timer[g]
    BY <2>1
  <2>4. IsLast(b, RequestsOf(g))' => IsLast(b, RequestsOf(g))
    BY <1>1, <2>1 DEF IsLast
  <2> QED
    BY <1>1, <2>1, <2>2, <2>3, <2>4, StillShown
<1> QED
  BY <1>2, <1>3

LEMMA EditShown ==
  ASSUME TypeOK, BuildsShown, NEW p \in Page, NEW t \in Text, Edit(p, t)
  PROVE  BuildsShown'
<1> SUFFICES ASSUME NEW g \in Page, NEW b \in Id', IsLast(b, Builds(g))'
             PROVE  BuildShown(g, b)'
  BY DEF BuildsShown
<1>1. /\ req' = req /\ Id' = Id /\ state' = state
      /\ UNCHANGED <<outputs, shown, msg, lost>>
      /\ timer'[g] \/ (timer'[g] = timer[g] /\ doc'[g] = doc[g])
  BY DEF Edit, TypeOK, Id
<1>2. RequestsOf(g)' = RequestsOf(g) /\ Builds(g)' = Builds(g)
  BY <1>1 DEF RequestsOf, Builds
<1>3. b \in Id /\ BuildShown(g, b) /\ SameRequest(b)
  BY <1>1, <1>2 DEF BuildsShown, SameRequest, IsLast
<1>4. IsLast(b, RequestsOf(g))' => IsLast(b, RequestsOf(g))
  BY <1>2 DEF IsLast
<1> QED
  BY <1>1, <1>3, <1>4, StillShown

LEMMA TabShown ==
  ASSUME TypeOK, BuildsShown, NEW p \in Page, ClickTab(p)
  PROVE  BuildsShown'
<1> SUFFICES ASSUME NEW g \in Page, NEW b \in Id', IsLast(b, Builds(g))'
             PROVE  BuildShown(g, b)'
  BY DEF BuildsShown
<1>1. /\ req' = req /\ Id' = Id /\ UNCHANGED <<state, doc, timer, outputs, msg, lost>>
      /\ shown'[g] = shown[g] \/ shown'[g] = outputs[g]
  BY DEF ClickTab, TypeOK, Id
<1>2. RequestsOf(g)' = RequestsOf(g) /\ Builds(g)' = Builds(g)
  BY <1>1 DEF RequestsOf, Builds
<1>3. b \in Id /\ BuildShown(g, b)
  BY <1>1, <1>2 DEF BuildsShown, IsLast
<1>4. TextIs(g, b)'
  BY <1>1, <1>3 DEF BuildShown, TextIs
<1>5. ConfigShown(g, b) => ConfigShown(g, b)'
  BY <1>1, <1>2 DEF ConfigShown, Received, IsLast, Result
<1>6. PageShown(g, b) => PageShown(g, b)'
  BY <1>1 DEF PageShown
<1> QED
  BY <1>1, <1>3, <1>4, <1>5, <1>6 DEF BuildShown

(***************************************************************************)
(* Steps of the server.  If the build was alone they are its own.          *)
(***************************************************************************)
LEMMA ServerShown ==
  ASSUME TypeOK, LoneAlone, BuildsShown, NEW r \in Pending, NEW step, NEW answer,
         Stepped(r, step, answer), UNCHANGED pageVars,
         state' = state \/ req[r].step = "received",
         \A g \in Page : IsLast(r, Builds(g)) /\ BuildShown(g, r) => BuildShown(g, r)'
  PROVE  BuildsShown'
<1> SUFFICES ASSUME NEW g \in Page, NEW b \in Id', IsLast(b, Builds(g))'
             PROVE  BuildShown(g, b)'
  BY DEF BuildsShown
<1>1. /\ Id' = Id /\ r \in Id
      /\ RequestsOf(g)' = RequestsOf(g) /\ Builds(g)' = Builds(g)
      /\ \A q \in Id \ {r} : req'[q] = req[q]
  BY SteppedSets DEF Stepped, Pending
<1>2. b \in Id /\ IsLast(b, Builds(g)) /\ BuildShown(g, b)
  BY <1>1 DEF BuildsShown, IsLast
<1>3. CASE b = r
  BY <1>2, <1>3
<1>4. CASE b # r
  <2>1. SameRequest(b)
    BY <1>1, <1>2, <1>4 DEF SameRequest
  <2>2. req'[b].alone => req[b].step \in {"answered", "handled"}
    <3>1. req'[b].alone => Lone(b)
      BY <1>1, <1>2, <1>4 DEF LoneAlone
    <3>2. Lone(b) => b \notin Pending
      BY <1>4 DEF Lone
    <3> QED
      BY <1>2, <3>1, <3>2 DEF Pending
  <2>3. IsLast(b, RequestsOf(g))' => IsLast(b, RequestsOf(g))
    BY <1>1 DEF IsLast
  <2> QED
    BY <1>2, <2>1, <2>2, <2>3, StillShown DEF pageVars
<1> QED
  BY <1>3, <1>4

LEMMA RebuildShown ==
  ASSUME TypeOK, AllFit, LoneAlone, BuildsShown, NEW r \in Id, Rebuild(r)
  PROVE  BuildsShown'
<1>1. /\ Stepped(r, "built", req[r].answer) /\ req[r].text \in Text /\ r \in Pending
      /\ req[r].step = "received" /\ req[r].kind = "config"
      /\ state' = Rebuilt(req[r].text) /\ UNCHANGED pageVars
  BY Serves, InProgress DEF Rebuild, At
<1>2. Result(req[r].text, state'.outputs, state'.error)
  BY <1>1, TextAssumption DEF Result, Rebuilt, TypeOK, Text
<1>3. \A g \in Page : RequestsOf(g)' = RequestsOf(g) /\ (IsLast(r, RequestsOf(g))' <=> IsLast(r, RequestsOf(g)))
  BY <1>1, SteppedSets DEF IsLast
<1>4. ASSUME NEW g \in Page, BuildShown(g, r) PROVE BuildShown(g, r)'
  <2>1. /\ req'[r].step = "built" /\ req'[r].kind = "config" /\ req'[r].text = req[r].text
        /\ req'[r].alone = req[r].alone
    BY <1>1 DEF Stepped
  <2>2. TextIs(g, r)'
    BY <1>1, <1>4, <2>1 DEF BuildShown, TextIs, pageVars
  <2>3. req[r].alone => ConfigShown(g, r)'
    BY <1>1, <1>2, <1>3, <1>4, <2>1 DEF BuildShown, ConfigShown, Received, pageVars
  <2> QED
    BY <2>1, <2>2, <2>3 DEF BuildShown
<1> QED
  BY <1>1, <1>4, ServerShown

LEMMA AnswerShown ==
  ASSUME TypeOK, AllFit, LoneAlone, BuildsShown, NEW r \in Id, AnswerConfig(r)
  PROVE  BuildsShown'
<1>1. /\ Stepped(r, "answered", [outputs |-> state.outputs, error |-> state.error]) /\ r \in Pending
      /\ req[r].step = "built" /\ req[r].kind = "config"
      /\ state' = state /\ UNCHANGED pageVars
  BY Serves, InProgress DEF AnswerConfig, At
<1>2. \A g \in Page : RequestsOf(g)' = RequestsOf(g) /\ (IsLast(r, RequestsOf(g))' <=> IsLast(r, RequestsOf(g)))
  BY <1>1, SteppedSets DEF IsLast
<1>3. ASSUME NEW g \in Page, BuildShown(g, r) PROVE BuildShown(g, r)'
  <2>1. /\ req'[r].step = "answered" /\ req'[r].kind = "config" /\ req'[r].text = req[r].text
        /\ req'[r].alone = req[r].alone
        /\ req'[r].answer.outputs = state.outputs /\ req'[r].answer.error = state.error
    BY <1>1 DEF Stepped
  <2>2. TextIs(g, r)'
    BY <1>1, <1>3, <2>1 DEF BuildShown, TextIs, pageVars
  <2>3. req[r].alone => Result(req[r].text, state.outputs, state.error)
    BY <1>1, <1>3 DEF BuildShown, ConfigShown
  <2>4. req[r].alone => ConfigShown(g, r)'
    BY <1>1, <1>2, <1>3, <2>1, <2>3 DEF BuildShown, ConfigShown, Received, pageVars
  <2> QED
    BY <2>1, <2>2, <2>4 DEF BuildShown
<1> QED
  BY <1>1, <1>3, ServerShown

LEMMA ReadShown ==
  ASSUME TypeOK, AllFit, LoneAlone, OutputsMatch, BuildsShown, NEW r \in Id, ReadField(r)
  PROVE  BuildsShown'
<1>1. /\ r \in Pending /\ req[r].step = "received" /\ req[r].kind = "page"
      /\ state' = state /\ UNCHANGED pageVars
  BY InProgress DEF ReadField, At
<1>2. PICK n \in 0..3 : ReadStep(r, n)
  BY Reads
<1>3. /\ FieldsRead(n + 1) = FieldsRead(n) \union {PageFields[n + 1]} /\ FieldsRead(4) = Field
      /\ DOMAIN req[r].answer = FieldsRead(n)
  BY <1>2, Reading DEF ReadStep
<1>4. ASSUME NEW g \in Page, BuildShown(g, r) PROVE BuildShown(g, r)'
  <2>1. /\ req'[r].kind = "page" /\ req'[r].alone = req[r].alone
        /\ req'[r].step = IF n < 3 THEN "received" ELSE "answered"
        /\ DOMAIN req'[r].answer = FieldsRead(n + 1)
        /\ \A f \in FieldsRead(n + 1) :
             req'[r].answer[f] = IF f = PageFields[n + 1] THEN state[f] ELSE req[r].answer[f]
    BY <1>1, <1>2 DEF ReadStep, Stepped
  <2>2. TextIs(g, r)'
    BY <2>1 DEF TextIs
  <2>3. ASSUME req[r].alone PROVE PageShown(g, r)'
    <3>1. \A f \in DOMAIN req[r].answer : req[r].answer[f] = state[f]
      BY <1>1, <1>4, <2>3 DEF BuildShown, PageShown
    <3>2. \A f \in DOMAIN req'[r].answer : req'[r].answer[f] = state[f]
      BY <1>3, <2>1, <3>1
    <3>3. CASE n < 3
      BY <1>1, <2>1, <3>2, <3>3 DEF PageShown
    <3>4. CASE n = 3
      <4>1. DOMAIN req'[r].answer = Field
        BY <1>3, <2>1, <3>4
      <4>2. req'[r].answer.yaml = state.yaml /\ req'[r].answer.outputs = state.outputs
        BY <3>2, <4>1 DEF Field
      <4> QED
        BY <2>1, <3>4, <4>2 DEF PageShown, OutputsMatch
    <3> QED
      BY <3>3, <3>4
  <2> QED
    BY <2>1, <2>2, <2>3 DEF BuildShown
<1>5. \E step, answer : Stepped(r, step, answer)
  BY <1>2 DEF ReadStep
<1> QED
  BY <1>1, <1>4, <1>5, ServerShown

LEMMA SaveShown ==
  ASSUME TypeOK, AllFit, LoneAlone, BuildsShown, NEW r \in Id,
         OpenFile(r) \/ WriteFile(r) \/ OpenFails(r) \/ WriteFails(r)
  PROVE  BuildsShown'
<1>1. r \in Pending /\ req[r].kind = "save" /\ state' = state /\ UNCHANGED pageVars
  BY InProgress DEF OpenFile, WriteFile, OpenFails, WriteFails, At
<1>2. \E step, answer : Stepped(r, step, answer)
  BY Serves
<1>3. \A g \in Page : ~IsLast(r, Builds(g))
  BY <1>1 DEF IsLast, Builds
<1> QED
  BY <1>1, <1>2, <1>3, ServerShown

(***************************************************************************)
(* The page handles an answer.                                             *)
(***************************************************************************)
LEMMA HandleShown ==
  ASSUME TypeOK, AllFit, LoneAlone, PagesLoad, BuildsShown, NEW r \in Id, Handle(r)
  PROVE  BuildsShown'
<1> SUFFICES ASSUME NEW p, p = req[r].page,
                    NEW g \in Page, NEW b \in Id', IsLast(b, Builds(g))'
             PROVE  BuildShown(g, b)'
  BY DEF BuildsShown
<1>1. /\ Stepped(r, "handled", req[r].answer) /\ r \in Pending /\ p \in Page
      /\ req[r].step = "answered" /\ r \notin lost
      /\ state' = state /\ timer' = timer /\ lost' = lost
      /\ req[r].kind \in Kind /\ Fits(req[r])
  BY Ids, Serves, InProgress DEF Handle, Request, Kind, AllFit
<1>2. /\ Id' = Id /\ Id \subseteq Nat
      /\ RequestsOf(g)' = RequestsOf(g) /\ Builds(g)' = Builds(g)
      /\ RequestsOf(g) \subseteq Id /\ Builds(g) \subseteq RequestsOf(g)
      /\ \A q \in Id \ {r} : req'[q] = req[q]
      /\ r \in RequestsOf(p) /\ (g # p => r \notin RequestsOf(g))
      /\ req'[r].kind = req[r].kind /\ req'[r].text = req[r].text /\ req'[r].alone = req[r].alone
      /\ req'[r].step = "handled" /\ req'[r].answer = req[r].answer
  <2>1. \A q \in Id \ {r} : req'[q] = req[q]
    BY <1>1 DEF Stepped
  <2>2. /\ req'[r].kind = req[r].kind /\ req'[r].text = req[r].text /\ req'[r].alone = req[r].alone
        /\ req'[r].step = "handled" /\ req'[r].answer = req[r].answer
    BY <1>1 DEF Stepped
  <2> QED
    BY <1>1, <2>1, <2>2, SteppedSets, Subsets DEF Stepped, RequestsOf, Builds
<1>3. b \in Id /\ b \in Builds(g) /\ IsLast(b, Builds(g)) /\ BuildShown(g, b)
  BY <1>2 DEF BuildsShown, IsLast
<1>4. IsLast(b, RequestsOf(g))' => IsLast(b, RequestsOf(g))
  BY <1>2 DEF IsLast
<1>5. CASE g # p
  <2>1. b # r /\ SameRequest(b)
    BY <1>2, <1>3, <1>5 DEF SameRequest
  <2>2. doc'[g] = doc[g] /\ outputs'[g] = outputs[g] /\ shown'[g] = shown[g] /\ msg'[g] = msg[g]
    BY <1>5 DEF Handle, TypeOK
  <2> QED
    BY <1>1, <1>3, <1>4, <2>1, <2>2, StillShown
<1>6. CASE g = p /\ b # r
  <2>1. SameRequest(b) /\ req'[b].alone = req[b].alone
    BY <1>2, <1>3, <1>6 DEF SameRequest
  <2>2. req[r].kind # "page"
    <3>1. req[r].kind = "page" => RequestsOf(p) \subseteq {r}
      BY <1>1, <1>2 DEF PagesLoad
    <3> QED
      BY <1>2, <1>3, <1>6, <3>1
  <2>3. doc' = doc
    BY <2>2 DEF Handle
  <2>4. ASSUME r < b PROVE ~req[b].alone
    <3>1. req[b].alone => Lone(b)
      BY <1>3 DEF LoneAlone
    <3>2. Lone(b) => r \notin Pending
      BY <2>4 DEF Lone
    <3> QED
      BY <1>1, <3>1, <3>2
  <2>5. CASE req[r].kind = "config"
    <3>1. r \in Builds(g)
      BY <1>2, <1>6, <2>5 DEF Builds
    <3>2. r < b
      BY <1>2, <1>3, <1>6, <3>1 DEF IsLast
    <3>3. ~req[b].alone
      BY <3>2, <2>4
    <3>4. TextIs(g, b)'
      BY <1>1, <1>3, <2>1, <2>3 DEF BuildShown, TextIs, SameRequest
    <3> QED
      BY <2>1, <3>3, <3>4 DEF BuildShown
  <2>6. CASE req[r].kind = "save"
    <3>1. shown' = shown /\ outputs' = outputs
      BY <2>6 DEF Handle
    <3>2. ~req'[b].alone \/ ~IsLast(b, RequestsOf(g))'
      <4>1. IsLast(b, RequestsOf(g)) => r < b
        BY <1>2, <1>3, <1>6 DEF IsLast
      <4> QED
        BY <1>4, <2>1, <2>4, <4>1
    <3> QED
      BY <1>1, <1>3, <1>4, <2>1, <2>3, <3>1, <3>2, StillShown
  <2> QED
    BY <1>1, <2>2, <2>5, <2>6 DEF Kind
<1>7. CASE g = p /\ b = r
  <2>1. req[r].kind # "save"
    BY <1>3, <1>7 DEF Builds
  <2>2. CASE req[r].kind = "config"
    <3>1. /\ doc' = doc /\ outputs'[p] = req[r].answer.outputs
          /\ req[r].answer.error = NoText => shown'[p] = req[r].answer.outputs
          /\ ~timer'[p] => msg'[p] = req[r].answer.error
      BY <1>1, <2>2 DEF Handle, TypeOK
    <3>2. TextIs(g, b)'
      BY <1>1, <1>2, <1>3, <1>7, <2>2, <3>1 DEF BuildShown, TextIs
    <3>3. req[b].alone => ConfigShown(g, b)'
      BY <1>1, <1>2, <1>3, <1>7, <2>2, <3>1 DEF BuildShown, ConfigShown, Received
    <3> QED
      BY <1>2, <1>7, <2>2, <3>2, <3>3 DEF BuildShown
  <2>3. CASE req[r].kind = "page"
    <3>1. /\ doc'[p] = req[r].answer.yaml
          /\ outputs'[p] = req[r].answer.outputs /\ shown'[p] = req[r].answer.outputs
      BY <1>1, <2>3 DEF Handle, TypeOK
    <3>2. TextIs(g, b)'
      BY <1>2, <1>7, <2>3, <3>1 DEF TextIs
    <3>3. req[b].alone => PageShown(g, b)'
      BY <1>1, <1>2, <1>3, <1>7, <2>3, <3>1 DEF BuildShown, PageShown
    <3> QED
      BY <1>2, <1>7, <2>3, <3>2, <3>3 DEF BuildShown
  <2> QED
    BY <1>1, <2>1, <2>2, <2>3 DEF Kind
<1> QED
  BY <1>5, <1>6, <1>7

(***************************************************************************)
(* A fetch fails: if the build was alone and is the last request of its    *)
(* page, the message is its own.                                           *)
(***************************************************************************)
LEMMA FetchShown ==
  ASSUME TypeOK, AllFit, LoneAlone, BuildsShown, NEW r \in Id, FetchFails(r)
  PROVE  BuildsShown'
<1> SUFFICES ASSUME NEW p, p = req[r].page,
                    NEW g \in Page, NEW b \in Id', IsLast(b, Builds(g))'
             PROVE  BuildShown(g, b)'
  BY DEF BuildsShown
<1>1. /\ req' = req /\ Id' = Id /\ UNCHANGED <<state, doc, timer, outputs, shown>>
      /\ lost' = lost \union {r} /\ msg' = [msg EXCEPT ![p] = NetworkError]
      /\ r \in Pending /\ req[r].step # "handled" /\ req[r].kind # "page"
      /\ p \in Page /\ Id \subseteq Nat
  BY Ids, Subsets, InProgress DEF FetchFails, Request, Id
<1>2. /\ RequestsOf(g)' = RequestsOf(g) /\ Builds(g)' = Builds(g)
      /\ IsLast(b, RequestsOf(g))' => IsLast(b, RequestsOf(g))
  BY <1>1 DEF RequestsOf, Builds, IsLast
<1>3. b \in Id /\ b \in Builds(g) /\ BuildShown(g, b) /\ SameRequest(b)
  BY <1>1, <1>2 DEF BuildsShown, IsLast, SameRequest
<1>4. CASE b = r
  <2>1. g = p /\ msg'[g] = NetworkError
    BY <1>1, <1>3, <1>4 DEF Builds, RequestsOf, TypeOK
  <2>2. TextIs(g, b)'
    BY <1>1, <1>3 DEF BuildShown, TextIs
  <2>3. req[b].alone /\ req[b].kind = "config" => ConfigShown(g, b)'
    BY <1>1, <1>3, <1>4, <2>1 DEF BuildShown, ConfigShown, Received, Result
  <2> QED
    BY <1>1, <1>4, <2>2, <2>3 DEF BuildShown
<1>5. CASE b # r
  <2>1. b \in lost' <=> b \in lost
    BY <1>1, <1>5
  <2>2. msg'[g] = msg[g] \/ ~req'[b].alone \/ ~IsLast(b, RequestsOf(g))'
    <3>1. SUFFICES ASSUME g = p, req[b].alone, IsLast(b, RequestsOf(g)) PROVE FALSE
      BY <1>1, <1>2 DEF TypeOK
    <3>2. r \in RequestsOf(g)
      BY <3>1 DEF RequestsOf
    <3>3. r < b
      BY <1>1, <1>3, <1>5, <3>1, <3>2 DEF IsLast
    <3>4. Lone(b)
      BY <1>3, <3>1 DEF LoneAlone
    <3> QED
      BY <1>1, <3>3, <3>4 DEF Lone
  <2> QED
    BY <1>1, <1>2, <1>3, <2>1, <2>2, StillShown
<1> QED
  BY <1>4, <1>5

LEMMA DropShown ==
  ASSUME TypeOK, AllFit, LoneAlone, BuildsShown, NEW r \in Id, Drop(r)
  PROVE  BuildsShown'
<1>1. /\ Stepped(r, "handled", req[r].answer) /\ r \in Pending /\ r \in lost /\ req[r].kind # "page"
      /\ state' = state /\ UNCHANGED pageVars
  BY Serves, InProgress DEF Drop, AllFit
<1>2. \A g \in Page : RequestsOf(g)' = RequestsOf(g) /\ (IsLast(r, RequestsOf(g))' <=> IsLast(r, RequestsOf(g)))
  BY <1>1, SteppedSets DEF IsLast
<1>3. ASSUME NEW g \in Page, BuildShown(g, r) PROVE BuildShown(g, r)'
  <2>1. /\ req'[r].step = "handled" /\ req'[r].kind = req[r].kind /\ req'[r].text = req[r].text
        /\ req'[r].alone = req[r].alone /\ lost' = lost
    BY <1>1 DEF Stepped, pageVars
  <2>2. TextIs(g, r)'
    BY <1>1, <1>3, <2>1 DEF BuildShown, TextIs, pageVars
  <2>3. req[r].alone /\ req[r].kind = "config" => ConfigShown(g, r)'
    BY <1>1, <1>2, <1>3, <2>1 DEF BuildShown, ConfigShown, Received, pageVars
  <2> QED
    BY <1>1, <2>1, <2>2, <2>3 DEF BuildShown
<1> QED
  BY <1>1, <1>3, ServerShown

-----------------------------------------------------------------------------
LEMMA ServeInit == Init => ServeInv
<1> SUFFICES ASSUME Init PROVE ServeInv
  OBVIOUS
<1>1. PICK t \in Initial :
        /\ state = IF t \in Good
                   THEN [outputs |-> t, schemaInfo |-> t, yaml |-> t, error |-> NoText]
                   ELSE [outputs |-> NoText, schemaInfo |-> NoText, yaml |-> t, error |-> t]
        /\ file = Content(t)
  BY DEF Init
<1>2. t \in Text /\ t \in Outcome /\ NoText \in Outcome
  BY TextAssumption DEF Outcome
<1>3. Id = {} /\ req \in Seq(Request)
  BY DEF Init, Id
<1>4. TypeOK
  BY <1>1, <1>2, <1>3, ContentText DEF Init, TypeOK
<1>5. Saves = {} /\ \A p \in Page : RequestsOf(p) = {} /\ Builds(p) = {}
  BY <1>3 DEF Saves, RequestsOf, Builds
<1>6. PagesLoad
  BY <1>5 DEF Init, PagesLoad, Loaded
<1>7. OutputsMatch
  BY <1>1, <1>2 DEF OutputsMatch
<1> QED
  BY <1>3, <1>4, <1>5, <1>6, <1>7
  DEF ServeInv, AllFit, LoneAlone, SavesKept, BuildsShown

(***************************************************************************)
(* Steps that leave the requests as they are.                              *)
(***************************************************************************)
LEMMA SameRequests ==
  ASSUME req' = req, file' = file, lost \subseteq lost', LoneAlone, SavesKept
  PROVE  LoneAlone' /\ SavesKept' /\ (PagesLoad /\ UNCHANGED <<doc, timer>> => PagesLoad')
<1>1. Id' = Id /\ Pending' = Pending /\ Saves' = Saves
  BY DEF Id, Pending, Saves
<1>2. /\ \A p \in Page : RequestsOf(p)' = RequestsOf(p) /\ Builds(p)' = Builds(p)
      /\ doc' = doc => \A p \in Page : Loaded(p)' <=> Loaded(p)
  BY <1>1 DEF RequestsOf, Builds, Loaded
<1>3. LoneAlone'
  BY <1>1 DEF LoneAlone, Lone
<1>4. SavesKept'
  BY <1>1 DEF SavesKept, SaveKept, Received, IsLast, Content
<1>5. PagesLoad /\ UNCHANGED <<doc, timer>> => PagesLoad'
  BY <1>1, <1>2 DEF PagesLoad
<1> QED
  BY <1>3, <1>4, <1>5

LEMMA PageStep ==
  ASSUME ServeInv, NEW p \in Page,
         OpenPage(p) \/ TimerFires(p) \/ ClickSave(p) \/ ClickTab(p) \/ \E t \in Text : Edit(p, t)
  PROVE  ServeInv'
<1> USE DEF ServeInv
<1>1. TypeOK' /\ AllFit'
  BY PageTyped
<1>2. OutputsMatch'
  BY DEF OpenPage, TimerFires, ClickSave, ClickTab, Edit, OutputsMatch
<1>3. CASE OpenPage(p)
  <2>1. Sent(p, "page", NoText) /\ "page" \in Kind
    BY <1>3, PageSends DEF Kind
  <2>2. UNCHANGED <<state, file, doc, timer, outputs, shown, msg, lost>>
    BY <1>3 DEF OpenPage, pageVars
  <2> QED
    BY <1>1, <1>2, <1>3, <2>1, <2>2, SentLone, OpenLoads, SentKept, SentShown
<1>4. CASE TimerFires(p)
  <2>1. Sent(p, "config", doc[p]) /\ "config" \in Kind
    BY <1>4, PageSends DEF Kind
  <2>2. UNCHANGED <<state, file, doc, outputs, shown, msg, lost>> /\ \A g \in Page \ {p} : timer'[g] = timer[g]
    BY <1>4 DEF TimerFires, TypeOK
  <2> QED
    BY <1>1, <1>2, <1>4, <2>1, <2>2, SentLone, SendLoads, SentKept, SentShown
<1>5. CASE ClickSave(p)
  <2>1. Sent(p, "save", doc[p]) /\ "save" \in Kind
    BY <1>5, PageSends DEF Kind
  <2>2. UNCHANGED <<state, file, doc, timer, outputs, shown, msg, lost>>
    BY <1>5 DEF ClickSave, pageVars
  <2> QED
    BY <1>1, <1>2, <1>5, <2>1, <2>2, SentLone, SendLoads, SentKept, SentShown
<1>6. CASE \E t \in Text : Edit(p, t)
  <2>1. req' = req /\ file' = file /\ lost' = lost
    BY <1>6 DEF Edit
  <2>2. LoneAlone' /\ SavesKept'
    BY <2>1, SameRequests
  <2> QED
    BY <1>1, <1>2, <1>6, <2>2, EditLoads, EditShown
<1>7. CASE ClickTab(p)
  <2>1. req' = req /\ file' = file /\ lost' = lost /\ UNCHANGED <<doc, timer>>
    BY <1>7 DEF ClickTab
  <2>2. LoneAlone' /\ SavesKept' /\ PagesLoad'
    BY <2>1, SameRequests
  <2> QED
    BY <1>1, <1>2, <1>7, <2>2, TabShown
<1> QED
  BY <1>3, <1>4, <1>5, <1>6, <1>7

LEMMA RequestStep ==
  ASSUME ServeInv, NEW r \in Id,
         \/ Rebuild(r) \/ AnswerConfig(r) \/ ReadField(r)
         \/ OpenFile(r) \/ WriteFile(r) \/ OpenFails(r) \/ WriteFails(r)
         \/ Handle(r) \/ Drop(r)
  PROVE  ServeInv'
<1> USE DEF ServeInv
<1>1. TypeOK' /\ AllFit'
  BY ServerTyped, HandleTyped, FetchTyped
<1>2. OutputsMatch'
  <2>1. CASE Rebuild(r)
    <3>1. state' = Rebuilt(req[r].text) /\ req[r].text \in Text
      BY <2>1, Serves DEF Rebuild
    <3>2. state' = [state EXCEPT !.error = req[r].text] => OutputsMatch'
      BY DEF OutputsMatch, TypeOK
    <3> QED
      BY <3>1, <3>2 DEF Rebuilt, OutputsMatch
  <2>2. CASE ~Rebuild(r)
    <3>1. state' = state
      BY <2>2 DEF AnswerConfig, ReadField, OpenFile, WriteFile, OpenFails, WriteFails, Handle, Drop
    <3> QED
      BY <3>1 DEF OutputsMatch
  <2> QED
    BY <2>1, <2>2
<1>3. PICK step, answer : Stepped(r, step, answer)
  BY Serves, Reads DEF ReadStep
<1>4. r \in Pending
  BY InProgress
<1>5. LoneAlone'
  BY <1>3, <1>4, SteppedLone
<1>6. PagesLoad'
  <2>1. CASE Handle(r)
    BY <2>1, HandleLoads
  <2>2. CASE ~Handle(r)
    <3>1. UNCHANGED <<doc, timer>>
      BY <2>2 DEF Rebuild, AnswerConfig, ReadField, OpenFile, WriteFile, OpenFails, WriteFails, Drop, pageVars
    <3> QED
      BY <1>3, <1>4, <3>1, ServerLoads
  <2> QED
    BY <2>1, <2>2
<1>7. SavesKept'
  <2>1. CASE Handle(r)
    <3>1. Stepped(r, "handled", req[r].answer) /\ req[r].step = "answered" /\ file' = file /\ lost' = lost
      BY <2>1, Serves DEF Handle
    <3> QED
      BY <3>1, OtherKept
  <2>2. CASE OpenFile(r) \/ WriteFile(r) \/ OpenFails(r) \/ WriteFails(r)
    BY <2>2, SaveStepKept
  <2>3. CASE Rebuild(r) \/ AnswerConfig(r) \/ ReadField(r)
    <3>1. r \notin Saves /\ file' = file /\ lost' = lost
      BY <2>3 DEF Rebuild, AnswerConfig, ReadField, At, Saves, pageVars
    <3> QED
      BY <1>3, <3>1, OtherKept
  <2>4. CASE Drop(r)
    <3>1. Stepped(r, "handled", req[r].answer) /\ r \in lost /\ file' = file /\ lost' = lost
      BY <2>4, Serves DEF Drop, pageVars
    <3> QED
      BY <3>1, OtherKept
  <2> QED
    BY <2>1, <2>2, <2>3, <2>4
<1>8. BuildsShown'
  BY RebuildShown, AnswerShown, ReadShown, SaveShown, HandleShown, DropShown
<1> QED
  BY <1>1, <1>2, <1>5, <1>6, <1>7, <1>8

LEMMA FetchStep ==
  ASSUME ServeInv, NEW r \in Id, FetchFails(r)
  PROVE  ServeInv'
<1> USE DEF ServeInv
<1>1. TypeOK' /\ AllFit'
  BY FetchTyped
<1>2. /\ req' = req /\ file' = file /\ lost \subseteq lost'
      /\ UNCHANGED <<state, doc, timer>>
  BY DEF FetchFails
<1>3. LoneAlone' /\ SavesKept' /\ PagesLoad'
  BY <1>2, SameRequests
<1> QED
  BY <1>1, <1>2, <1>3, FetchShown DEF OutputsMatch

LEMMA ServeUnchanged == ServeInv /\ UNCHANGED vars => ServeInv'
<1> SUFFICES ASSUME ServeInv, UNCHANGED vars PROVE ServeInv'
  OBVIOUS
<1>1. UNCHANGED <<state, file, req, doc, timer, outputs, shown, msg, lost>> /\ Id' = Id
  BY DEF vars, pageVars, Id
<1>2. TypeOK' /\ AllFit' /\ OutputsMatch'
  BY <1>1 DEF ServeInv, TypeOK, AllFit, OutputsMatch
<1>3. LoneAlone' /\ SavesKept' /\ PagesLoad'
  BY <1>1, SameRequests DEF ServeInv
<1>4. BuildsShown'
  <2> SUFFICES ASSUME NEW p \in Page, NEW b \in Id', IsLast(b, Builds(p))'
               PROVE  BuildShown(p, b)'
    BY DEF BuildsShown
  <2>1. RequestsOf(p)' = RequestsOf(p) /\ Builds(p)' = Builds(p)
    BY <1>1 DEF RequestsOf, Builds
  <2>2. b \in Id /\ BuildShown(p, b) /\ SameRequest(b) /\ (IsLast(b, RequestsOf(p))' => IsLast(b, RequestsOf(p)))
    BY <1>1, <2>1 DEF ServeInv, BuildsShown, SameRequest, IsLast
  <2> QED
    BY <1>1, <2>2, StillShown
<1> QED
  BY <1>2, <1>3, <1>4 DEF ServeInv

LEMMA ServeStep == ServeInv /\ [Next]_vars => ServeInv'
BY PageStep, RequestStep, FetchStep, ServeUnchanged DEF Next

LEMMA ServeInvariant == Spec => []ServeInv
BY ServeInit, ServeStep, PTL DEF Spec

(***************************************************************************)
(* Requests are numbered, so that some of them have a last one.            *)
(***************************************************************************)
LEMMA LastIsLast ==
  ASSUME TypeOK, NEW S, S # {}, S \subseteq Id
  PROVE  IsLast(Last(S), S)
<1>1. S \subseteq 0..Len(req) /\ Len(req) \in Nat
  BY Ids
<1>2. \E r \in S : \A q \in S : q <= r
  BY <1>1, GreatestNumber
<1> QED
  BY <1>2 DEF Last, IsLast

(***************************************************************************)
(* A save that was alone and whose answer arrived is in the file, all of   *)
(* it and nothing else, until the next save; for any texts, pages and      *)
(* requests, whatever failing, lost and overlapping saves left before.     *)
(***************************************************************************)
THEOREM SavedTextKept == Spec => []LoneSaveKept
<1>1. ServeInv => LoneSaveKept
  <2> SUFFICES ASSUME ServeInv, Saves # {}, NEW s, s = Last(Saves), req[s].alone,
                      req[s].step = "handled", s \notin lost, req[s].answer.error = NoText
               PROVE  file = Content(req[s].text)
    BY DEF LoneSaveKept
  <2>1. IsLast(s, Saves) /\ s \in Id
    BY LastIsLast, Subsets DEF ServeInv, IsLast
  <2> QED
    BY <2>1 DEF ServeInv, SavesKept, SaveKept, Received
<1> QED
  BY <1>1, ServeInvariant, PTL

(***************************************************************************)
(* A page that waits for nothing shows the diagram and the message of its  *)
(* own text, if its last build was alone, whatever was built, failed, lost *)
(* or overtaken before; if that build was lost, the page says so.          *)
(***************************************************************************)
THEOREM OwnAnswerShown == Spec => []LoneAnswerShown
<1>1. ServeInv => LoneAnswerShown
  <2> SUFFICES ASSUME ServeInv, NEW p \in Page, Quiet(p), NEW b, b = LastBuild(p), req[b].alone
               PROVE  IF b \in lost THEN SaysLost(p) ELSE ShowsItsText(p)
    BY DEF LoneAnswerShown
  <2>1. /\ Builds(p) # {} /\ b = Last(Builds(p)) /\ TypeOK
        /\ Builds(p) \subseteq Id /\ RequestsOf(p) \subseteq Id
    BY Subsets DEF Quiet, ServeInv, PagesLoad, LastBuild, Builds
  <2>2. IsLast(b, Builds(p))
    BY <2>1, LastIsLast
  <2>3. b \in Id /\ b \in RequestsOf(p) /\ req[b].kind # "save" /\ req[b] \in Request /\ b \in Nat
    BY <2>2, Subsets, Ids DEF IsLast, Builds, RequestsOf, ServeInv
  <2>4. BuildShown(p, b) /\ Fits(req[b]) /\ (b \in lost => req[b].kind = "config")
    BY <2>2, <2>3 DEF ServeInv, BuildsShown, AllFit, Request
  <2>5. IsLast(Last(RequestsOf(p)), RequestsOf(p))
    BY <2>1, <2>3, LastIsLast
  <2>6. CASE b \in lost
    BY <2>4, <2>5, <2>6 DEF SaysLost, LastBuild, BuildShown, ConfigShown
  <2>7. CASE b \notin lost
    <3>1. req[b].step = "handled" /\ ~timer[p]
      BY <2>3, <2>7 DEF Quiet, Pending
    <3>2. doc[p] \in Good => shown[p] = doc[p]
      <4>1. CASE req[b].kind = "config"
        BY <2>4, <2>7, <3>1, <4>1 DEF BuildShown, TextIs, ConfigShown, Received, Result
      <4>2. CASE req[b].kind = "page"
        BY <2>4, <3>1, <4>2 DEF BuildShown, TextIs, PageShown
      <4> QED
        BY <2>3, <4>1, <4>2 DEF Request
    <3>3. ASSUME req[Last(RequestsOf(p))].kind = "config"
          PROVE  msg[p] = IF doc[p] \in Good THEN NoText ELSE doc[p]
      <4>1. Last(RequestsOf(p)) \in Builds(p) /\ Builds(p) \subseteq RequestsOf(p) /\ RequestsOf(p) \subseteq Nat
        BY <2>5, <3>3, Subsets DEF IsLast, Builds, ServeInv
      <4>2. Last(RequestsOf(p)) = b
        BY <2>2, <2>3, <2>5, <4>1 DEF IsLast
      <4>3. IsLast(b, RequestsOf(p)) /\ req[b].kind = "config"
        BY <2>5, <3>3, <4>2
      <4>4. /\ doc[p] = req[b].text /\ msg[p] = req[b].answer.error /\ req[b].text \in Text
            /\ Result(req[b].text, req[b].answer.outputs, req[b].answer.error)
        BY <2>4, <2>7, <3>1, <4>3 DEF BuildShown, TextIs, ConfigShown, Received, Fits
      <4> QED
        BY <4>4 DEF Result, Text
    <3> QED
      BY <2>7, <3>2, <3>3 DEF ShowsItsText
  <2> QED
    BY <2>6, <2>7
<1> QED
  BY <1>1, ServeInvariant, PTL
==============================================================================
