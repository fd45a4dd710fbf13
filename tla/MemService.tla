----------------------------- MODULE MemService -----------------------------
(***************************************************************************)
(* What a memory promises the one master in front of it: requests are      *)
(* answered one at a time and in order, and a read is answered with the    *)
(* last value written to its word.                                         *)
(***************************************************************************)
CONSTANTS Addr, Value, Request, NoRequest, NotYet

VARIABLES
  store,      \* the words, as the master knows them
  req,        \* the request being served
  answer      \* its answer: NotYet, or a value (a write's says nothing)

vars == <<store, req, answer>>

Init ==
  /\ store \in [Addr -> Value]
  /\ req = NoRequest /\ answer = NotYet

Answered == req = NoRequest \/ answer # NotYet

\* What the answer to r may be, the words being s.
RightAnswer(r, s, x) == r.op = "read" => x = s[r.addr]

\* A write is in the store from the moment its answer has been given.
StoreLeft ==
  IF req # NoRequest /\ req.op = "write"
  THEN [store EXCEPT ![req.addr] = req.data] ELSE store

\* The master comes with a request, and may be answered at once.
Ask ==
  /\ Answered /\ store' = StoreLeft
  /\ req' \in Request
  /\ (answer' # NotYet => RightAnswer(req', store', answer'))

\* The master has nothing to ask.
Rest ==
  /\ Answered /\ store' = StoreLeft
  /\ req' = NoRequest /\ answer' = NotYet

Reply ==
  /\ ~Answered /\ answer' # NotYet /\ RightAnswer(req, store, answer')
  /\ UNCHANGED <<store, req>>

Next == Ask \/ Rest \/ Reply

Spec == Init /\ [][Next]_vars

=============================================================================
