------------------------ MODULE AccountClosureProofs ------------------------
(***************************************************************************)
(* The safety of an account's closure, for any number of operations, calls *)
(* that take them over from one another, workers, consumers and faults.    *)
(* The invariant says what a call may rely on though others work on the    *)
(* same operation: the row has reached the phase the call read, for phases *)
(* only move on, and what the call did outside the row has happened.       *)
(***************************************************************************)
EXTENDS AccountClosure, TLAPS

\* A row at phase q has reached phase p.
Reached(p, q) ==
    /\ q # "absent"
    /\ p # "requested" => q # "requested"
    /\ p \in {"revoked", "closing", "closed"} => q \in {"revoked", "closing", "closed"}
    /\ p \in {"closing", "closed"} => q \in {"closing", "closed"}
    /\ p = "closed" => q = "closed"

Shut == account = "Closed" \/ reopened

\* What a call in state s knows of the rows, of what is done (out: signed out,
\* shut: closed at some time) and of the messages.
CallFacts(s, rows, out, shut, messages) ==
    \A o \in s.op :
        /\ \A p \in s.op : p = o
        /\ s.at \in {"competing", "claiming", "working", "revoke", "revoked", "close", "closed",
                     "published"} => Reached(s.phase, rows[o].phase)
        /\ s.at \in {"revoke", "revoked"} => s.phase = "revoking"
        /\ s.at = "creating" => s.phase = "requested"
        /\ s.at = "revoked" => out
        /\ s.at \in {"close", "closed"} => s.phase = "closing"
        /\ s.at = "closed" => shut
        /\ s.at \in {"published", "reported"} => messages[o].status # "absent"

CallsInv == \A c \in Call : CallFacts(call[c], operation, revoked, Shut, message)

\* A worker has seen the receipts of the consumers whose turn is over.
WorkerFacts(s, seen) ==
    \A o \in s.op :
        /\ \A p \in s.op : p = o
        /\ s.at = "handling" => s.next <= Consumers
        /\ s.at \in {"looking", "handling"} => \A n \in 1..Consumers : n < s.next => n \in seen[o]

WorkersInv == \A w \in Worker : WorkerFacts(worker[w], receipts)

\* What a row and its message say is so.
RowFacts ==
    \A o \in Operation :
        /\ operation[o].phase \in {"revoked", "closing", "closed"} => revoked
        /\ operation[o].phase = "closed" => Shut
        /\ operation[o].status = "succeeded" => message[o].status # "absent"
        /\ message[o].status # "absent" => operation[o].phase = "closed"
        /\ message[o].status = "dispatched" => receipts[o] = 1..Consumers

AccountFacts ==
    /\ revoked => \E o \in Operation : operation[o].phase \in Revoking
    /\ account = "Closed" => revoked
    /\ editor = "Closed" => revoked

Inv == TypeOK /\ CallsInv /\ WorkersInv /\ RowFacts /\ AccountFacts

----------------------------------------------------------------------------
(* What a step has to show. *)

\* Phases only move on, one at a time.
Onward(p, q) ==
    \/ q = p
    \/ p = "absent" /\ q = "requested"
    \/ p = "requested" /\ q = "revoking"
    \/ p = "revoking" /\ q = "revoked"
    \/ p = "revoked" /\ q = "closing"
    \/ p = "closing" /\ q = "closed"

\* Nothing that is done is undone, and no message is lost.
WorldGrows ==
    /\ \A o \in Operation : Onward(operation[o].phase, operation'[o].phase)
    /\ revoked => revoked'
    /\ Shut => Shut'
    /\ \A o \in Operation : message[o].status # "absent" => message'[o].status # "absent"

LEMMA CallKeeps ==
    ASSUME WorldGrows, NEW s \in CallState, CallFacts(s, operation, revoked, Shut, message)
    PROVE  CallFacts(s, operation', revoked', Shut', message')
<1>1. s.op \subseteq Operation
  BY DEF CallState
<1>2. \A o \in s.op : Reached(s.phase, operation[o].phase) => Reached(s.phase, operation'[o].phase)
  BY <1>1 DEF WorldGrows, Onward, Reached
<1>3. QED
  BY <1>1, <1>2 DEF WorldGrows, CallFacts

\* A call goes to state s.
LEMMA CallStepKeeps ==
    ASSUME Inv, WorldGrows, NEW c \in Call, NEW s \in CallState, Update(c, s),
           CallFacts(s, operation', revoked', Shut', message')
    PROVE  call' \in [Call -> CallState] /\ CallsInv'
<1>1. call \in [Call -> CallState] /\ \A b \in Call : call'[b] = IF b = c THEN s ELSE call[b]
  BY DEF Inv, TypeOK, Update
<1>2. call' \in [Call -> CallState]
  BY DEF Inv, TypeOK, Update
<1>3. ASSUME NEW b \in Call PROVE CallFacts(call'[b], operation', revoked', Shut', message')
  <2>1. CASE b = c
    BY <1>1, <2>1
  <2>2. CASE b # c
    <3>1. call'[b] = call[b] /\ call[b] \in CallState /\ CallFacts(call[b], operation, revoked, Shut, message)
      BY <1>1, <2>2 DEF Inv, CallsInv
    <3>2. QED
      BY <3>1, CallKeeps
  <2>3. QED
    BY <2>1, <2>2
<1>4. QED
  BY <1>2, <1>3 DEF CallsInv

LEMMA CallsKeep ==
    ASSUME Inv, WorldGrows, UNCHANGED call
    PROVE  CallsInv'
<1>1. ASSUME NEW b \in Call PROVE CallFacts(call[b], operation', revoked', Shut', message')
  BY CallKeeps DEF Inv, TypeOK, CallsInv
<1>2. QED
  BY <1>1 DEF CallsInv

\* The rows a call may write when the world outside them stays as it is.
RowsOK ==
    /\ operation' \in [Operation -> OperationRow]
    /\ \A o \in Operation :
          /\ Onward(operation[o].phase, operation'[o].phase)
          /\ operation'[o].phase \in {"revoked", "closing", "closed"} => revoked
          /\ operation'[o].phase = "closed" => Shut
          /\ operation'[o].status = "succeeded" => message[o].status # "absent"

LEMMA RowsGrow == ASSUME UNCHANGED world, RowsOK PROVE WorldGrows
BY DEF world, WorldGrows, RowsOK, Shut

LEMMA RowsKeep ==
    ASSUME Inv, UNCHANGED world, RowsOK
    PROVE  WorkersInv' /\ RowFacts' /\ AccountFacts'
<1>1. WorkersInv'
  BY DEF Inv, WorkersInv, world
<1>2. RowFacts'
  BY DEF Inv, RowFacts, RowsOK, world, Shut, Onward
<1>3. AccountFacts'
  BY DEF Inv, AccountFacts, RowsOK, world, Onward, Revoking
<1>4. QED
  BY <1>1, <1>2, <1>3

\* A step of a call that writes the operation's row, or nothing.
LEMMA CallWrites ==
    ASSUME Inv, UNCHANGED world, RowsOK, faults' \in 0..MaxFaults,
           NEW c \in Call, NEW s \in CallState, Update(c, s),
           CallFacts(s, operation', revoked, Shut, message)
    PROVE  Inv'
<1>1. WorldGrows
  BY RowsGrow
<1>2. CallFacts(s, operation', revoked', Shut', message')
  BY DEF world, Shut
<1>3. call' \in [Call -> CallState] /\ CallsInv'
  BY <1>1, <1>2, CallStepKeeps
<1>4. TypeOK'
  BY <1>3 DEF Inv, TypeOK, world, RowsOK
<1>5. QED
  BY <1>3, <1>4, RowsKeep DEF Inv

LEMMA RowsUnchanged == ASSUME Inv, UNCHANGED operation PROVE RowsOK
BY DEF Inv, TypeOK, RowFacts, RowsOK, Onward

\* A row keeps its phase, and does not become succeeded.
LEMMA RowTouched ==
    ASSUME Inv, NEW o \in Operation, NEW row \in OperationRow, operation' = [operation EXCEPT ![o] = row],
           row.phase = operation[o].phase, row.status = "succeeded" => message[o].status # "absent"
    PROVE  RowsOK
<1>1. \A p \in Operation : operation'[p] = IF p = o THEN row ELSE operation[p]
  BY DEF Inv, TypeOK
<1>2. QED
  BY <1>1 DEF Inv, TypeOK, RowFacts, RowsOK, Onward

\* What is known of a call at work on o.
LEMMA CallHas ==
    ASSUME Inv, NEW c \in Call, NEW o \in call[c].op
    PROVE  /\ call[c] \in CallState /\ o \in Operation /\ operation[o] \in OperationRow
           /\ call[c].op = {o}
           /\ CallFacts(call[c], operation, revoked, Shut, message)
BY DEF Inv, TypeOK, CallState, CallsInv, CallFacts

LEMMA NewCallState == NewCall \in CallState
BY DEF NewCall, CallState, Phase

\* A call that returns, with a receipt of the row as it is.
Left(c, at) == [NewCall EXCEPT !.at = at, !.op = call[c].op]

LEMMA LeftFacts ==
    ASSUME Inv, NEW c \in Call, NEW at \in {"returned", "reported"}, NEW rows,
           \A o \in call[c].op : at = "reported" => message[o].status # "absent"
    PROVE  Left(c, at) \in CallState /\ CallFacts(Left(c, at), rows, revoked, Shut, message)
<1>1. call[c] \in CallState /\ CallFacts(call[c], operation, revoked, Shut, message)
  BY DEF Inv, TypeOK, CallsInv
<1>2. Left(c, at) \in CallState /\ Left(c, at).at = at /\ Left(c, at).op = call[c].op
  BY <1>1, NewCallState DEF Left, CallState, NewCall
<1>3. QED
  BY <1>1, <1>2 DEF CallFacts

LEMMA ReturnKeeps ==
    ASSUME Inv, UNCHANGED <<operation, world>>, faults' \in 0..MaxFaults,
           NEW c \in Call, NEW o \in call[c].op, Return(c, o)
    PROVE  Inv'
<1>1. call[c].op = {o} /\ o \in Operation
  BY CallHas
<1>2. PICK at \in {"returned", "reported"} :
         Update(c, Left(c, at)) /\ (at = "reported" => operation[o].status = "succeeded")
  BY DEF Return, Leave, Left
<1>3. at = "reported" => message[o].status # "absent"
  BY <1>1, <1>2 DEF Inv, RowFacts
<1>4. Left(c, at) \in CallState /\ CallFacts(Left(c, at), operation', revoked, Shut, message)
  BY <1>1, <1>3, LeftFacts
<1>5. QED
  BY <1>2, <1>4, RowsUnchanged, CallWrites

\* A call that goes to another place about the same operation.
Gone(c, at) == [call[c] EXCEPT !.at = at]

LEMMA GoneState ==
    ASSUME Inv, NEW c \in Call, NEW o \in call[c].op,
           NEW at \in {"working", "revoke", "revoked", "close", "closed", "published", "failing",
                       "competing"}
    PROVE  /\ Gone(c, at) \in CallState
           /\ Gone(c, at).at = at /\ Gone(c, at).op = {o} /\ Gone(c, at).phase = call[c].phase
BY CallHas DEF Gone, CallState

----------------------------------------------------------------------------
(* Finding, creating and claiming. *)

LEMMA FoundKeeps ==
    ASSUME Inv, UNCHANGED <<operation, world, faults>>, NEW c \in Call, NEW o \in Operation,
           call[c].at \in {"new", "competing"}, call[c].at = "competing" => o \in call[c].op,
           NEW expected \in {"any", "running", "failed"},
           operation[o].phase # "absent", Found(c, o, expected)
    PROVE  Inv'
<1>1. /\ operation[o] \in OperationRow /\ operation[o].phase \in Phase /\ call[c] \in CallState
      /\ faults' \in 0..MaxFaults
  BY DEF Inv, TypeOK, OperationRow
<1>2. CASE operation[o].status = "succeeded"
  <2> DEFINE s == [call[c] EXCEPT !.at = "reported", !.op = {o}]
  <2>1. s \in CallState /\ s.at = "reported" /\ s.op = {o}
    BY <1>1 DEF CallState
  <2>2. Update(c, s)
    BY <1>2 DEF Found
  <2>3. message[o].status # "absent"
    BY <1>2 DEF Inv, RowFacts
  <2> HIDE DEF s
  <2>4. CallFacts(s, operation', revoked, Shut, message)
    BY <2>1, <2>3 DEF CallFacts
  <2>5. QED
    BY <1>1, <2>1, <2>2, <2>4, RowsUnchanged, CallWrites
<1>3. CASE operation[o].status # "succeeded"
  <2> DEFINE s == [at |-> "claiming", op |-> {o}, phase |-> operation[o].phase, expected |-> expected]
  <2>1. s \in CallState /\ s.at = "claiming" /\ s.op = {o} /\ s.phase = operation[o].phase
    BY <1>1 DEF CallState
  <2>2. Update(c, s)
    BY <1>3 DEF Found
  <2> HIDE DEF s
  <2>3. Reached(operation[o].phase, operation[o].phase)
    BY <1>1 DEF Reached, Phase
  <2>4. CallFacts(s, operation', revoked, Shut, message)
    BY <2>1, <2>3 DEF CallFacts
  <2>5. QED
    BY <1>1, <2>1, <2>2, <2>4, RowsUnchanged, CallWrites
<1>4. QED
  BY <1>2, <1>3

LEMMA FindKeeps ==
    ASSUME Inv, NEW c \in Call, NEW o \in Operation, Find(c, o) \/ FindCompetitor(c, o)
    PROVE  Inv'
<1>1. operation[o] \in OperationRow /\ faults' \in 0..MaxFaults /\ UNCHANGED <<operation, world, faults>>
  BY DEF Inv, TypeOK, Find, FindCompetitor
<1>2. CASE Find(c, o) /\ operation[o].phase = "absent"
  <2> DEFINE s == [NewCall EXCEPT !.at = "creating", !.op = {o}]
  <2>1. s \in CallState /\ s.at = "creating" /\ s.op = {o} /\ s.phase = "requested" /\ Update(c, s)
    BY <1>2, NewCallState DEF Find, CallState, NewCall
  <2> HIDE DEF s
  <2>2. CallFacts(s, operation', revoked, Shut, message)
    BY <2>1 DEF CallFacts
  <2>3. QED
    BY <1>1, <2>1, <2>2, RowsUnchanged, CallWrites
<1>3. CASE Find(c, o) /\ operation[o].phase # "absent"
  <2>1. operation[o].status \in {"any", "running", "failed"} \/ operation[o].status = "succeeded"
    BY <1>1 DEF OperationRow
  <2>2. PICK x \in {"any", "running", "failed"} : Found(c, o, x)
    BY <1>3, <2>1 DEF Find, Found
  <2>3. QED
    BY <1>1, <1>3, <2>2, FoundKeeps DEF Find
<1>4. CASE FindCompetitor(c, o)
  <2>1. o \in call[c].op /\ call[c].at = "competing" /\ Found(c, o, "any")
    BY <1>4 DEF FindCompetitor
  <2>2. operation[o].phase # "absent"
    BY <2>1, CallHas DEF CallFacts, Reached
  <2>3. QED
    BY <1>1, <2>1, <2>2, FoundKeeps
<1>5. QED
  BY <1>2, <1>3, <1>4

LEMMA CreateKeeps ==
    ASSUME Inv, NEW c \in Call, NEW o \in Operation, Create(c, o)
    PROVE  Inv'
<1>1. /\ o \in call[c].op /\ call[c] \in CallState /\ operation[o] \in OperationRow
      /\ faults' \in 0..MaxFaults /\ UNCHANGED world
  BY DEF Create, Inv, TypeOK
<1>2. Gone(c, "working") \in CallState /\ Gone(c, "competing") \in CallState
  BY <1>1, GoneState
<1>3. Gone(c, "working").at = "working" /\ Gone(c, "competing").at = "competing"
      /\ \A at \in {"working", "competing"} : Gone(c, at).op = {o} /\ Gone(c, at).phase = call[c].phase
  BY <1>1, GoneState
<1>4. CASE operation[o].phase = "absent"
  <2> DEFINE row == [operation[o] EXCEPT !.phase = "requested", !.owner = c]
  <2>1. operation' = [operation EXCEPT ![o] = row] /\ Update(c, Gone(c, "working"))
    BY <1>4 DEF Create, Goto, Gone, Inv, TypeOK
  <2>2. row \in OperationRow /\ row.phase = "requested" /\ row.status = operation[o].status
    BY <1>1 DEF OperationRow, Phase
  <2> HIDE DEF row
  <2>3. \A p \in Operation : operation'[p] = IF p = o THEN row ELSE operation[p]
    BY <2>1 DEF Inv, TypeOK
  <2>4. RowsOK
    BY <1>4, <2>1, <2>2, <2>3 DEF RowsOK, Onward, Inv, RowFacts, TypeOK
  <2>5. CallFacts(Gone(c, "working"), operation', revoked, Shut, message)
    <3>1. call[c].phase = "requested"
      BY <1>1, CallHas DEF Create, CallFacts
    <3>2. QED
      BY <1>3, <2>2, <2>3, <3>1 DEF CallFacts, Reached
  <2>6. QED
    BY <1>1, <1>2, <2>1, <2>4, <2>5, CallWrites
<1>5. CASE operation[o].phase # "absent"
  <2>1. Update(c, Gone(c, "competing")) /\ UNCHANGED operation
    BY <1>5 DEF Create, Goto, Gone
  <2>2. CallFacts(Gone(c, "competing"), operation', revoked, Shut, message)
    <3>1. call[c].phase = "requested"
      BY <1>1, CallHas DEF Create, CallFacts
    <3>2. QED
      BY <1>3, <1>5, <2>1, <3>1 DEF CallFacts, Reached
  <2>3. QED
    BY <1>1, <1>2, <2>1, <2>2, RowsUnchanged, CallWrites
<1>6. QED
  BY <1>4, <1>5

LEMMA ClaimedRow ==
    ASSUME Inv, NEW c \in Call, NEW o \in Operation, Claimed(c, o)
    PROVE  RowsOK /\ \A p \in Operation : operation'[p].phase = operation[p].phase
<1> DEFINE row == [operation[o] EXCEPT !.status = "running", !.owner = c, !.expired = FALSE]
<1>1. operation[o] \in OperationRow /\ operation' = [operation EXCEPT ![o] = row]
  BY DEF Inv, TypeOK, Claimed
<1>2. row \in OperationRow /\ row.phase = operation[o].phase /\ row.status = "running"
  BY <1>1 DEF OperationRow
<1> HIDE DEF row
<1>3. QED
  BY <1>1, <1>2, RowTouched DEF Inv, TypeOK

LEMMA ClaimKeeps ==
    ASSUME Inv, NEW c \in Call, NEW o \in Operation, Claim(c, o)
    PROVE  Inv'
<1>1. /\ o \in call[c].op /\ call[c] \in CallState /\ call[c].at = "claiming"
      /\ faults' \in 0..MaxFaults /\ UNCHANGED world
      /\ Reached(call[c].phase, operation[o].phase)
  BY CallHas DEF Claim, Inv, TypeOK, CallFacts
<1>2. CASE MayClaim(c, o, call[c].expected)
  <2> DEFINE s == [call[c] EXCEPT !.at = "working", !.expected = "any"]
  <2>1. Claimed(c, o) /\ Update(c, s)
    BY <1>2 DEF Claim
  <2>2. s \in CallState /\ s.at = "working" /\ s.op = {o} /\ s.phase = call[c].phase
    BY <1>1, CallHas DEF CallState
  <2> HIDE DEF s
  <2>3. CallFacts(s, operation', revoked, Shut, message)
    BY <1>1, <2>1, <2>2, ClaimedRow DEF CallFacts
  <2>4. QED
    BY <1>1, <2>1, <2>2, <2>3, ClaimedRow, CallWrites
<1>3. CASE ~MayClaim(c, o, call[c].expected)
  BY <1>1, <1>3, ReturnKeeps DEF Claim
<1>4. QED
  BY <1>2, <1>3

----------------------------------------------------------------------------
(* The phases. *)

\* A compare-and-set from a phase to the next, by a call for which what the
\* new phase says is so.
LEMMA AdvanceKeeps ==
    ASSUME Inv, UNCHANGED world, faults' \in 0..MaxFaults,
           NEW c \in Call, NEW o \in call[c].op, NEW from, NEW to \in Phase,
           Onward(from, to), from \notin {to, "absent"},
           Advance(c, o, from, to),
           to \in {"revoked", "closing", "closed"} => revoked, to = "closed" => Shut
    PROVE  Inv'
<1>1. /\ call[c] \in CallState /\ call[c].op = {o} /\ o \in Operation
      /\ operation[o] \in OperationRow
  BY CallHas
<1>2. CASE Matches(c, o, from)
  <2> DEFINE row == [operation[o] EXCEPT !.phase = to, !.expired = FALSE,
                                         !.status = IF from = "requested" THEN "running" ELSE @]
             s == [call[c] EXCEPT !.at = "working", !.phase = to]
  <2>1. operation' = [operation EXCEPT ![o] = row] /\ Update(c, s)
    BY <1>1, <1>2 DEF Advance, Inv, TypeOK
  <2>2. /\ row \in OperationRow /\ row.phase = to /\ row.status \in {"running", operation[o].status}
    BY <1>1 DEF OperationRow
  <2>3. s \in CallState /\ s.at = "working" /\ s.op = {o} /\ s.phase = to
    BY <1>1 DEF CallState
  <2>4. operation[o].phase = from
    BY <1>2 DEF Matches
  <2> HIDE DEF row, s
  <2>5. \A p \in Operation : operation'[p] = IF p = o THEN row ELSE operation[p]
    BY <1>1, <2>1 DEF Inv, TypeOK
  <2>6. operation' \in [Operation -> OperationRow]
    BY <1>1, <2>1, <2>2 DEF Inv, TypeOK
  <2>7. RowsOK
    BY <1>1, <2>2, <2>4, <2>5, <2>6 DEF RowsOK, Inv, RowFacts, Onward
  <2>8. CallFacts(s, operation', revoked, Shut, message)
    BY <1>1, <2>2, <2>3, <2>5 DEF CallFacts, Reached, Phase
  <2>9. QED
    BY <2>1, <2>3, <2>7, <2>8, CallWrites
<1>3. CASE ~Matches(c, o, from)
  BY <1>1, <1>3, ReturnKeeps DEF Advance
<1>4. QED
  BY <1>2, <1>3

LEMMA PhaseStepsKeep ==
    ASSUME Inv, NEW c \in Call, NEW o \in Operation,
           Begin(c, o) \/ MarkRevoked(c, o) \/ StartClosing(c, o) \/ MarkClosed(c, o)
    PROVE  Inv'
<1>1. /\ o \in call[c].op /\ UNCHANGED world /\ faults' \in 0..MaxFaults
      /\ CallFacts(call[c], operation, revoked, Shut, message)
  BY CallHas DEF Begin, MarkRevoked, StartClosing, MarkClosed, Before, After, Inv, TypeOK
<1>2. CASE Begin(c, o)
  BY <1>1, <1>2, AdvanceKeeps DEF Begin, Onward, Phase
<1>3. CASE MarkRevoked(c, o)
  <2>1. revoked
    BY <1>1, <1>3 DEF MarkRevoked, After, CallFacts
  <2>2. QED
    BY <1>1, <1>3, <2>1, AdvanceKeeps DEF MarkRevoked, Onward, Phase
<1>4. CASE StartClosing(c, o)
  <2>1. operation[o].phase \in {"revoked", "closing", "closed"}
    BY <1>1, <1>4 DEF StartClosing, Before, CallFacts, Reached
  <2>2. revoked
    BY <2>1 DEF Inv, RowFacts
  <2>3. QED
    BY <1>1, <1>4, <2>2, AdvanceKeeps DEF StartClosing, Onward, Phase
<1>5. CASE MarkClosed(c, o)
  <2>1. Shut /\ operation[o].phase \in {"closing", "closed"}
    BY <1>1, <1>5 DEF MarkClosed, After, CallFacts, Reached
  <2>2. revoked
    BY <2>1 DEF Inv, RowFacts
  <2>3. QED
    BY <1>1, <1>5, <2>1, <2>2, AdvanceKeeps DEF MarkClosed, Onward, Phase
<1>6. QED
  BY <1>2, <1>3, <1>4, <1>5

LEMMA CheckOwnerKeeps ==
    ASSUME Inv, UNCHANGED world, faults' \in 0..MaxFaults,
           NEW c \in Call, NEW o \in call[c].op, call[c].at = "working",
           NEW then \in {"revoke", "close"}, CheckOwner(c, o, then),
           then = "revoke" => call[c].phase = "revoking", then = "close" => call[c].phase = "closing"
    PROVE  Inv'
<1>1. o \in Operation /\ Reached(call[c].phase, operation[o].phase)
  BY CallHas DEF CallFacts
<1>2. CASE MayClaim(c, o, "any")
  <2>1. Claimed(c, o) /\ Update(c, Gone(c, then))
    BY <1>2 DEF CheckOwner, Goto, Gone
  <2>2. /\ Gone(c, then) \in CallState /\ Gone(c, then).at = then /\ Gone(c, then).op = {o}
        /\ Gone(c, then).phase = call[c].phase
    BY GoneState
  <2>3. CallFacts(Gone(c, then), operation', revoked, Shut, message)
    BY <1>1, <2>1, <2>2, ClaimedRow DEF CallFacts
  <2>4. QED
    BY <1>1, <2>1, <2>2, <2>3, ClaimedRow, CallWrites
<1>3. CASE ~MayClaim(c, o, "any")
  BY <1>3, ReturnKeeps DEF CheckOwner
<1>4. QED
  BY <1>2, <1>3

LEMMA BeforeKeeps ==
    ASSUME Inv, NEW c \in Call, NEW o \in Operation, BeforeRevoking(c, o) \/ BeforeClosing(c, o)
    PROVE  Inv'
<1>1. /\ o \in call[c].op /\ call[c].at = "working" /\ UNCHANGED world /\ faults' \in 0..MaxFaults
      /\ Reached(call[c].phase, operation[o].phase)
  BY CallHas DEF BeforeRevoking, BeforeClosing, Before, Inv, TypeOK, CallFacts
<1>2. CASE BeforeRevoking(c, o)
  BY <1>1, <1>2, CheckOwnerKeeps DEF BeforeRevoking, Before
<1>3. CASE BeforeClosing(c, o) /\ account # "Closed"
  BY <1>1, <1>3, CheckOwnerKeeps DEF BeforeClosing, Before
<1>4. CASE BeforeClosing(c, o) /\ account = "Closed"
  <2>1. Update(c, Gone(c, "closed")) /\ UNCHANGED operation /\ call[c].phase = "closing"
    BY <1>4 DEF BeforeClosing, Before, Goto, Gone
  <2>2. /\ Gone(c, "closed") \in CallState /\ Gone(c, "closed").at = "closed"
        /\ Gone(c, "closed").op = {o} /\ Gone(c, "closed").phase = call[c].phase
    BY <1>1, GoneState
  <2>3. CallFacts(Gone(c, "closed"), operation', revoked, Shut, message)
    BY <1>1, <1>4, <2>1, <2>2 DEF CallFacts, Shut
  <2>4. QED
    BY <1>1, <2>1, <2>2, <2>3, RowsUnchanged, CallWrites
<1>5. QED
  BY <1>2, <1>3, <1>4

\* The effects outside the row: signing out, closing, publishing.
LEMMA EffectsKeep ==
    ASSUME Inv, NEW c \in Call, NEW o \in Operation, Revoke(c, o) \/ CloseAccount(c, o) \/ Publish(c, o)
    PROVE  Inv'
<1>1. /\ o \in call[c].op /\ operation[o] \in OperationRow /\ UNCHANGED operation
      /\ CallFacts(call[c], operation, revoked, Shut, message)
  BY CallHas DEF Revoke, CloseAccount, Publish, Before, After, Inv, TypeOK
<1>2. Reached(call[c].phase, operation[o].phase) \/ call[c].at \notin {"revoke", "close", "working"}
  BY <1>1 DEF CallFacts
<1>3. CASE Revoke(c, o)
  <2>1. /\ Gone(c, "revoked") \in CallState /\ Gone(c, "revoked").at = "revoked"
        /\ Gone(c, "revoked").op = {o} /\ Gone(c, "revoked").phase = "revoking"
        /\ Reached("revoking", operation[o].phase)
    BY <1>1, <1>2, <1>3, GoneState DEF Revoke, After, CallFacts
  <2>2. Update(c, Gone(c, "revoked")) /\ revoked' = TRUE
    BY <1>3 DEF Revoke, Goto, Gone
  <2>3. WorldGrows
    BY <1>3, <2>2 DEF Revoke, WorldGrows, Onward, Shut
  <2>4. CallFacts(Gone(c, "revoked"), operation', revoked', Shut', message')
    BY <1>1, <2>1, <2>2 DEF CallFacts
  <2>5. call' \in [Call -> CallState] /\ CallsInv'
    BY <2>1, <2>2, <2>3, <2>4, CallStepKeeps
  <2>6. TypeOK'
    BY <1>3, <2>2, <2>5 DEF Inv, TypeOK, Revoke
  <2>7. operation[o].phase \in Revoking
    BY <1>1, <2>1 DEF Reached, Revoking, OperationRow, Phase
  <2>8. AccountFacts'
    BY <1>1, <2>2, <2>7 DEF AccountFacts
  <2>9. RowFacts' /\ WorkersInv'
    BY <1>3, <2>2 DEF Revoke, Inv, RowFacts, WorkersInv, Shut
  <2>10. QED
    BY <2>5, <2>6, <2>8, <2>9 DEF Inv
<1>4. CASE CloseAccount(c, o)
  <2>1. /\ Gone(c, "closed") \in CallState /\ Gone(c, "closed").at = "closed"
        /\ Gone(c, "closed").op = {o} /\ Gone(c, "closed").phase = "closing"
        /\ Reached("closing", operation[o].phase)
    BY <1>1, <1>2, <1>4, GoneState DEF CloseAccount, After, CallFacts
  <2>2. Update(c, Gone(c, "closed")) /\ account' = "Closed" /\ Shut'
    BY <1>4 DEF CloseAccount, Goto, Gone, Shut
  <2>3. WorldGrows
    BY <1>4, <2>2 DEF CloseAccount, WorldGrows, Onward
  <2>4. CallFacts(Gone(c, "closed"), operation', revoked', Shut', message')
    BY <1>1, <2>1, <2>2 DEF CallFacts
  <2>5. call' \in [Call -> CallState] /\ CallsInv'
    BY <2>1, <2>2, <2>3, <2>4, CallStepKeeps
  <2>6. TypeOK'
    BY <1>4, <2>2, <2>5 DEF Inv, TypeOK, CloseAccount
  <2>7. revoked
    BY <2>1 DEF Reached, Inv, RowFacts
  <2>8. AccountFacts'
    BY <1>1, <1>4, <2>2, <2>7 DEF Inv, AccountFacts, CloseAccount
  <2>9. RowFacts' /\ WorkersInv'
    BY <1>4, <2>2 DEF CloseAccount, Inv, RowFacts, WorkersInv
  <2>10. QED
    BY <2>5, <2>6, <2>8, <2>9 DEF Inv
<1>5. CASE Publish(c, o)
  <2>1. /\ Gone(c, "published") \in CallState /\ Gone(c, "published").at = "published"
        /\ Gone(c, "published").op = {o} /\ Gone(c, "published").phase = "closed"
        /\ operation[o].phase = "closed"
    BY <1>1, <1>2, <1>5, GoneState DEF Publish, Before, Reached
  <2>2. Update(c, Gone(c, "published"))
    BY <1>5 DEF Publish, Goto, Gone
  <2>3. /\ message' \in [Operation -> MessageRow]
        /\ \A p \in Operation :
              \/ message'[p] = message[p] /\ (p = o => message[p].status # "absent")
              \/ p = o /\ message'[p].status = "pending"
    BY <1>5 DEF Publish, Inv, TypeOK, MessageRow
  <2>4. WorldGrows
    BY <1>5, <2>3 DEF Publish, WorldGrows, Onward, Shut
  <2>5. CallFacts(Gone(c, "published"), operation', revoked', Shut', message')
    BY <1>1, <2>1, <2>3 DEF CallFacts, Reached
  <2>6. call' \in [Call -> CallState] /\ CallsInv'
    BY <2>1, <2>2, <2>4, <2>5, CallStepKeeps
  <2>7. TypeOK'
    BY <1>5, <2>3, <2>6 DEF Inv, TypeOK, Publish
  <2>8. RowFacts'
    BY <1>5, <2>1, <2>3 DEF Publish, Inv, RowFacts, Shut
  <2>9. AccountFacts' /\ WorkersInv'
    BY <1>5 DEF Publish, Inv, AccountFacts, WorkersInv
  <2>10. QED
    BY <2>6, <2>7, <2>8, <2>9 DEF Inv
<1>6. QED
  BY <1>3, <1>4, <1>5

\* The operation is marked succeeded by a call that has published.
LEMMA SucceededRow ==
    ASSUME Inv, NEW c \in Call, NEW o \in call[c].op, call[c].at = "published",
           operation' = [operation EXCEPT ![o].status = "succeeded"]
    PROVE  RowsOK
<1> DEFINE row == [operation[o] EXCEPT !.status = "succeeded"]
<1>1. o \in Operation /\ operation[o] \in OperationRow /\ message[o].status # "absent"
  BY CallHas DEF CallFacts
<1>2. row \in OperationRow /\ row.phase = operation[o].phase
  BY <1>1 DEF OperationRow
<1>3. operation' = [operation EXCEPT ![o] = row]
  BY <1>1 DEF Inv, TypeOK
<1> HIDE DEF row
<1>4. QED
  BY <1>1, <1>2, <1>3, RowTouched

LEMMA SucceedKeeps ==
    ASSUME Inv, NEW c \in Call, NEW o \in Operation, Succeed(c, o)
    PROVE  Inv'
<1>1. /\ o \in call[c].op /\ call[c].at = "published" /\ UNCHANGED world /\ faults' \in 0..MaxFaults
      /\ message[o].status # "absent" /\ call[c].op = {o}
  BY CallHas DEF Succeed, After, Inv, TypeOK, CallFacts
<1>2. CASE Matches(c, o, "closed")
  <2>1. operation' = [operation EXCEPT ![o].status = "succeeded"] /\ Update(c, Left(c, "reported"))
    BY <1>2 DEF Succeed, Leave, Left
  <2>2. Left(c, "reported") \in CallState /\ CallFacts(Left(c, "reported"), operation', revoked, Shut, message)
    BY <1>1, LeftFacts
  <2>3. QED
    BY <1>1, <2>1, <2>2, SucceededRow, CallWrites
<1>3. CASE ~Matches(c, o, "closed")
  BY <1>1, <1>3, ReturnKeeps DEF Succeed
<1>4. QED
  BY <1>2, <1>3

LEMMA FaultBound == Inv /\ Fault => faults' \in 0..MaxFaults
BY ClosureAssumption DEF Inv, TypeOK, Fault

LEMMA StepFailsKeeps ==
    ASSUME Inv, NEW c \in Call, NEW o \in Operation, StepFails(c, o)
    PROVE  Inv'
<1>1. o \in call[c].op /\ UNCHANGED world /\ faults' \in 0..MaxFaults
  BY FaultBound DEF StepFails
<1>2. RowsOK
  BY <1>1, RowsUnchanged, SucceededRow DEF StepFails
<1>3. Update(c, Gone(c, "failing"))
  BY DEF StepFails, Goto, Gone
<1>4. Gone(c, "failing") \in CallState /\ Gone(c, "failing").at = "failing" /\ Gone(c, "failing").op = {o}
  BY <1>1, GoneState
<1>5. CallFacts(Gone(c, "failing"), operation', revoked, Shut, message)
  BY <1>4 DEF CallFacts
<1>6. QED
  BY <1>1, <1>2, <1>3, <1>4, <1>5, CallWrites

LEMMA MarkFailedKeeps ==
    ASSUME Inv, NEW c \in Call, NEW o \in Operation, MarkFailed(c, o)
    PROVE  Inv'
<1>1. o \in call[c].op /\ UNCHANGED world /\ faults' \in 0..MaxFaults /\ operation[o] \in OperationRow
  BY DEF MarkFailed, After, Inv, TypeOK
<1>2. CASE Matches(c, o, call[c].phase)
  <2> DEFINE row == [operation[o] EXCEPT !.status = "failed"]
  <2>1. operation' = [operation EXCEPT ![o] = row] /\ Update(c, Left(c, "returned"))
    BY <1>1, <1>2 DEF MarkFailed, FailedIfOwned, Leave, Left, Inv, TypeOK
  <2>2. row \in OperationRow /\ row.phase = operation[o].phase /\ row.status = "failed"
    BY <1>1 DEF OperationRow
  <2> HIDE DEF row
  <2>3. RowsOK
    BY <2>1, <2>2, RowTouched
  <2>4. Left(c, "returned") \in CallState /\ CallFacts(Left(c, "returned"), operation', revoked, Shut, message)
    BY LeftFacts
  <2>5. QED
    BY <1>1, <2>1, <2>3, <2>4, CallWrites
<1>3. CASE ~Matches(c, o, call[c].phase)
  BY <1>1, <1>3, ReturnKeeps DEF MarkFailed, FailedIfOwned
<1>4. QED
  BY <1>2, <1>3

LEMMA DiesKeeps ==
    ASSUME Inv, NEW c \in Call, Dies(c)
    PROVE  Inv'
<1>1. UNCHANGED <<operation, world>> /\ faults' \in 0..MaxFaults /\ Update(c, Left(c, "returned"))
  BY FaultBound DEF Dies, Leave, Left
<1>2. Left(c, "returned") \in CallState /\ CallFacts(Left(c, "returned"), operation', revoked, Shut, message)
  BY LeftFacts
<1>3. QED
  BY <1>1, <1>2, RowsUnchanged, CallWrites

----------------------------------------------------------------------------
(* Leases, replays and edits. *)

\* A step that touches a row and no call.
LEMMA LeaseKeeps ==
    ASSUME Inv, NEW o \in Operation,
           LeaseRunsOut(o) \/ LeaseLapses(o) \/ \E c \in Call : Renew(c, o)
    PROVE  Inv'
<1>1. UNCHANGED <<call, world>> /\ faults' \in 0..MaxFaults
  BY FaultBound DEF LeaseRunsOut, LeaseLapses, Renew, Inv, TypeOK
<1>2. PICK b \in BOOLEAN : operation' = [operation EXCEPT ![o].expired = b]
  BY DEF LeaseRunsOut, LeaseLapses, Renew
<1> DEFINE row == [operation[o] EXCEPT !.expired = b]
<1>3. operation[o] \in OperationRow /\ operation' = [operation EXCEPT ![o] = row]
  BY <1>2 DEF Inv, TypeOK
<1>4. row \in OperationRow /\ row.phase = operation[o].phase /\ row.status = operation[o].status
  BY <1>3 DEF OperationRow
<1> HIDE DEF row
<1>5. RowsOK
  BY <1>3, <1>4, RowTouched DEF Inv, RowFacts
<1>6. CallsInv' /\ WorkersInv' /\ RowFacts' /\ AccountFacts'
  BY <1>1, <1>5, RowsGrow, RowsKeep, CallsKeep
<1>7. TypeOK'
  BY <1>1, <1>5 DEF Inv, TypeOK, world, RowsOK
<1>8. QED
  BY <1>6, <1>7 DEF Inv

LEMMA ReplayKeeps ==
    ASSUME Inv, NEW o \in Operation, ReplayRead(o) \/ ReplayWrite(o)
    PROVE  Inv'
<1>1. UNCHANGED <<call, revoked, account, editor, reopened, message, worker, receipts, edits, faults>>
      /\ replaying' \subseteq Operation /\ replays' \in 0..MaxReplays
  BY ClosureAssumption DEF ReplayRead, ReplayWrite, Inv, TypeOK
<1>2. RowsOK
  <2>1. CASE ReplayRead(o)
    BY <2>1, RowsUnchanged DEF ReplayRead
  <2>2. CASE ReplayWrite(o)
    <3> DEFINE row == [operation[o] EXCEPT !.status = "running", !.owner = Nobody, !.expired = FALSE]
    <3>1. operation[o] \in OperationRow /\ operation' = [operation EXCEPT ![o] = row]
      BY <2>2 DEF ReplayWrite, Inv, TypeOK
    <3>2. row \in OperationRow /\ row.phase = operation[o].phase /\ row.status = "running"
      BY <3>1 DEF OperationRow
    <3> HIDE DEF row
    <3>3. QED
      BY <3>1, <3>2, RowTouched
  <2>3. QED
    BY <2>1, <2>2
<1>3. WorldGrows
  BY <1>1, <1>2 DEF WorldGrows, RowsOK, Shut
<1>4. TypeOK'
  BY <1>1, <1>2 DEF Inv, TypeOK, RowsOK
<1>5. RowFacts' /\ AccountFacts' /\ WorkersInv'
  BY <1>1, <1>2 DEF Inv, RowFacts, AccountFacts, WorkersInv, RowsOK, Shut, Onward, Revoking
<1>6. QED
  BY <1>1, <1>3, <1>4, <1>5, CallsKeep DEF Inv

LEMMA EditKeeps == Inv /\ (EditRead \/ EditSave) => Inv'
<1> SUFFICES ASSUME Inv, EditRead \/ EditSave PROVE Inv'
  OBVIOUS
<1>1. UNCHANGED <<operation, call, revoked, message, worker, receipts, replaying, replays, faults>>
  BY DEF EditRead, EditSave
<1>2. TypeOK'
  <2>1. account' \in {"Active", "Closed"} /\ editor' \in {"idle", "Active", "Closed"}
    BY DEF EditRead, EditSave, Inv, TypeOK
  <2>2. reopened' \in BOOLEAN
    BY Zenon DEF EditRead, EditSave, Inv, TypeOK
  <2>3. edits' \in 0..MaxEdits
    BY ClosureAssumption DEF EditRead, EditSave, Inv, TypeOK
  <2>4. QED
    BY <1>1, <2>1, <2>2, <2>3 DEF Inv, TypeOK
<1>3. Shut => Shut'
  BY DEF EditRead, EditSave, Inv, TypeOK, Shut
<1>4. WorldGrows
  BY <1>1, <1>3 DEF WorldGrows, Onward
<1>5. RowFacts' /\ WorkersInv'
  BY <1>1, <1>3 DEF Inv, RowFacts, WorkersInv
<1>6. AccountFacts'
  BY <1>1 DEF Inv, AccountFacts, EditRead, EditSave, TypeOK
<1>7. QED
  BY <1>1, <1>2, <1>4, <1>5, <1>6, CallsKeep DEF Inv

----------------------------------------------------------------------------
(* The workers. *)

\* A worker goes to state s, having written the messages and the receipts.
LEMMA WorkerWrites ==
    ASSUME Inv, UNCHANGED delivery, faults' \in 0..MaxFaults,
           NEW w \in Worker, NEW s \in WorkerState, UpdateWorker(w, s),
           message' \in [Operation -> MessageRow],
           receipts' \in [Operation -> SUBSET (1..Consumers)],
           \A o \in Operation :
              /\ receipts[o] \subseteq receipts'[o]
              /\ message'[o].status = "absent" <=> message[o].status = "absent"
              /\ message'[o].status = "dispatched" => receipts'[o] = 1..Consumers,
           WorkerFacts(s, receipts')
    PROVE  Inv'
<1>1. worker' \in [Worker -> WorkerState] /\ \A v \in Worker : worker'[v] = IF v = w THEN s ELSE worker[v]
  BY DEF Inv, TypeOK, UpdateWorker
<1>2. TypeOK'
  BY <1>1 DEF Inv, TypeOK, delivery
<1>3. ASSUME NEW v \in Worker PROVE WorkerFacts(worker'[v], receipts')
  <2>1. CASE v = w
    BY <1>1, <2>1
  <2>2. CASE v # w
    <3>1. /\ worker'[v] = worker[v] /\ WorkerFacts(worker[v], receipts)
          /\ worker[v].op \subseteq Operation
      BY <1>1, <2>2 DEF Inv, TypeOK, WorkersInv, WorkerState
    <3>2. QED
      BY <3>1 DEF WorkerFacts
  <2>3. QED
    BY <2>1, <2>2
<1>4. WorkersInv'
  BY <1>3 DEF WorkersInv
<1>5. WorldGrows
  BY DEF delivery, WorldGrows, Onward, Shut
<1>6. RowFacts' /\ AccountFacts'
  BY DEF Inv, RowFacts, AccountFacts, delivery, Shut
<1>7. QED
  BY <1>2, <1>4, <1>5, <1>6, CallsKeep DEF delivery, Inv

LEMMA IdleOK == Idle \in WorkerState /\ Idle.op = {} /\ Idle.at = "idle" /\ Idle.next = 1
BY ClosureAssumption DEF Idle, WorkerState

LEMMA WorkerHas ==
    ASSUME Inv, NEW w \in Worker, NEW o \in worker[w].op
    PROVE  /\ worker[w] \in WorkerState /\ o \in Operation /\ worker[w].op = {o}
           /\ message[o] \in MessageRow /\ receipts[o] \subseteq 1..Consumers
           /\ worker[w].next \in 1..(Consumers + 1)
           /\ WorkerFacts(worker[w], receipts)
BY DEF Inv, TypeOK, WorkerState, WorkersInv, WorkerFacts

\* What stays true of the messages and receipts.
LEMMA MessagesKeep ==
    ASSUME Inv
    PROVE  /\ message \in [Operation -> MessageRow]
           /\ receipts \in [Operation -> SUBSET (1..Consumers)]
           /\ \A o \in Operation : message[o].status = "dispatched" => receipts[o] = 1..Consumers
BY DEF Inv, TypeOK, RowFacts

LEMMA TakeKeeps ==
    ASSUME Inv, NEW w \in Worker, NEW o \in Operation, Take(w, o)
    PROVE  Inv'
<1> DEFINE s == [Idle EXCEPT !.at = "looking", !.op = {o}]
<1>1. /\ s \in WorkerState /\ s.op = {o} /\ s.at = "looking" /\ s.next = 1 /\ UpdateWorker(w, s)
      /\ UNCHANGED <<delivery, receipts>> /\ faults' \in 0..MaxFaults
  <2>1. s \in WorkerState /\ s.op = {o} /\ s.at = "looking" /\ s.next = 1
    BY IdleOK DEF Idle, WorkerState
  <2>2. UpdateWorker(w, s) /\ UNCHANGED <<delivery, receipts>> /\ faults' \in 0..MaxFaults
    BY DEF Take, Inv, TypeOK
  <2>3. QED
    BY <2>1, <2>2
<1>2. message' \in [Operation -> MessageRow] /\ \A p \in Operation : message'[p].status = message[p].status
  BY DEF Take, Inv, TypeOK, MessageRow
<1> HIDE DEF s
<1>3. WorkerFacts(s, receipts')
  BY <1>1 DEF WorkerFacts
<1>4. QED
  BY <1>1, <1>2, <1>3, MessagesKeep, WorkerWrites

LEMMA LookKeeps ==
    ASSUME Inv, NEW w \in Worker, NEW o \in Operation, Look(w, o)
    PROVE  Inv'
<1>1. /\ o \in worker[w].op /\ worker[w].at = "looking" /\ worker[w].next <= Consumers
      /\ UNCHANGED <<delivery, receipts, message>> /\ faults' \in 0..MaxFaults
  BY DEF Look, Inv, TypeOK
<1>2. /\ worker[w] \in WorkerState /\ worker[w].op = {o} /\ worker[w].next \in 1..(Consumers + 1)
      /\ WorkerFacts(worker[w], receipts)
  BY <1>1, WorkerHas
<1>3. CASE worker[w].next \in receipts[o]
  <2> DEFINE s == [worker[w] EXCEPT !.next = @ + 1]
  <2>1. worker[w].next + 1 \in 1..(Consumers + 1)
    BY <1>1, <1>2, ClosureAssumption
  <2>2. /\ s \in WorkerState /\ s.op = {o} /\ s.at = "looking" /\ s.next = worker[w].next + 1
        /\ UpdateWorker(w, s)
    BY <1>1, <1>2, <1>3, <2>1 DEF Look, WorkerState
  <2> HIDE DEF s
  <2>3. WorkerFacts(s, receipts')
    BY <1>1, <1>2, <1>3, <2>2 DEF WorkerFacts
  <2>4. QED
    BY <1>1, <2>2, <2>3, MessagesKeep, WorkerWrites
<1>4. CASE worker[w].next \notin receipts[o]
  <2> DEFINE s == [worker[w] EXCEPT !.at = "handling"]
  <2>1. /\ s \in WorkerState /\ s.op = {o} /\ s.at = "handling" /\ s.next = worker[w].next
        /\ UpdateWorker(w, s)
    BY <1>2, <1>4 DEF Look, WorkerState
  <2> HIDE DEF s
  <2>2. WorkerFacts(s, receipts')
    BY <1>1, <1>2, <2>1 DEF WorkerFacts
  <2>3. QED
    BY <1>1, <2>1, <2>2, MessagesKeep, WorkerWrites
<1>5. QED
  BY <1>3, <1>4

LEMMA HandleKeeps ==
    ASSUME Inv, NEW w \in Worker, NEW o \in Operation, Handle(w, o)
    PROVE  Inv'
<1>1. /\ o \in worker[w].op /\ worker[w].at = "handling"
      /\ UNCHANGED <<delivery, message>> /\ faults' \in 0..MaxFaults
  BY DEF Handle, Inv, TypeOK
<1>2. /\ worker[w] \in WorkerState /\ worker[w].op = {o} /\ worker[w].next \in 1..(Consumers + 1)
      /\ WorkerFacts(worker[w], receipts)
  BY <1>1, WorkerHas
<1>3. CASE worker[w].next \in receipts[o]
  <2> DEFINE s == [worker[w] EXCEPT !.at = "releasing"]
  <2>1. s \in WorkerState /\ s.op = {o} /\ s.at = "releasing" /\ UpdateWorker(w, s) /\ UNCHANGED receipts
    BY <1>2, <1>3 DEF Handle, WorkerState
  <2> HIDE DEF s
  <2>2. WorkerFacts(s, receipts')
    BY <2>1 DEF WorkerFacts
  <2>3. QED
    BY <1>1, <2>1, <2>2, MessagesKeep, WorkerWrites
<1>4. CASE worker[w].next \notin receipts[o]
  <2> DEFINE s == [worker[w] EXCEPT !.at = "looking", !.next = @ + 1]
  <2>1. worker[w].next \in 1..Consumers /\ worker[w].next + 1 \in 1..(Consumers + 1)
    BY <1>1, <1>2, ClosureAssumption DEF WorkerFacts
  <2>2. /\ s \in WorkerState /\ s.op = {o} /\ s.at = "looking" /\ s.next = worker[w].next + 1
        /\ UpdateWorker(w, s)
    BY <1>2, <1>4, <2>1 DEF Handle, WorkerState
  <2>3. receipts' = [receipts EXCEPT ![o] = @ \cup {worker[w].next}]
    BY <1>4 DEF Handle
  <2> HIDE DEF s
  <2>4. \A p \in Operation : receipts'[p] = IF p = o THEN receipts[o] \cup {worker[w].next} ELSE receipts[p]
    BY <2>3 DEF Inv, TypeOK
  <2>5. receipts' \in [Operation -> SUBSET (1..Consumers)]
    BY <2>1, <2>3 DEF Inv, TypeOK
  <2>6. WorkerFacts(s, receipts')
    BY <1>1, <1>2, <2>1, <2>2, <2>4 DEF WorkerFacts
  <2>7. \A p \in Operation : receipts[p] \subseteq receipts'[p] /\ receipts'[p] \subseteq 1..Consumers
    BY <2>4, <2>5
  <2>8. \A p \in Operation : message[p].status = "dispatched" => receipts'[p] = 1..Consumers
    BY <2>7, MessagesKeep
  <2>9. QED
    BY <1>1, <2>2, <2>5, <2>6, <2>7, <2>8, MessagesKeep, WorkerWrites
<1>5. QED
  BY <1>3, <1>4

\* Dispatched, released, or given up by a failure.
LEMMA WorkerEndsKeep ==
    ASSUME Inv, NEW w \in Worker, NEW o \in Operation, Dispatch(w, o) \/ Release(w, o)
    PROVE  Inv'
<1>1. /\ o \in worker[w].op /\ UNCHANGED <<delivery, receipts>> /\ faults' \in 0..MaxFaults
      /\ UpdateWorker(w, Idle)
  BY DEF Dispatch, Release, Inv, TypeOK
<1>2. message[o] \in MessageRow /\ worker[w].next \in 1..(Consumers + 1) /\ receipts[o] \subseteq 1..Consumers
      /\ WorkerFacts(worker[w], receipts)
  BY <1>1, WorkerHas
<1>3. ASSUME Dispatch(w, o) PROVE receipts[o] = 1..Consumers
  <2>1. worker[w].at = "looking" /\ worker[w].next > Consumers
    BY <1>3 DEF Dispatch
  <2>2. \A n \in 1..Consumers : n < worker[w].next
    BY <1>2, <2>1, ClosureAssumption
  <2>3. \A n \in 1..Consumers : n \in receipts[o]
    BY <1>1, <1>2, <2>1, <2>2 DEF WorkerFacts
  <2>4. QED
    BY <1>2, <2>3
<1>4. /\ message' \in [Operation -> MessageRow]
      /\ \A p \in Operation :
            \/ message'[p] = message[p]
            \/ /\ message[p].status = "pending"
               /\ \/ message'[p].status = "pending"
                  \/ message'[p].status = "dispatched" /\ receipts[p] = 1..Consumers
  <2>1. PICK row \in MessageRow :
           /\ \/ row.status = "pending"
              \/ row.status = "dispatched" /\ receipts[o] = 1..Consumers
           /\ \/ UNCHANGED message
              \/ message[o].status = "pending" /\ message' = [message EXCEPT ![o] = row]
    <3>1. CASE Release(w, o)
      <4>1. Released(o) \in MessageRow /\ Released(o).status = "pending"
        BY DEF Released, MessageRow
      <4>2. QED
        BY <3>1, <4>1 DEF Release, Owns
    <3>2. CASE Dispatch(w, o)
      <4> DEFINE row == [status |-> "dispatched", owner |-> Nobody, expired |-> FALSE]
      <4>1. row \in MessageRow /\ row.status = "dispatched"
        BY DEF MessageRow
      <4>2. UNCHANGED message \/ (message[o].status = "pending" /\ message' = [message EXCEPT ![o] = row])
        BY <3>2 DEF Dispatch, Owns
      <4> HIDE DEF row
      <4>3. QED
        BY <1>3, <3>2, <4>1, <4>2
    <3>3. QED
      BY <3>1, <3>2
  <2>2. QED
    BY <2>1 DEF Inv, TypeOK
<1>5. WorkerFacts(Idle, receipts')
  BY IdleOK DEF WorkerFacts
<1>6. QED
  BY <1>1, <1>4, <1>5, IdleOK, MessagesKeep, WorkerWrites

LEMMA WorkerFailsKeeps ==
    ASSUME Inv, NEW w \in Worker, WorkerDies(w) \/ \E o \in Operation : ConsumerFails(w, o)
    PROVE  Inv'
<1>1. UNCHANGED <<delivery, message, receipts>> /\ faults' \in 0..MaxFaults
  BY FaultBound DEF WorkerDies, ConsumerFails
<1> DEFINE s == [worker[w] EXCEPT !.at = "releasing"]
<1>2. worker[w] \in WorkerState /\ WorkerFacts(worker[w], receipts)
  BY DEF Inv, TypeOK, WorkersInv
<1>3. s \in WorkerState /\ s.op = worker[w].op /\ s.at = "releasing"
  BY <1>2 DEF WorkerState
<1>4. UpdateWorker(w, s) \/ UpdateWorker(w, Idle)
  BY DEF WorkerDies, ConsumerFails
<1> HIDE DEF s
<1>5. WorkerFacts(s, receipts') /\ WorkerFacts(Idle, receipts')
  BY <1>2, <1>3, IdleOK DEF WorkerFacts
<1>6. QED
  BY <1>1, <1>3, <1>4, <1>5, IdleOK, MessagesKeep, WorkerWrites

LEMMA MessageLeaseKeeps ==
    ASSUME Inv, NEW o \in Operation, MessageRunsOut(o) \/ MessageLapses(o)
    PROVE  Inv'
<1>1. UNCHANGED <<delivery, worker, receipts>> /\ faults' \in 0..MaxFaults
  BY FaultBound DEF MessageRunsOut, MessageLapses, Inv, TypeOK
<1>2. message' \in [Operation -> MessageRow] /\ \A p \in Operation : message'[p].status = message[p].status
  <2> DEFINE row == [message[o] EXCEPT !.expired = TRUE]
  <2>1. message \in [Operation -> MessageRow] /\ message[o] \in MessageRow
    BY DEF Inv, TypeOK
  <2>2. message' = [message EXCEPT ![o] = row]
    BY <2>1 DEF MessageRunsOut, MessageLapses
  <2>3. row \in MessageRow /\ row.status = message[o].status
    BY <2>1 DEF MessageRow
  <2> HIDE DEF row
  <2>4. QED
    BY <2>1, <2>2, <2>3
<1>3. TypeOK'
  BY <1>1, <1>2 DEF Inv, TypeOK, delivery
<1>4. WorldGrows
  BY <1>1, <1>2 DEF delivery, WorldGrows, Onward, Shut
<1>5. RowFacts' /\ AccountFacts' /\ WorkersInv'
  BY <1>1, <1>2 DEF Inv, RowFacts, AccountFacts, WorkersInv, delivery, Shut
<1>6. QED
  BY <1>1, <1>3, <1>4, <1>5, CallsKeep DEF Inv, delivery

----------------------------------------------------------------------------
(* The theorems. *)

LEMMA InvInit == Init => Inv
<1> SUFFICES ASSUME Init PROVE Inv
  OBVIOUS
<1>1. TypeOK
  <2>1. operation \in [Operation -> OperationRow]
    BY DEF Init, OperationRow, NoOperation
  <2>2. message \in [Operation -> MessageRow]
    BY DEF Init, MessageRow
  <2>3. call \in [Call -> CallState] /\ worker \in [Worker -> WorkerState]
    BY NewCallState, IdleOK DEF Init
  <2>4. 0 \in 0..MaxReplays /\ 0 \in 0..MaxEdits /\ 0 \in 0..MaxFaults
    BY ClosureAssumption
  <2>5. QED
    BY <2>1, <2>2, <2>3, <2>4 DEF Init, TypeOK
<1>2. CallsInv
  BY DEF Init, CallsInv, CallFacts, NewCall
<1>3. WorkersInv
  BY IdleOK DEF Init, WorkersInv, WorkerFacts
<1>4. RowFacts /\ AccountFacts
  BY DEF Init, RowFacts, AccountFacts, NoOperation
<1>5. QED
  BY <1>1, <1>2, <1>3, <1>4 DEF Inv

LEMMA InvNext == Inv /\ [Next]_vars => Inv'
<1> SUFFICES ASSUME Inv, [Next]_vars PROVE Inv'
  OBVIOUS
<1>1. ASSUME NEW c \in Call, NEW o \in Operation, CallStep(c, o) PROVE Inv'
  BY <1>1, FindKeeps, CreateKeeps, ClaimKeeps, PhaseStepsKeep, BeforeKeeps, EffectsKeep, SucceedKeeps,
     StepFailsKeeps, MarkFailedKeeps, LeaseKeeps DEF CallStep
<1>2. ASSUME NEW w \in Worker, NEW o \in Operation, WorkerStep(w, o) \/ ConsumerFails(w, o) PROVE Inv'
  BY <1>2, TakeKeeps, LookKeeps, HandleKeeps, WorkerEndsKeep, WorkerFailsKeeps DEF WorkerStep
<1>3. CASE UNCHANGED vars
  BY <1>3 DEF vars, Inv, TypeOK, CallsInv, Shut, WorkersInv, RowFacts, AccountFacts
<1>4. QED
  BY <1>1, <1>2, <1>3, DiesKeeps, LeaseKeeps, ReplayKeeps, EditKeeps, WorkerFailsKeeps,
     MessageLeaseKeeps DEF Next

LEMMA Invariant == Spec => []Inv
BY InvInit, InvNext, PTL DEF Spec

\* The rows, calls and workers keep the shapes the code gives them: no phase
\* is reached that is not one, no consumer called beyond the last (TypeOK).
THEOREM TypeCorrect == Spec => []TypeOK
<1>1. Inv => TypeOK
  BY DEF Inv
<1>2. QED
  BY <1>1, Invariant, PTL

\* For any number of calls of execute that take an operation over from one
\* another with phases they read before, of replays, edits, workers and
\* consumers: the phase is true, nothing is done or reported ahead of its turn,
\* and a message is dispatched only when every consumer has its receipt
\* (ClosureInOrder).
THEOREM ClosureStaysInOrder == Spec => []ClosureInOrder
<1>1. ASSUME Inv PROVE ClosureInOrder
  <2>1. RevokedByPhase
    BY <1>1 DEF Inv, AccountFacts, RevokedByPhase
  <2>2. PhaseIsTrue
    BY <1>1 DEF Inv, RowFacts, Shut, PhaseIsTrue
  <2>3. NothingEarly
    BY <1>1 DEF Inv, AccountFacts, RowFacts, CallsInv, CallFacts, NothingEarly
  <2>4. DispatchedToAll
    BY <1>1 DEF Inv, RowFacts, DispatchedToAll
  <2>5. QED
    BY <2>1, <2>2, <2>3, <2>4 DEF ClosureInOrder
<1>2. Inv => ClosureInOrder
  BY <1>1
<1>3. QED
  BY <1>2, Invariant, PTL
----------------------------------------------------------------------------
(* The contract: what the owner and the consumers see of a step. *)

Phases == [o \in Operation |-> operation[o].phase]
AccountView == IF account = "Closed" THEN "closed" ELSE IF reopened THEN "reopened" ELSE "open"
Told == {o \in Operation : message[o].status # "absent"}
Confirmed == {o \in Operation : \E c \in Call : call[c].at = "reported" /\ o \in call[c].op}
Finished == {o \in Operation : message[o].status = "dispatched"}

\* The account only an edit can close is one that was closed when it was read.
EditorSeesClosed == editor = "Closed" => account = "Closed"

LEMMA EditorInit == Init => EditorSeesClosed
BY DEF Init, EditorSeesClosed

LEMMA EditorNext == EditorSeesClosed /\ [Next]_vars => EditorSeesClosed'
<1> SUFFICES ASSUME EditorSeesClosed, [Next]_vars PROVE EditorSeesClosed'
  OBVIOUS
<1>1. CASE UNCHANGED <<account, editor>>
  BY <1>1 DEF EditorSeesClosed
<1>2. CASE EditRead \/ EditSave
  BY <1>2 DEF EditRead, EditSave, EditorSeesClosed
<1>3. ASSUME NEW c \in Call, NEW o \in Operation, CallStep(c, o) PROVE EditorSeesClosed'
  <2>1. CASE CloseAccount(c, o)
    BY <2>1 DEF CloseAccount, EditorSeesClosed
  <2>2. CASE UNCHANGED <<account, editor>>
    BY <1>1, <2>2
  <2>3. QED
    BY <1>3, <2>1, <2>2 DEF CallStep, world, Find, Create, FindCompetitor, Claim, Begin, BeforeRevoking,
       Revoke, MarkRevoked, StartClosing, BeforeClosing, MarkClosed, Publish, Succeed, StepFails,
       MarkFailed, Renew
<1>4. ASSUME NEW w \in Worker, NEW o \in Operation, WorkerStep(w, o) \/ ConsumerFails(w, o)
      PROVE  EditorSeesClosed'
  BY <1>1, <1>4 DEF WorkerStep, delivery, Take, Look, Handle, Dispatch, Release, ConsumerFails
<1>5. ASSUME NEW c \in Call, Dies(c) PROVE EditorSeesClosed'
  BY <1>1, <1>5 DEF Dies, world
<1>6. ASSUME NEW o \in Operation,
             LeaseRunsOut(o) \/ LeaseLapses(o) \/ ReplayRead(o) \/ ReplayWrite(o)
             \/ MessageRunsOut(o) \/ MessageLapses(o)
      PROVE  EditorSeesClosed'
  BY <1>1, <1>6 DEF LeaseRunsOut, LeaseLapses, ReplayRead, ReplayWrite, MessageRunsOut, MessageLapses,
     world, delivery
<1>7. ASSUME NEW w \in Worker, WorkerDies(w) PROVE EditorSeesClosed'
  BY <1>1, <1>7 DEF WorkerDies, delivery
<1>8. CASE UNCHANGED vars
  BY <1>1, <1>8 DEF vars
<1>9. QED
  BY <1>2, <1>3, <1>4, <1>5, <1>6, <1>7, <1>8 DEF Next

\* A worker's message is there, for no step takes a message away.
WorkersTold == \A w \in Worker : \A o \in worker[w].op : message[o].status # "absent"

LEMMA WorkersToldInit == Init => WorkersTold
BY IdleOK DEF Init, WorkersTold

LEMMA ToldStays ==
    ASSUME Inv, WorkersTold, NEW o \in Operation, NEW row, row.status # "absent",
           message' = message \/ message' = [message EXCEPT ![o] = row]
    PROVE  \A p \in Operation : message[p].status # "absent" => message'[p].status # "absent"
BY DEF Inv, TypeOK

\* A worker's step keeps its message, takes one that is there, or none.
LEMMA WorkerStaysTold ==
    ASSUME Inv, WorkersTold, NEW w \in Worker, NEW s, UpdateWorker(w, s),
           \A p \in Operation : message[p].status # "absent" => message'[p].status # "absent",
           \A p \in s.op : p \in worker[w].op \/ message'[p].status # "absent"
    PROVE  WorkersTold'
<1>1. \A v \in Worker : worker'[v] = IF v = w THEN s ELSE worker[v]
  BY DEF Inv, TypeOK, UpdateWorker
<1>2. \A v \in Worker : worker[v].op \subseteq Operation
  BY DEF Inv, TypeOK, WorkerState
<1>3. QED
  BY <1>1, <1>2 DEF WorkersTold

LEMMA WorkersToldNext == Inv /\ WorkersTold /\ [Next]_vars => WorkersTold'
<1> SUFFICES ASSUME Inv, WorkersTold, [Next]_vars PROVE WorkersTold'
  OBVIOUS
<1>0. \A v \in Worker : worker[v] \in WorkerState /\ worker[v].op \subseteq Operation
  BY DEF Inv, TypeOK, WorkerState
<1>1. CASE UNCHANGED <<worker, message>>
  BY <1>1 DEF WorkersTold
<1>2. ASSUME UNCHANGED worker,
             \A p \in Operation : message[p].status # "absent" => message'[p].status # "absent"
      PROVE  WorkersTold'
  BY <1>0, <1>2 DEF WorkersTold
<1>3. ASSUME NEW c \in Call, NEW o \in Operation, CallStep(c, o) PROVE WorkersTold'
  <2>1. CASE Publish(c, o)
    <3>1. /\ UNCHANGED worker
          /\ message' = IF message[o].status = "absent" THEN [message EXCEPT ![o].status = "pending"]
                        ELSE message
      BY <2>1 DEF Publish
    <3>2. \A p \in Operation : message[p].status # "absent" => message'[p].status # "absent"
      BY <3>1 DEF Inv, TypeOK
    <3>3. QED
      BY <1>2, <3>1, <3>2
  <2>2. CASE UNCHANGED <<worker, message>>
    BY <1>1, <2>2
  <2>3. QED
    BY <1>3, <2>1, <2>2 DEF CallStep, world, Find, Create, FindCompetitor, Claim, Begin, BeforeRevoking,
       Revoke, MarkRevoked, StartClosing, BeforeClosing, CloseAccount, MarkClosed, Succeed, StepFails,
       MarkFailed, Renew
<1>4. ASSUME NEW o \in Operation, MessageRunsOut(o) \/ MessageLapses(o) PROVE WorkersTold'
  <2>1. UNCHANGED worker /\ message' = [message EXCEPT ![o].expired = TRUE]
    BY <1>4 DEF MessageRunsOut, MessageLapses
  <2>2. \A p \in Operation : message[p].status # "absent" => message'[p].status # "absent"
    BY <2>1 DEF Inv, TypeOK, MessageRow
  <2>3. QED
    BY <1>2, <2>1, <2>2
<1>5. ASSUME NEW w \in Worker, NEW o \in Operation, Take(w, o) PROVE WorkersTold'
  <2> DEFINE s == [Idle EXCEPT !.at = "looking", !.op = {o}]
             row == [message[o] EXCEPT !.owner = w, !.expired = FALSE]
  <2>1. UpdateWorker(w, s) /\ message' = [message EXCEPT ![o] = row] /\ message[o].status = "pending"
    BY <1>5 DEF Take, Takeable
  <2>2. s.op = {o} /\ row.status = "pending"
    BY <2>1 DEF Idle, Inv, TypeOK, MessageRow
  <2>3. message'[o] = row
    BY <2>1 DEF Inv, TypeOK
  <2> HIDE DEF s, row
  <2>4. \A p \in Operation : message[p].status # "absent" => message'[p].status # "absent"
    BY <2>1, <2>2, ToldStays
  <2>5. QED
    BY <2>1, <2>2, <2>3, <2>4, WorkerStaysTold
<1>6. ASSUME NEW w \in Worker, NEW o \in Operation,
             Look(w, o) \/ Handle(w, o) \/ ConsumerFails(w, o)
      PROVE  WorkersTold'
  <2>1. UNCHANGED message
    BY <1>6 DEF Look, Handle, ConsumerFails
  <2>2. PICK s : UpdateWorker(w, s) /\ s.op = worker[w].op
    <3>1. \/ \E at : UpdateWorker(w, [worker[w] EXCEPT !.at = at])
          \/ UpdateWorker(w, [worker[w] EXCEPT !.next = @ + 1])
          \/ \E at : UpdateWorker(w, [worker[w] EXCEPT !.at = at, !.next = @ + 1])
      BY <1>6 DEF Look, Handle, ConsumerFails
    <3>2. /\ [worker[w] EXCEPT !.next = @ + 1].op = worker[w].op
          /\ \A at : /\ [worker[w] EXCEPT !.at = at].op = worker[w].op
                    /\ [worker[w] EXCEPT !.at = at, !.next = @ + 1].op = worker[w].op
      BY <1>0 DEF WorkerState
    <3>3. QED
      BY <3>1, <3>2
  <2>3. QED
    BY <2>1, <2>2, WorkerStaysTold
<1>7. ASSUME NEW w \in Worker, NEW o \in Operation, Dispatch(w, o) \/ Release(w, o)
      PROVE  WorkersTold'
  <2>1. UpdateWorker(w, Idle)
    BY <1>7 DEF Dispatch, Release
  <2>2. \E row : row.status # "absent" /\ (message' = message \/ message' = [message EXCEPT ![o] = row])
    <3> DEFINE sent == [status |-> "dispatched", owner |-> Nobody, expired |-> FALSE]
    <3>1. sent.status # "absent" /\ Released(o).status # "absent"
      BY DEF Released
    <3>2. \/ message' = message
          \/ message' = [message EXCEPT ![o] = sent]
          \/ message' = [message EXCEPT ![o] = Released(o)]
      BY <1>7 DEF Dispatch, Release
    <3> HIDE DEF sent
    <3>3. QED
      BY <3>1, <3>2
  <2>3. \A p \in Operation : message[p].status # "absent" => message'[p].status # "absent"
    BY <2>2, ToldStays
  <2>4. QED
    BY <2>1, <2>3, IdleOK, WorkerStaysTold
<1>8. ASSUME NEW w \in Worker, WorkerDies(w) PROVE WorkersTold'
  <2>1. UpdateWorker(w, Idle) /\ UNCHANGED message
    BY <1>8 DEF WorkerDies
  <2>2. QED
    BY <2>1, IdleOK, WorkerStaysTold
<1>9. CASE \/ \E c \in Call : Dies(c)
           \/ \E o \in Operation : LeaseRunsOut(o) \/ LeaseLapses(o) \/ ReplayRead(o) \/ ReplayWrite(o)
           \/ EditRead \/ EditSave
           \/ UNCHANGED vars
  <2>1. UNCHANGED <<worker, message>>
    BY <1>9 DEF Dies, LeaseRunsOut, LeaseLapses, ReplayRead, ReplayWrite, EditRead, EditSave, world, vars
  <2>2. QED
    BY <1>1, <2>1
<1>10. QED
  BY <1>3, <1>4, <1>5, <1>6, <1>7, <1>8, <1>9 DEF Next, WorkerStep

\* A step nobody sees.
Unseen == UNCHANGED <<Phases, revoked, AccountView, Told, Confirmed, receipts, Finished>>

LEMMA UnseenStutters == Unseen => UNCHANGED Contract!contractVars
BY DEF Unseen, Contract!contractVars, Phases, AccountView, Told, Confirmed, Finished

\* The calls that report are those that did, and c if it does now.
LEMMA ConfirmedBy ==
    ASSUME Inv, Inv', NEW c \in Call, NEW s, Update(c, s), call[c].at # "reported"
    PROVE  /\ Confirmed \subseteq Confirmed'
           /\ \A o \in Confirmed' : o \in Confirmed \/ (s.at = "reported" /\ o \in s.op)
<1>1. \A b \in Call : call'[b] = IF b = c THEN s ELSE call[b]
  BY DEF Inv, TypeOK, Update
<1>2. QED
  BY <1>1 DEF Confirmed

\* A call that moves an operation on takes a step of the contract.
LEMMA MoveAdvances ==
    ASSUME Inv, Inv', UNCHANGED world, UNCHANGED Confirmed, NEW o \in Operation,
           \A p \in Operation : p # o => operation'[p].phase = operation[p].phase,
           Onward(operation[o].phase, operation'[o].phase)
    PROVE  [Contract!ContractNext]_(Contract!contractVars)
<1>1. UNCHANGED <<revoked, AccountView, Told, receipts, Finished>>
  BY DEF world, AccountView, Told, Finished
<1>2. Phases' = [Phases EXCEPT ![o] = operation'[o].phase]
  BY DEF Phases
<1>3. operation'[o].phase \in {"revoked", "closing", "closed"} => revoked
  BY DEF Inv, RowFacts, world
<1>4. operation'[o].phase = "closed" => AccountView # "open"
  BY DEF Inv, RowFacts, world, Shut, AccountView
<1>5. CASE operation'[o].phase = operation[o].phase
  <2>1. Phases' = Phases
    BY <1>5 DEF Phases
  <2>2. QED
    BY <1>1, <2>1, UnseenStutters DEF Unseen
<1>6. CASE operation'[o].phase # operation[o].phase
  <2>1. /\ Phases[o] = operation[o].phase
        /\ UNCHANGED <<revoked, AccountView, Told, Confirmed, receipts, Finished>>
    BY <1>1 DEF Phases
  <2> DEFINE Moves(from, to) == operation[o].phase = from /\ operation'[o].phase = to
  <2>2. \/ Moves("absent", "requested") \/ Moves("requested", "revoking")
        \/ Moves("revoking", "revoked") \/ Moves("revoked", "closing") \/ Moves("closing", "closed")
    BY <1>6 DEF Onward
  <2>3. ASSUME NEW from, NEW to, Moves(from, to) PROVE Contract!Move(o, from, to)
    BY <1>2, <1>3, <1>4, <2>1, <2>3
    DEF Contract!Move, Phases, AccountView, Told, Confirmed, Finished
  <2>4. Contract!Advance(o)
    BY <2>2, <2>3 DEF Contract!Advance
  <2>5. QED
    BY <2>4 DEF Contract!ContractNext
<1>7. QED
  BY <1>5, <1>6

\* A call that changes no phase may confirm its operation.
LEMMA ReportConfirms ==
    ASSUME Inv, Inv', UNCHANGED world, NEW c \in Call, NEW o \in Operation, NEW s, Update(c, s),
           call[c].at # "reported", s.op = {o},
           \A p \in Operation : operation'[p].phase = operation[p].phase
    PROVE  [Contract!ContractNext]_(Contract!contractVars)
<1>1. UNCHANGED <<Phases, revoked, AccountView, Told, receipts, Finished>>
  BY DEF world, Phases, AccountView, Told, Finished
<1>2. call'[c] = s
  BY DEF Inv, TypeOK, Update
<1>3. CASE s.at = "reported"
  <2>1. o \in Told
    <3>1. message'[o].status # "absent"
      BY <1>2, <1>3 DEF Inv, CallsInv, CallFacts
    <3>2. QED
      BY <1>2, <3>1 DEF world, Told
  <2>2. Confirmed' = Confirmed \cup {o}
    <3>1. o \in Confirmed'
      BY <1>2, <1>3 DEF Confirmed
    <3>2. QED
      BY <3>1, ConfirmedBy
  <2>3. CASE o \in Confirmed
    <3>1. Confirmed' = Confirmed
      BY <2>2, <2>3
    <3>2. QED
      BY <1>1, <3>1, UnseenStutters DEF Unseen
  <2>4. CASE o \notin Confirmed
    <3>1. Contract!Confirm(o)
      BY <1>1, <2>1, <2>2, <2>4
      DEF Contract!Confirm, Phases, AccountView, Told, Confirmed, Finished
    <3>2. QED
      BY <1>2, <3>1 DEF Contract!ContractNext
  <2>5. QED
    BY <2>3, <2>4
<1>4. CASE s.at # "reported"
  <2>1. Confirmed' = Confirmed
    BY <1>4, ConfirmedBy
  <2>2. QED
    BY <1>1, <2>1, UnseenStutters DEF Unseen
<1>5. QED
  BY <1>3, <1>4

\* Calls that leave, go on or find an operation confirm it at most.
LEMMA LeaveConfirms ==
    ASSUME Inv, Inv', UNCHANGED world, NEW c \in Call, NEW o \in call[c].op, NEW at, Leave(c, at),
           call[c].at # "reported", \A p \in Operation : operation'[p].phase = operation[p].phase
    PROVE  [Contract!ContractNext]_(Contract!contractVars)
<1>1. Update(c, Left(c, at)) /\ call[c].op = {o} /\ o \in Operation
  BY CallHas DEF Leave, Left
<1>2. Left(c, at).op = {o}
  BY <1>1 DEF Left, NewCall
<1> HIDE DEF Left
<1>3. QED
  BY <1>1, <1>2, ReportConfirms

LEMMA ReturnConfirms ==
    ASSUME Inv, Inv', UNCHANGED world, NEW c \in Call, NEW o \in call[c].op, Return(c, o),
           call[c].at # "reported", \A p \in Operation : operation'[p].phase = operation[p].phase
    PROVE  [Contract!ContractNext]_(Contract!contractVars)
<1>1. PICK at : Leave(c, at)
  BY DEF Return
<1>2. QED
  BY <1>1, LeaveConfirms

LEMMA GotoUnseen ==
    ASSUME Inv, Inv', UNCHANGED world, NEW c \in Call, NEW o \in call[c].op,
           NEW at \in {"working", "revoke", "revoked", "close", "closed", "published", "failing",
                       "competing"},
           Goto(c, at), call[c].at # "reported",
           \A p \in Operation : operation'[p].phase = operation[p].phase
    PROVE  [Contract!ContractNext]_(Contract!contractVars)
<1>1. Update(c, Gone(c, at)) /\ Gone(c, at).op = {o} /\ o \in Operation
  BY CallHas, GoneState DEF Goto, Gone
<1>2. QED
  BY <1>1, ReportConfirms

LEMMA FoundConfirms ==
    ASSUME Inv, Inv', UNCHANGED <<operation, world>>, NEW c \in Call, NEW o \in Operation,
           NEW expected, Found(c, o, expected), call[c].at # "reported"
    PROVE  [Contract!ContractNext]_(Contract!contractVars)
<1>1. call[c] \in CallState
  BY DEF Inv, TypeOK
<1>2. \A p \in Operation : operation'[p].phase = operation[p].phase
  OBVIOUS
<1>3. CASE operation[o].status = "succeeded"
  <2> DEFINE s == [call[c] EXCEPT !.at = "reported", !.op = {o}]
  <2>1. Update(c, s) /\ s.op = {o}
    BY <1>1, <1>3 DEF Found, CallState
  <2> HIDE DEF s
  <2>2. QED
    BY <1>2, <2>1, ReportConfirms
<1>4. CASE operation[o].status # "succeeded"
  <2> DEFINE s == [at |-> "claiming", op |-> {o}, phase |-> operation[o].phase, expected |-> expected]
  <2>1. Update(c, s) /\ s.op = {o}
    BY <1>4 DEF Found
  <2> HIDE DEF s
  <2>2. QED
    BY <1>2, <2>1, ReportConfirms
<1>5. QED
  BY <1>3, <1>4

LEMMA ClaimingRefines ==
    ASSUME Inv, Inv', NEW c \in Call, NEW o \in Operation,
           Find(c, o) \/ Create(c, o) \/ FindCompetitor(c, o) \/ Claim(c, o)
    PROVE  [Contract!ContractNext]_(Contract!contractVars)
<1>0. UNCHANGED world
  BY DEF Find, Create, FindCompetitor, Claim
<1>1. CASE Find(c, o)
  <2>1. CASE operation[o].phase = "absent"
    <3>1. Update(c, [NewCall EXCEPT !.at = "creating", !.op = {o}]) /\ UNCHANGED operation
      BY <1>1, <2>1 DEF Find
    <3>2. [NewCall EXCEPT !.at = "creating", !.op = {o}].op = {o}
      BY DEF NewCall
    <3>3. \A p \in Operation : operation'[p].phase = operation[p].phase
      BY <3>1
    <3>4. call[c].at # "reported"
      BY <1>1 DEF Find
    <3>5. QED
      BY <1>0, <3>1, <3>2, <3>3, <3>4, ReportConfirms
  <2>2. CASE operation[o].phase # "absent"
    BY <1>0, <1>1, <2>2, FoundConfirms DEF Find
  <2>3. QED
    BY <2>1, <2>2
<1>2. CASE FindCompetitor(c, o)
  BY <1>0, <1>2, FoundConfirms DEF FindCompetitor
<1>3. CASE Create(c, o)
  <2>1. call[c].at = "creating" /\ o \in call[c].op
    BY <1>3 DEF Create
  <2>2. CASE operation[o].phase = "absent"
    <3>1. /\ operation' = [operation EXCEPT ![o].phase = "requested", ![o].owner = c]
          /\ Update(c, Gone(c, "working"))
      BY <1>3, <2>2 DEF Create, Goto, Gone
    <3>2. /\ \A p \in Operation : p # o => operation'[p].phase = operation[p].phase
          /\ operation'[o].phase = "requested"
      BY <3>1 DEF Inv, TypeOK, OperationRow
    <3>3. Gone(c, "working").at = "working"
      BY <2>1, GoneState
    <3>4. Confirmed' = Confirmed
      BY <2>1, <3>1, <3>3, ConfirmedBy
    <3>5. QED
      BY <1>0, <2>2, <3>2, <3>4, MoveAdvances DEF Onward
  <2>3. CASE operation[o].phase # "absent"
    BY <1>0, <1>3, <2>1, <2>3, GotoUnseen DEF Create
  <2>4. QED
    BY <2>2, <2>3
<1>4. CASE Claim(c, o)
  <2>1. call[c].at = "claiming" /\ o \in call[c].op
    BY <1>4 DEF Claim
  <2>2. CASE MayClaim(c, o, call[c].expected)
    <3> DEFINE s == [call[c] EXCEPT !.at = "working", !.expected = "any"]
    <3>1. Claimed(c, o) /\ Update(c, s)
      BY <1>4, <2>2 DEF Claim
    <3>2. \A p \in Operation : operation'[p].phase = operation[p].phase
      BY <3>1 DEF Claimed, Inv, TypeOK, OperationRow
    <3>3. s.op = {o}
      BY <2>1, CallHas DEF CallState
    <3> HIDE DEF s
    <3>4. QED
      BY <1>0, <2>1, <3>1, <3>2, <3>3, ReportConfirms
  <2>3. CASE ~MayClaim(c, o, call[c].expected)
    <3>1. Return(c, o) /\ UNCHANGED operation
      BY <1>4, <2>3 DEF Claim
    <3>2. QED
      BY <1>0, <2>1, <3>1, ReturnConfirms
  <2>4. QED
    BY <2>2, <2>3
<1>5. QED
  BY <1>1, <1>2, <1>3, <1>4

\* A compare-and-set of the phase.
LEMMA AdvanceRefines ==
    ASSUME Inv, Inv', UNCHANGED world, NEW c \in Call, NEW o \in call[c].op, NEW from, NEW to,
           Advance(c, o, from, to), call[c].at # "reported", Onward(from, to)
    PROVE  [Contract!ContractNext]_(Contract!contractVars)
<1>1. call[c] \in CallState /\ o \in Operation
  BY CallHas
<1>2. CASE Matches(c, o, from)
  <2> DEFINE s == [call[c] EXCEPT !.at = "working", !.phase = to]
  <2>1. /\ operation[o].phase = from
        /\ operation' = [operation EXCEPT ![o].phase = to, ![o].expired = FALSE,
                            ![o].status = IF from = "requested" THEN "running" ELSE @]
        /\ Update(c, s)
    BY <1>2 DEF Advance, Matches
  <2>2. /\ \A p \in Operation : p # o => operation'[p].phase = operation[p].phase
        /\ operation'[o].phase = to
    BY <1>1, <2>1 DEF Inv, TypeOK, OperationRow
  <2>3. s.at = "working"
    BY <1>1 DEF CallState
  <2> HIDE DEF s
  <2>4. Confirmed' = Confirmed
    BY <2>1, <2>3, ConfirmedBy
  <2>5. QED
    BY <1>1, <2>1, <2>2, <2>4, MoveAdvances
<1>3. CASE ~Matches(c, o, from)
  <2>1. Return(c, o) /\ UNCHANGED operation
    BY <1>3 DEF Advance
  <2>2. QED
    BY <2>1, ReturnConfirms
<1>4. QED
  BY <1>2, <1>3

LEMMA PhasesRefine ==
    ASSUME Inv, Inv', NEW c \in Call, NEW o \in Operation,
           Begin(c, o) \/ MarkRevoked(c, o) \/ StartClosing(c, o) \/ MarkClosed(c, o)
    PROVE  [Contract!ContractNext]_(Contract!contractVars)
<1>1. UNCHANGED world /\ o \in call[c].op /\ call[c].at # "reported"
  BY DEF Begin, MarkRevoked, StartClosing, MarkClosed, Before, After
<1>2. \/ Advance(c, o, "requested", "revoking") \/ Advance(c, o, "revoking", "revoked")
      \/ Advance(c, o, "revoked", "closing") \/ Advance(c, o, "closing", "closed")
  BY DEF Begin, MarkRevoked, StartClosing, MarkClosed
<1>3. QED
  BY <1>1, <1>2, AdvanceRefines DEF Onward

\* An inline heartbeat.
LEMMA ChecksRefine ==
    ASSUME Inv, Inv', NEW c \in Call, NEW o \in Operation, BeforeRevoking(c, o) \/ BeforeClosing(c, o)
    PROVE  [Contract!ContractNext]_(Contract!contractVars)
<1>1. UNCHANGED world /\ o \in call[c].op /\ call[c].at # "reported"
  BY DEF BeforeRevoking, BeforeClosing, Before
<1>2. PICK then \in {"revoke", "close", "closed"} :
         CheckOwner(c, o, then) \/ (Goto(c, then) /\ UNCHANGED operation)
  BY DEF BeforeRevoking, BeforeClosing
<1>3. CASE Goto(c, then) /\ UNCHANGED operation
  <2>1. \A p \in Operation : operation'[p].phase = operation[p].phase
    BY <1>3
  <2>2. QED
    BY <1>1, <1>3, <2>1, GotoUnseen
<1>4. CASE CheckOwner(c, o, then)
  <2>1. CASE MayClaim(c, o, "any")
    <3>1. Claimed(c, o) /\ Goto(c, then)
      BY <1>4, <2>1 DEF CheckOwner
    <3>2. \A p \in Operation : operation'[p].phase = operation[p].phase
      BY <3>1 DEF Claimed, Inv, TypeOK, OperationRow
    <3>3. QED
      BY <1>1, <3>1, <3>2, GotoUnseen
  <2>2. CASE ~MayClaim(c, o, "any")
    <3>1. Return(c, o) /\ UNCHANGED operation
      BY <1>4, <2>2 DEF CheckOwner
    <3>2. QED
      BY <1>1, <3>1, ReturnConfirms
  <2>3. QED
    BY <2>1, <2>2
<1>5. QED
  BY <1>2, <1>3, <1>4

\* What the calls do outside the row.
LEMMA EffectsRefine ==
    ASSUME Inv, Inv', NEW c \in Call, NEW o \in Operation,
           Revoke(c, o) \/ CloseAccount(c, o) \/ Publish(c, o)
    PROVE  [Contract!ContractNext]_(Contract!contractVars)
<1>1. /\ o \in call[c].op /\ call[c].at # "reported" /\ UNCHANGED <<operation, receipts>>
      /\ CallFacts(call[c], operation, revoked, Shut, message)
  BY CallHas DEF Revoke, CloseAccount, Publish, Before, After
<1>2. PICK at \in {"revoked", "closed", "published"} : Update(c, Gone(c, at))
  BY DEF Revoke, CloseAccount, Publish, Goto, Gone
<1>3. Gone(c, at).at = at
  BY <1>1, GoneState
<1>4. Confirmed' = Confirmed
  BY <1>1, <1>2, <1>3, ConfirmedBy
<1>5. Phases' = Phases
  BY <1>1 DEF Phases
<1>6. CASE Revoke(c, o)
  <2>1. UNCHANGED <<AccountView, Told, Finished>> /\ revoked' = TRUE
    BY <1>6 DEF Revoke, AccountView, Told, Finished
  <2>2. CASE revoked
    <3>1. UNCHANGED revoked
      BY <2>1, <2>2 DEF Inv, TypeOK
    <3>2. QED
      BY <1>1, <1>4, <1>5, <2>1, <3>1, UnseenStutters DEF Unseen
  <2>3. CASE ~revoked
    <3>1. operation[o].phase = "revoking"
      <4>1. Reached("revoking", operation[o].phase)
        BY <1>1, <1>6 DEF CallFacts, Revoke, After
      <4>2. operation[o].phase \notin {"revoked", "closing", "closed"}
        BY <2>3 DEF Inv, RowFacts
      <4>3. operation[o].phase \in Phase \cup {"absent"}
        BY DEF Inv, TypeOK, OperationRow
      <4>4. QED
        BY <4>1, <4>2, <4>3 DEF Reached, Phase
    <3>2. \E p \in Operation : Phases[p] = "revoking"
      BY <3>1 DEF Phases
    <3>3. Contract!SignOut
      BY <1>1, <1>4, <1>5, <2>1, <2>3, <3>2
      DEF Contract!SignOut, Phases, AccountView, Told, Confirmed, Finished
    <3>4. QED
      BY <3>3 DEF Contract!ContractNext
  <2>4. QED
    BY <2>2, <2>3
<1>7. CASE CloseAccount(c, o)
  <2>1. UNCHANGED <<revoked, reopened, Told, Finished>> /\ AccountView' = "closed"
    BY <1>7 DEF CloseAccount, AccountView, Told, Finished
  <2>2. CASE AccountView = "closed"
    <3>1. UNCHANGED AccountView
      BY <2>1, <2>2
    <3>2. QED
      BY <1>1, <1>4, <1>5, <2>1, <3>1, UnseenStutters DEF Unseen
  <2>3. CASE AccountView # "closed"
    <3>1. Reached("closing", operation[o].phase)
      BY <1>1, <1>7 DEF CallFacts, CloseAccount, After
    <3>2. operation[o].phase \in {"closing", "closed"}
      BY <3>1 DEF Reached
    <3>3. revoked
      BY <3>2 DEF Inv, RowFacts
    <3>4. operation[o].phase = "closed" => AccountView = "reopened"
      BY <2>3 DEF Inv, RowFacts, Shut, AccountView
    <3>5. \E p \in Operation :
             Phases[p] = "closing" \/ (Phases[p] = "closed" /\ AccountView = "reopened")
      BY <3>2, <3>4 DEF Phases
    <3>6. Contract!Close
      BY <1>1, <1>4, <1>5, <2>1, <2>3, <3>3, <3>5
      DEF Contract!Close, Phases, AccountView, Told, Confirmed, Finished
    <3>7. QED
      BY <3>6 DEF Contract!ContractNext
  <2>4. QED
    BY <2>2, <2>3
<1>8. CASE Publish(c, o)
  <2>1. /\ UNCHANGED <<revoked, AccountView>>
        /\ message' = IF message[o].status = "absent" THEN [message EXCEPT ![o].status = "pending"]
                      ELSE message
    BY <1>8 DEF Publish, AccountView
  <2>2. CASE message[o].status # "absent"
    <3>1. UNCHANGED <<Told, Finished>>
      BY <2>1, <2>2 DEF Told, Finished
    <3>2. QED
      BY <1>1, <1>4, <1>5, <2>1, <3>1, UnseenStutters DEF Unseen
  <2>3. CASE message[o].status = "absent"
    <3>1. /\ \A p \in Operation : p # o => message'[p] = message[p]
          /\ message'[o].status = "pending"
      BY <2>1, <2>3 DEF Inv, TypeOK, MessageRow
    <3>2. Told' = Told \cup {o} /\ o \notin Told /\ Finished' = Finished
      BY <2>3, <3>1 DEF Told, Finished
    <3>3. Phases[o] = "closed"
      <4>1. Reached("closed", operation[o].phase)
        BY <1>1, <1>8 DEF CallFacts, Publish, Before
      <4>2. QED
        BY <4>1 DEF Reached, Phases
    <3>4. Contract!Announce(o)
      BY <1>1, <1>4, <1>5, <2>1, <3>2, <3>3
      DEF Contract!Announce, Phases, AccountView, Told, Confirmed, Finished
    <3>5. QED
      BY <3>4 DEF Contract!ContractNext
  <2>4. QED
    BY <2>2, <2>3
<1>9. QED
  BY <1>6, <1>7, <1>8

LEMMA EndingRefines ==
    ASSUME Inv, Inv', NEW c \in Call, NEW o \in Operation,
           Succeed(c, o) \/ StepFails(c, o) \/ MarkFailed(c, o)
    PROVE  [Contract!ContractNext]_(Contract!contractVars)
<1>1. UNCHANGED world /\ o \in call[c].op /\ call[c].at # "reported"
  BY DEF Succeed, StepFails, MarkFailed, After, Working
<1>2. \A p \in Operation : operation'[p].phase = operation[p].phase
  <2>1. \/ UNCHANGED operation
        \/ \E status : operation' = [operation EXCEPT ![o].status = status]
    BY DEF Succeed, StepFails, MarkFailed, FailedIfOwned
  <2>2. QED
    BY <2>1 DEF Inv, TypeOK, OperationRow
<1>3. \/ \E at : Leave(c, at)
      \/ Return(c, o)
      \/ Goto(c, "failing")
  BY DEF Succeed, StepFails, MarkFailed
<1>4. QED
  BY <1>1, <1>2, <1>3, LeaveConfirms, ReturnConfirms, GotoUnseen

\* What leaves all phases and calls where they are is not seen.
LEMMA QuietRows ==
    ASSUME Inv, UNCHANGED <<call, revoked, account, reopened, message, receipts>>,
           \A o \in Operation : operation'[o].phase = operation[o].phase
    PROVE  Unseen
BY DEF Unseen, Phases, AccountView, Told, Confirmed, Finished

LEMMA LeasesUnseen ==
    ASSUME Inv, NEW o \in Operation,
           \/ LeaseRunsOut(o) \/ LeaseLapses(o) \/ ReplayRead(o) \/ ReplayWrite(o)
           \/ \E c \in Call : Renew(c, o)
    PROVE  Unseen
<1>1. UNCHANGED <<call, revoked, account, reopened, message, receipts>>
  BY DEF LeaseRunsOut, LeaseLapses, ReplayRead, ReplayWrite, Renew, world
<1>2. CASE UNCHANGED operation
  BY <1>1, <1>2, QuietRows
<1>3. CASE \E e \in BOOLEAN : operation' = [operation EXCEPT ![o].expired = e]
  <2>1. \A p \in Operation : operation'[p].phase = operation[p].phase
    BY <1>3 DEF Inv, TypeOK, OperationRow
  <2>2. QED
    BY <1>1, <2>1, QuietRows
<1>4. CASE ReplayWrite(o)
  <2>1. \A p \in Operation : operation'[p].phase = operation[p].phase
    BY <1>4 DEF ReplayWrite, Inv, TypeOK, OperationRow
  <2>2. QED
    BY <1>1, <2>1, QuietRows
<1>5. QED
  BY <1>2, <1>3, <1>4 DEF LeaseRunsOut, LeaseLapses, ReplayRead, Renew

LEMMA DiesUnseen ==
    ASSUME Inv, Inv', NEW c \in Call, Dies(c)
    PROVE  Unseen
<1>1. Update(c, Left(c, "returned")) /\ UNCHANGED <<operation, world>> /\ call[c].at # "reported"
  BY DEF Dies, Leave, Left
<1>2. Left(c, "returned").at = "returned"
  BY DEF Left, NewCall
<1>3. Confirmed' = Confirmed
  BY <1>1, <1>2, ConfirmedBy
<1>4. QED
  BY <1>1, <1>3 DEF Unseen, world, Phases, AccountView, Told, Finished

LEMMA EditsRefine ==
    ASSUME Inv, EditorSeesClosed, EditRead \/ EditSave
    PROVE  [Contract!ContractNext]_(Contract!contractVars)
<1>1. UNCHANGED <<Phases, revoked, Told, Confirmed, receipts, Finished>>
  BY DEF EditRead, EditSave, Phases, Told, Confirmed, Finished
<1>2. CASE UNCHANGED AccountView
  BY <1>1, <1>2, UnseenStutters DEF Unseen
<1>3. CASE EditSave /\ account = "Closed" /\ editor = "Active"
  <2>1. AccountView = "closed" /\ AccountView' = "reopened"
    BY <1>3 DEF EditSave, AccountView
  <2>2. Contract!Reopen
    BY <1>1, <2>1 DEF Contract!Reopen, Phases, AccountView, Told, Confirmed, Finished
  <2>3. QED
    BY <2>2 DEF Contract!ContractNext
<1>4. CASE EditSave /\ ~(account = "Closed" /\ editor = "Active")
  <2>1. account' = account /\ reopened' = reopened
    BY <1>4 DEF EditSave, EditorSeesClosed, Inv, TypeOK
  <2>2. QED
    BY <1>2, <2>1 DEF AccountView
<1>5. CASE EditRead
  BY <1>2, <1>5 DEF EditRead, AccountView
<1>6. QED
  BY <1>3, <1>4, <1>5

----------------------------------------------------------------------------
(* The workers. *)

\* A step about messages that keeps who was told and what is finished.
LEMMA QuietMessages ==
    ASSUME UNCHANGED <<delivery, receipts>>,
           \A o \in Operation : /\ message[o].status = "absent" <=> message'[o].status = "absent"
                                /\ message[o].status = "dispatched" <=> message'[o].status = "dispatched"
    PROVE  Unseen
BY DEF delivery, Unseen, Phases, AccountView, Told, Confirmed, Finished

LEMMA MessageWrites ==
    ASSUME Inv, UNCHANGED <<delivery, receipts>>, NEW o \in Operation, NEW row,
           message' = [message EXCEPT ![o] = row], row.status = message[o].status
    PROVE  Unseen
<1>1. \A p \in Operation : message'[p].status = message[p].status
  BY DEF Inv, TypeOK
<1>2. QED
  BY <1>1, QuietMessages

LEMMA MessagesUnseen ==
    ASSUME Inv, NEW o \in Operation,
           \/ MessageRunsOut(o) \/ MessageLapses(o)
           \/ \E w \in Worker : Take(w, o) \/ Look(w, o) \/ Release(w, o) \/ ConsumerFails(w, o) \/ WorkerDies(w)
    PROVE  Unseen
<1>1. UNCHANGED <<delivery, receipts>> /\ message[o] \in MessageRow
  BY DEF MessageRunsOut, MessageLapses, Take, Look, Release, ConsumerFails, WorkerDies, Inv, TypeOK
<1>2. CASE UNCHANGED message
  BY <1>1, <1>2, QuietMessages
<1>3. CASE \E row : message' = [message EXCEPT ![o] = row] /\ row.status = message[o].status
  BY <1>1, <1>3, MessageWrites
<1>4. CASE MessageRunsOut(o) \/ MessageLapses(o)
  <2>1. message' = [message EXCEPT ![o] = [message[o] EXCEPT !.expired = TRUE]]
    BY <1>4 DEF MessageRunsOut, MessageLapses
  <2>2. [message[o] EXCEPT !.expired = TRUE].status = message[o].status
    BY <1>1 DEF MessageRow
  <2>3. QED
    BY <1>3, <2>1, <2>2
<1>5. ASSUME NEW w \in Worker, Take(w, o) PROVE Unseen
  <2>1. message' = [message EXCEPT ![o] = [message[o] EXCEPT !.owner = w, !.expired = FALSE]]
    BY <1>5 DEF Take
  <2>2. [message[o] EXCEPT !.owner = w, !.expired = FALSE].status = message[o].status
    BY <1>1 DEF MessageRow
  <2>3. QED
    BY <1>3, <2>1, <2>2
<1>6. ASSUME NEW w \in Worker, Release(w, o) PROVE Unseen
  <2>1. CASE Owns(w, o)
    <3>1. message' = [message EXCEPT ![o] = Released(o)]
      BY <1>6, <2>1 DEF Release
    <3>2. Released(o).status = message[o].status
      BY <2>1 DEF Released, Owns
    <3>3. QED
      BY <1>3, <3>1, <3>2
  <2>2. CASE ~Owns(w, o)
    BY <1>2, <1>6, <2>2 DEF Release
  <2>3. QED
    BY <2>1, <2>2
<1>7. QED
  BY <1>2, <1>4, <1>5, <1>6 DEF Look, ConsumerFails, WorkerDies

LEMMA HandleRefines ==
    ASSUME Inv, Inv', WorkersTold, NEW w \in Worker, NEW o \in Operation, Handle(w, o)
    PROVE  [Contract!ContractNext]_(Contract!contractVars)
<1>1. /\ UNCHANGED <<delivery, message>> /\ worker[w].at = "handling" /\ o \in worker[w].op
      /\ UNCHANGED <<Phases, revoked, AccountView, Told, Confirmed, Finished>>
  BY DEF Handle, delivery, Phases, AccountView, Told, Confirmed, Finished
<1>2. CASE UNCHANGED receipts
  BY <1>1, <1>2, UnseenStutters DEF Unseen
<1>3. CASE receipts' # receipts
  <2> DEFINE n == worker[w].next
  <2>1. n \notin receipts[o] /\ receipts' = [receipts EXCEPT ![o] = @ \cup {n}]
    BY <1>3 DEF Handle
  <2>2. n \in 1..Consumers /\ \A m \in 1..Consumers : m < n => m \in receipts[o]
    BY <1>1, WorkerHas, ClosureAssumption DEF WorkerFacts
  <2>3. o \in Told
    BY <1>1 DEF WorkersTold, Told
  <2>4. Contract!Hear(o, n)
    BY <1>1, <2>1, <2>2, <2>3 DEF Contract!Hear, Phases, AccountView, Told, Confirmed, Finished
  <2>5. QED
    BY <2>2, <2>4 DEF Contract!ContractNext
<1>4. QED
  BY <1>2, <1>3

LEMMA DispatchRefines ==
    ASSUME Inv, Inv', NEW w \in Worker, NEW o \in Operation, Dispatch(w, o)
    PROVE  [Contract!ContractNext]_(Contract!contractVars)
<1>1. /\ UNCHANGED <<delivery, receipts>>
      /\ UNCHANGED <<Phases, revoked, AccountView, Confirmed, receipts>>
  BY DEF Dispatch, delivery, Phases, AccountView, Confirmed
<1>2. CASE Owns(w, o)
  <2>1. /\ message[o].status = "pending"
        /\ \A p \in Operation : p # o => message'[p] = message[p]
        /\ message'[o].status = "dispatched"
    BY <1>2 DEF Dispatch, Owns, Inv, TypeOK
  <2>2. Told' = Told /\ Finished' = Finished \cup {o} /\ o \notin Finished
    BY <2>1 DEF Told, Finished
  <2>3. receipts[o] = 1..Consumers
    BY <1>1, <2>1 DEF Inv, RowFacts
  <2>4. Contract!Finish(o)
    BY <1>1, <2>2, <2>3 DEF Contract!Finish, Phases, AccountView, Told, Confirmed, Finished
  <2>5. QED
    BY <2>4 DEF Contract!ContractNext
<1>3. CASE ~Owns(w, o)
  <2>1. UNCHANGED message
    BY <1>3 DEF Dispatch
  <2>2. QED
    BY <1>1, <2>1, QuietMessages, UnseenStutters
<1>4. QED
  BY <1>2, <1>3

----------------------------------------------------------------------------
LEMMA InitRefines == Init => Contract!ContractInit
<1> SUFFICES ASSUME Init PROVE Contract!ContractInit
  OBVIOUS
<1>1. Phases = [o \in Operation |-> "absent"]
  BY DEF Init, NoOperation, Phases
<1>2. AccountView = "open"
  BY DEF Init, AccountView
<1>3. Told = {} /\ Confirmed = {} /\ Finished = {}
  BY DEF Init, NewCall, Told, Confirmed, Finished
<1>4. QED
  BY <1>1, <1>2, <1>3 DEF Init, Contract!ContractInit, Phases, AccountView, Told, Confirmed, Finished

LEMMA StepsRefine ==
    ASSUME Inv, Inv', EditorSeesClosed, WorkersTold, [Next]_vars
    PROVE  [Contract!ContractNext]_(Contract!contractVars)
<1>1. CASE Unseen
  BY <1>1, UnseenStutters
<1>2. ASSUME NEW c \in Call, NEW o \in Operation, CallStep(c, o)
      PROVE  [Contract!ContractNext]_(Contract!contractVars)
  BY <1>1, <1>2, ClaimingRefines, PhasesRefine, ChecksRefine, EffectsRefine, EndingRefines,
     LeasesUnseen DEF CallStep
<1>3. ASSUME NEW w \in Worker, NEW o \in Operation, WorkerStep(w, o) \/ ConsumerFails(w, o)
      PROVE  [Contract!ContractNext]_(Contract!contractVars)
  BY <1>1, <1>3, MessagesUnseen, HandleRefines, DispatchRefines DEF WorkerStep
<1>4. ASSUME NEW w \in Worker, WorkerDies(w)
      PROVE  [Contract!ContractNext]_(Contract!contractVars)
  <2>1. UNCHANGED <<delivery, message, receipts>>
    BY <1>4 DEF WorkerDies
  <2>2. QED
    BY <1>1, <2>1, QuietMessages
<1>5. CASE UNCHANGED vars
  <2>1. Unseen
    BY <1>5 DEF vars, Unseen, Phases, AccountView, Told, Confirmed, Finished
  <2>2. QED
    BY <1>1, <2>1
<1>6. QED
  BY <1>1, <1>2, <1>3, <1>4, <1>5, DiesUnseen, LeasesUnseen, EditsRefine, MessagesUnseen DEF Next

\* For any number of calls, takeovers, replays, edits, workers and faults the
\* closure implements its contract: each operation moves on one phase at a
\* time, every effect happens when its phase has come, and the consumers hear
\* of it in turn (ImplementsContract; execute, processPendingMessages).
THEOREM ClosureImplementsContract == Spec => ImplementsContract
<1>1. Init => Contract!ContractInit
  BY InitRefines
<1>2. /\ Inv /\ Inv' /\ EditorSeesClosed /\ WorkersTold /\ [Next]_vars
      => [Contract!ContractNext]_(Contract!contractVars)
  BY StepsRefine
<1>3. QED
  BY <1>1, <1>2, Invariant, EditorInit, EditorNext, WorkersToldInit, WorkersToldNext, PTL
  DEF Spec, ImplementsContract, Contract!ContractSpec

=============================================================================
