--------------------------- MODULE ServicesProofs ---------------------------
(***************************************************************************)
(* Theorems about Push, TrainingJob and ClientSession, for every value of  *)
(* their constants: no notification that begins later is sent to a device  *)
(* that was unregistered, and the record of one says what became of it; a  *)
(* training job that is marked failed has failed; nobody gets what is      *)
(* another's in a tab, and nobody waits for a renewal that is not under    *)
(* way.                                                                    *)
(*                                                                         *)
(* Each component has its inductive invariant, kept by every step from     *)
(* every start; MCServices, which puts the three side by side, holds what  *)
(* they hold because a step of one leaves the others alone.                *)
(***************************************************************************)
EXTENDS MCServices, FiniteSetTheorems, TLAPS

----------------------------------------------------------------------------
\* Push

\* An instance has the operators of the modules it extends under its own name.
LEMMA CardPhone == \A S : Phone!Cardinality(S) = Cardinality(S)
BY DEF Phone!Cardinality, Cardinality

LEMMA CardJob == \A S : Job!Cardinality(S) = Cardinality(S)
BY DEF Job!Cardinality, Cardinality

\* What a request knows of its device while it runs.
RequestOK(r) ==
    LET q == request[r]
    IN  q.op # "idle" =>
          /\ q.token \in Tokens
          /\ q.row = 0 => q.op = "register"
          /\ q.row # 0 => rows[q.row].token = q.token
          /\ q.alone => \A p \in PushRequests \ {r} : ~Phone!Meets(q.token, p)
          /\ q.alone /\ q.op = "unregister" =>
                /\ Phone!RowsOf(q.token) = {q.row}
                /\ rows[q.row].active => q.active

RowsOK == \A i \in Phone!Ids : rows[i].active => rows[i].token \in Tokens

GoneOK == \A t \in gone, r \in PushRequests : Phone!Meets(t, r) => request[r].op = "unregister"

GoneIsInactive == \A i \in Phone!Ids : rows[i].active => rows[i].token \notin gone

\* Failures of FCM are fatal, and those of an answer are collapsed.
Collapses == setting.failClosed /\ setting.fcm # "none"

\* What holds of a notification, whatever it has to deactivate: what it has counted,
\* and that it goes to nobody who was gone when it read the devices.
Sending(s) ==
    /\ s \in Phone!Sender
    /\ \A i \in s.left : rows[i].token \in Tokens
    /\ Cardinality(s.left) + s.failed <= MaxRows
    /\ s.failed = 0 => s.refused = {} \/ Collapses
    /\ s.failed # 0 => s.refused # {}
    /\ (s.sent \union Phone!TokensOf(s.left)) \intersect s.silent = {}

\* What it may become.
Sendable(s) == Sending(s) /\ (s.drops # {} => s.pc = "drop")

SenderOK == Sendable(sender)

PushInv ==
    /\ Phone!TypeOK /\ RowsOK /\ GoneOK /\ GoneIsInactive /\ SenderOK
    /\ \A r \in PushRequests : RequestOK(r)
    /\ Phone!ResultsAddUp

LEMMA FindOne ==
  ASSUME Phone!PushConstants, Phone!TypeOK, NEW t \in Tokens, NEW i \in Phone!Find(t)
  PROVE  /\ i \in Phone!Ids \union {0}
         /\ i # 0 => Phone!RowsOf(t) = {i}
<1>1. Phone!RowsOf(t) \subseteq Phone!Ids /\ IsFiniteSet(Phone!Ids) /\ Phone!Ids \subseteq Nat /\ 0 \notin Phone!Ids
  BY FS_Interval DEF Phone!RowsOf, Phone!Ids, Phone!PushConstants
<1>2. CASE Phone!RowsOf(t) = {}
  BY <1>2 DEF Phone!Find
<1>3. CASE Phone!RowsOf(t) # {} /\ Cardinality(Phone!RowsOf(t)) = 1
  <2>1. i \in Phone!RowsOf(t)
    BY <1>3 DEF Phone!Find
  <2>2. PICK x : Phone!RowsOf(t) = {x}
    BY <1>1, <1>3, FS_Singleton, FS_Subset
  <2> QED BY <1>1, <2>1, <2>2
<1> QED BY <1>2, <1>3, CardPhone DEF Phone!Find

LEMMA EndOne ==
  ASSUME Phone!TypeOK, NEW r \in PushRequests, Phone!End(r)
  PROVE  /\ request' \in [PushRequests -> Phone!Request]
         /\ request'[r] = Phone!NoRequest
         /\ \A p \in PushRequests \ {r} : request'[p] = request[p]
<1>1. Phone!NoRequest \in Phone!Request
  BY DEF Phone!NoRequest, Phone!Request
<1> QED BY <1>1 DEF Phone!TypeOK, Phone!End

LEMMA AssignOne ==
  ASSUME PushInv, NEW r \in PushRequests, request[r].op # "idle", request[r].row # 0,
         NEW b \in BOOLEAN, Phone!Assign(r, b)
  PROVE  /\ request[r].row \in Phone!Ids
         /\ rows' \in [Phone!Ids -> Phone!Row]
         /\ \A i \in Phone!Ids : rows'[i].token = rows[i].token
         /\ \A i \in Phone!Ids : rows'[i].active # rows[i].active =>
               i = request[r].row /\ rows'[i].active = b
         /\ request[r].active # b => rows'[request[r].row].active = b
<1>1. request[r] \in Phone!Request /\ request[r].row \in Phone!Ids
  BY DEF PushInv, Phone!TypeOK, Phone!Request
<1>2. rows \in [Phone!Ids -> Phone!Row] /\ rows[request[r].row] \in Phone!Row
  BY <1>1 DEF PushInv, Phone!TypeOK
<1> DEFINE k == request[r].row
<1>3. rows' = [rows EXCEPT ![k].active = IF request[r].active = b THEN rows[k].active ELSE b]
  BY DEF Phone!Assign
<1>4. /\ \A i \in Phone!Ids \ {k} : rows'[i] = rows[i]
      /\ rows'[k] = [rows[k] EXCEPT !.active = IF request[r].active = b THEN rows[k].active ELSE b]
      /\ DOMAIN rows' = Phone!Ids /\ rows' = [i \in Phone!Ids |-> rows'[i]]
  BY <1>1, <1>2, <1>3
<1>5. /\ rows'[k] \in Phone!Row /\ rows'[k].token = rows[k].token
      /\ rows'[k].active = IF request[r].active = b THEN rows[k].active ELSE b
  BY <1>2, <1>4 DEF Phone!Row
<1> QED BY <1>1, <1>2, <1>4, <1>5

\* A step of a request that changes no token of a row that has one leaves the
\* sender's part as it is.
LEMMA SenderStays ==
  ASSUME Phone!PushConstants, PushInv, UNCHANGED <<setting, sender, event>>,
         \A i \in Phone!Ids : rows[i].token \in Tokens => rows'[i].token = rows[i].token
  PROVE  SenderOK' /\ Phone!ResultsAddUp'
<1>1. sender \in Phone!Sender /\ sender.left \subseteq Phone!Ids /\ Sendable(sender)
  BY DEF PushInv, SenderOK, Sendable, Sending, Phone!Sender
<1>2. \A i \in sender.left : rows'[i].token = rows[i].token /\ rows[i].token \in Tokens
  BY <1>1 DEF Sendable, Sending
<1>3. Phone!TokensOf(sender.left)' = Phone!TokensOf(sender.left)
  BY <1>2 DEF Phone!TokensOf
<1>4. Sending(sender)'
  BY <1>1, <1>2, <1>3 DEF Sendable, Sending, Collapses
<1>5. SenderOK'
  BY <1>1, <1>4 DEF SenderOK, Sendable
<1> QED BY <1>5 DEF PushInv, Phone!ResultsAddUp

LEMMA BeginKeeps ==
  ASSUME Phone!PushConstants, PushInv, NEW r \in PushRequests, NEW t \in Tokens,
         NEW op \in {"register", "unregister", "heartbeat"}, Phone!Begin(r, op, t)
  PROVE  PushInv'
<1>1. PICK i \in Phone!Find(t) :
        /\ i = 0 => op = "register"
        /\ request' = [q \in PushRequests |->
              IF q = r
              THEN [op |-> op, token |-> t, row |-> i,
                    active |-> i # 0 /\ rows[i].active,
                    alone |-> \A p \in PushRequests : ~Phone!Meets(t, p)]
              ELSE [request[q] EXCEPT !.alone = @ /\ ~Phone!Meets(t, q)]]
  BY DEF Phone!Begin
<1>2. Phone!TypeOK /\ i \in Phone!Ids \union {0} /\ (i # 0 => Phone!RowsOf(t) = {i})
  BY FindOne DEF PushInv
<1>3. i # 0 => rows[i].token = t /\ rows[i].active \in BOOLEAN
  BY <1>2 DEF Phone!RowsOf, Phone!TypeOK, Phone!Row
<1>4. /\ request'[r].op = op /\ request'[r].token = t /\ request'[r].row = i
      /\ request'[r].active = (i # 0 /\ rows[i].active)
      /\ request'[r].alone = (\A p \in PushRequests : ~Phone!Meets(t, p))
      /\ request'[r] \in Phone!Request
  BY <1>1, <1>2, <1>3 DEF Phone!Request
<1>5. ASSUME NEW p \in PushRequests \ {r}
      PROVE  /\ request'[p].op = request[p].op /\ request'[p].token = request[p].token
             /\ request'[p].row = request[p].row /\ request'[p].active = request[p].active
             /\ request'[p].alone = (request[p].alone /\ ~Phone!Meets(t, p))
             /\ request'[p] \in Phone!Request
  BY <1>1, <1>2 DEF Phone!TypeOK, Phone!Request, Phone!Meets
<1>6. request' \in [PushRequests -> Phone!Request]
  BY <1>1, <1>4, <1>5
<1>7. Phone!TypeOK' /\ RowsOK' /\ SenderOK' /\ Phone!ResultsAddUp' /\ GoneIsInactive'
  <2>1. UNCHANGED <<setting, rows, sender, event>> /\ gone' \subseteq gone
    BY DEF Phone!Begin
  <2>2. SenderOK' /\ Phone!ResultsAddUp'
    BY <2>1, SenderStays
  <2> QED BY <1>2, <1>6, <2>1, <2>2 DEF PushInv, Phone!TypeOK, RowsOK, GoneIsInactive
<1>8. GoneOK'
  BY <1>4, <1>5 DEF GoneOK, PushInv, Phone!Meets, Phone!Begin
<1>9. request[r].op = "idle"
  BY DEF Phone!Begin
<1>10. ASSUME NEW p \in PushRequests PROVE RequestOK(p)'
  <2>1. UNCHANGED rows /\ \A u \in Tokens : Phone!RowsOf(u)' = Phone!RowsOf(u)
    BY DEF Phone!Begin, Phone!RowsOf
  <2>2. CASE p = r
    <3>1. \A q \in PushRequests \ {r} : Phone!Meets(t, q)' = Phone!Meets(t, q)
      BY <1>5 DEF Phone!Meets
    <3> QED BY <1>1, <1>2, <1>3, <1>4, <2>1, <2>2, <3>1 DEF RequestOK
  <2>3. CASE p # r /\ request[p].op # "idle"
    <3>1. RequestOK(p) /\ request[p].token \in Tokens
      BY <2>3 DEF PushInv, RequestOK
    <3>2. request'[p].alone => request[p].alone /\ request[p].token # t
      BY <1>5, <2>3 DEF Phone!Meets
    <3>3. ASSUME request'[p].alone
          PROVE  \A q \in PushRequests \ {p} : ~Phone!Meets(request[p].token, q)'
      BY <1>4, <1>5, <2>3, <3>1, <3>2, <3>3 DEF RequestOK, Phone!Meets
    <3> QED BY <1>5, <2>1, <2>3, <3>1, <3>2, <3>3 DEF RequestOK
  <2>4. CASE p # r /\ request[p].op = "idle"
    BY <1>5, <2>4 DEF RequestOK
  <2> QED BY <2>2, <2>3, <2>4
<1> QED BY <1>7, <1>8, <1>10 DEF PushInv

\* What the other requests know survives the end of one that has changed no row
\* but of its own token.
LEMMA OthersStay ==
  ASSUME PushInv, NEW r \in PushRequests, Phone!End(r), request[r].op # "idle",
         \A i \in Phone!Ids : rows[i].token \in Tokens => rows'[i].token = rows[i].token,
         \A i \in Phone!Ids : rows'[i] # rows[i] => rows'[i].token = request[r].token
  PROVE  \A p \in PushRequests : RequestOK(p)'
<1> SUFFICES ASSUME NEW p \in PushRequests, request'[p].op # "idle"
             PROVE  RequestOK(p)'
  BY DEF RequestOK
<1>1. p # r /\ request'[p] = request[p] /\ request'[r].op = "idle"
  BY EndOne DEF PushInv, Phone!NoRequest
<1>2. /\ RequestOK(p) /\ RequestOK(r) /\ request[p].op # "idle" /\ request[p].token \in Tokens
      /\ request[p] \in Phone!Request
  BY <1>1 DEF PushInv, RequestOK, Phone!TypeOK
<1>3. \A q \in PushRequests : Phone!Meets(request[p].token, q)' => Phone!Meets(request[p].token, q)
  BY EndOne, <1>1 DEF PushInv, Phone!Meets
<1>4. request[p].row # 0 => request[p].row \in Phone!Ids
  BY <1>2 DEF Phone!Request
<1>5. ASSUME request[p].alone
      PROVE  /\ request[r].token # request[p].token
             /\ \A i \in Phone!Ids : rows[i].token = request[p].token => rows'[i] = rows[i]
             /\ Phone!RowsOf(request[p].token)' = Phone!RowsOf(request[p].token)
  <2>1. ~Phone!Meets(request[p].token, r)
    BY <1>1, <1>2, <1>5 DEF RequestOK
  <2>2. request[r].token # request[p].token
    BY <2>1 DEF Phone!Meets
  <2>3. \A i \in Phone!Ids : rows[i].token = request[p].token => rows'[i] = rows[i]
    BY <1>2, <2>2
  <2>4. \A i \in Phone!Ids : rows'[i].token = request[p].token => rows'[i] = rows[i]
    BY <2>2
  <2>5. \A i \in Phone!Ids : rows'[i].token = request[p].token <=> rows[i].token = request[p].token
    BY <2>3, <2>4
  <2>6. Phone!RowsOf(request[p].token)' = Phone!RowsOf(request[p].token)
    BY <1>1, <2>5 DEF Phone!RowsOf
  <2> QED BY <2>2, <2>3, <2>6
<1>6. request[p].row # 0 => rows'[request[p].row].token = request[p].token
  BY <1>2, <1>4 DEF RequestOK
<1>7. request[p].alone /\ request[p].op = "unregister" =>
        /\ Phone!RowsOf(request[p].token)' = {request[p].row}
        /\ rows'[request[p].row].active => request[p].active
  BY <1>1, <1>2, <1>4, <1>5 DEF RequestOK
<1> QED BY <1>1, <1>2, <1>3, <1>6, <1>7 DEF RequestOK

LEMMA RefreshKeeps ==
  ASSUME Phone!PushConstants, PushInv, NEW r \in PushRequests, Phone!Refresh(r)
  PROVE  PushInv'
<1> DEFINE k == request[r].row
           t == request[r].token
<1>1. /\ request[r].op \in {"register", "heartbeat"} /\ k # 0 /\ Phone!Assign(r, TRUE) /\ Phone!End(r)
      /\ UNCHANGED <<setting, sender, event, gone>>
  BY DEF Phone!Refresh
<1>2. /\ Phone!TypeOK /\ RequestOK(r) /\ request[r].op # "idle" /\ t \in Tokens /\ rows[k].token = t
  BY <1>1 DEF PushInv, RequestOK
<1>3. /\ k \in Phone!Ids /\ rows' \in [Phone!Ids -> Phone!Row]
      /\ \A i \in Phone!Ids : rows'[i].token = rows[i].token
      /\ \A i \in Phone!Ids : rows'[i].active # rows[i].active => i = k
  BY <1>1, <1>2, AssignOne
<1>4. \A i \in Phone!Ids : rows'[i] # rows[i] => rows'[i].token = t
  <2>1. ASSUME NEW i \in Phone!Ids, i # k PROVE rows'[i] = rows[i]
    BY <1>2, <1>3, <2>1 DEF Phone!TypeOK, Phone!Row
  <2> QED BY <1>2, <1>3, <2>1
<1>5. Phone!TypeOK'
  BY <1>1, <1>2, <1>3, EndOne DEF Phone!TypeOK
<1>6. RowsOK'
  BY <1>2, <1>3 DEF PushInv, RowsOK
<1>7. GoneOK'
  BY <1>1, <1>2, EndOne DEF PushInv, GoneOK, Phone!Meets, Phone!NoRequest
<1>8. SenderOK' /\ Phone!ResultsAddUp'
  BY <1>1, <1>3, SenderStays
<1>9. \A p \in PushRequests : RequestOK(p)'
  BY <1>1, <1>2, <1>3, <1>4, OthersStay
<1>10. GoneIsInactive'
  <2>1. t \notin gone
    BY <1>1, <1>2 DEF PushInv, GoneOK, Phone!Meets
  <2> QED BY <1>1, <1>2, <1>3, <2>1 DEF PushInv, GoneIsInactive
<1> QED BY <1>5, <1>6, <1>7, <1>8, <1>9, <1>10 DEF PushInv

LEMMA InsertKeeps ==
  ASSUME Phone!PushConstants, PushInv, NEW r \in PushRequests, Phone!Insert(r)
  PROVE  PushInv'
<1> DEFINE t == request[r].token
<1>1. /\ request[r].op = "register" /\ Phone!End(r)
      /\ UNCHANGED <<setting, sender, event, gone>>
  BY DEF Phone!Insert
<1>2. PICK i \in Phone!RowsOf(None) : rows' = [rows EXCEPT ![i] = [token |-> t, active |-> TRUE]]
  BY DEF Phone!Insert
<1>3. Phone!TypeOK /\ RequestOK(r) /\ request[r].op # "idle" /\ t \in Tokens
  BY <1>1 DEF PushInv, RequestOK
<1>4. /\ i \in Phone!Ids /\ rows[i].token = None /\ rows[i].token \notin Tokens
      /\ rows' \in [Phone!Ids -> Phone!Row]
      /\ rows'[i] = [token |-> t, active |-> TRUE]
      /\ \A j \in Phone!Ids \ {i} : rows'[j] = rows[j]
  BY <1>2, <1>3 DEF Phone!RowsOf, Phone!TypeOK, Phone!Row, Phone!PushConstants
<1>5. \A j \in Phone!Ids : rows'[j] # rows[j] => rows'[j].token = t
  BY <1>4
<1>6. \A j \in Phone!Ids : rows[j].token \in Tokens => rows'[j].token = rows[j].token
  BY <1>4
<1>7. Phone!TypeOK'
  BY <1>1, <1>3, <1>4, EndOne DEF Phone!TypeOK
<1>8. RowsOK'
  BY <1>3, <1>4 DEF PushInv, RowsOK
<1>9. GoneOK'
  BY <1>1, <1>3, EndOne DEF PushInv, GoneOK, Phone!Meets, Phone!NoRequest
<1>10. SenderOK' /\ Phone!ResultsAddUp'
  BY <1>1, <1>6, SenderStays
<1>11. \A p \in PushRequests : RequestOK(p)'
  BY <1>1, <1>3, <1>5, <1>6, OthersStay
<1>12. GoneIsInactive'
  <2>1. t \notin gone
    BY <1>1, <1>3 DEF PushInv, GoneOK, Phone!Meets
  <2> QED BY <1>1, <1>4, <2>1 DEF PushInv, GoneIsInactive
<1> QED BY <1>7, <1>8, <1>9, <1>10, <1>11, <1>12 DEF PushInv

LEMMA UnregisterKeeps ==
  ASSUME Phone!PushConstants, PushInv, NEW r \in PushRequests, Phone!Unregister(r)
  PROVE  PushInv'
<1> DEFINE k == request[r].row
           t == request[r].token
<1>1. /\ request[r].op = "unregister" /\ Phone!Assign(r, FALSE) /\ Phone!End(r)
      /\ gone' = IF request[r].alone THEN gone \union {t} ELSE gone
      /\ UNCHANGED <<setting, sender, event>>
  BY DEF Phone!Unregister
<1>2. /\ Phone!TypeOK /\ RequestOK(r) /\ request[r].op # "idle" /\ k # 0
      /\ t \in Tokens /\ rows[k].token = t
  BY <1>1 DEF PushInv, RequestOK
<1>3. /\ k \in Phone!Ids /\ rows' \in [Phone!Ids -> Phone!Row]
      /\ \A i \in Phone!Ids : rows'[i].token = rows[i].token
      /\ \A i \in Phone!Ids : rows'[i].active # rows[i].active => i = k /\ rows'[i].active = FALSE
      /\ request[r].active # FALSE => rows'[k].active = FALSE
  BY <1>1, <1>2, AssignOne
<1>4. \A i \in Phone!Ids : rows'[i] # rows[i] => rows'[i].token = t
  <2>1. ASSUME NEW i \in Phone!Ids, i # k PROVE rows'[i] = rows[i]
    BY <1>2, <1>3, <2>1 DEF Phone!TypeOK, Phone!Row
  <2> QED BY <1>2, <1>3, <2>1
<1>5. Phone!TypeOK'
  BY <1>1, <1>2, <1>3, EndOne DEF Phone!TypeOK
<1>6. ASSUME NEW i \in Phone!Ids, rows'[i].active PROVE rows[i].active
  BY <1>2, <1>3, <1>6 DEF Phone!TypeOK, Phone!Row
<1>7. RowsOK'
  BY <1>3, <1>6 DEF PushInv, RowsOK
<1>8. GoneOK'
  <2>1. ASSUME request[r].alone PROVE \A p \in PushRequests \ {r} : ~Phone!Meets(t, p)
    BY <1>1, <1>2, <2>1 DEF RequestOK
  <2> QED BY <1>1, <1>2, <2>1, EndOne DEF PushInv, GoneOK, Phone!Meets, Phone!NoRequest
<1>9. SenderOK' /\ Phone!ResultsAddUp'
  BY <1>1, <1>3, SenderStays
<1>10. \A p \in PushRequests : RequestOK(p)'
  BY <1>1, <1>2, <1>3, <1>4, OthersStay
<1>11. GoneIsInactive'
  <2>1. ASSUME request[r].alone, NEW i \in Phone!Ids, rows'[i].token = t PROVE ~rows'[i].active
    <3>1. Phone!RowsOf(t) = {k} /\ (rows[k].active => request[r].active)
      BY <1>1, <1>2, <2>1 DEF RequestOK
    <3>2. i = k
      BY <1>3, <2>1, <3>1 DEF Phone!RowsOf
    <3> QED BY <1>3, <1>6, <3>1, <3>2
  <2> QED BY <1>1, <1>3, <1>6, <2>1 DEF PushInv, GoneIsInactive
<1> QED BY <1>5, <1>7, <1>8, <1>9, <1>10, <1>11 DEF PushInv

LEMMA AbandonKeeps ==
  ASSUME Phone!PushConstants, PushInv, NEW r \in PushRequests, Phone!Abandon(r)
  PROVE  PushInv'
<1>1. /\ request[r].op # "idle" /\ Phone!End(r) /\ UNCHANGED <<setting, rows, sender, event, gone>>
  BY DEF Phone!Abandon
<1>2. \A p \in PushRequests : RequestOK(p)'
  BY <1>1, OthersStay
<1>3. Phone!TypeOK' /\ GoneOK'
  BY <1>1, EndOne DEF PushInv, Phone!TypeOK, GoneOK, Phone!Meets, Phone!NoRequest
<1>4. RowsOK' /\ SenderOK' /\ Phone!ResultsAddUp' /\ GoneIsInactive'
  BY <1>1, SenderStays DEF PushInv, RowsOK, GoneIsInactive
<1> QED BY <1>2, <1>3, <1>4 DEF PushInv

LEMMA SenderKeeps ==
  ASSUME PushInv, NEW s, Sendable(s), Phone!SenderBecomes(s),
         UNCHANGED <<setting, rows, request, event, gone>>
  PROVE  PushInv'
<1>1. \A i : rows'[i] = rows[i]
  OBVIOUS
<1>2. Phone!TokensOf(s.left)' = Phone!TokensOf(s.left)
  BY DEF Phone!TokensOf, Phone!SenderBecomes
<1>3. Phone!TypeOK' /\ Phone!ResultsAddUp'
  BY DEF PushInv, Phone!TypeOK, Phone!ResultsAddUp, Sendable, Sending, Phone!SenderBecomes
<1>4. SenderOK'
  BY <1>1, <1>2 DEF SenderOK, Sendable, Sending, Collapses, Phone!SenderBecomes
<1>5. RowsOK' /\ GoneOK' /\ GoneIsInactive' /\ \A r \in PushRequests : RequestOK(r)'
  BY DEF PushInv, RowsOK, GoneOK, GoneIsInactive, RequestOK, Phone!Meets,
     Phone!RowsOf
<1> QED BY <1>3, <1>4, <1>5 DEF PushInv

LEMMA RequestContinues ==
  ASSUME PushInv, NEW s, Sending(s), s.pc = "send", Phone!Continue(s),
         UNCHANGED <<setting, rows, request, event, gone>>
  PROVE  PushInv'
<1> DEFINE d == IF s.drops = {} THEN s ELSE [s EXCEPT !.pc = "drop"]
<1>1. s \in Phone!Sender
  BY DEF Sending
<1>2. /\ d \in Phone!Sender /\ d.left = s.left /\ d.failed = s.failed /\ d.refused = s.refused
      /\ d.sent = s.sent /\ d.silent = s.silent
      /\ d.drops = s.drops /\ (d.drops # {} => d.pc = "drop")
  BY <1>1 DEF Phone!Sender
<1>3. Phone!SenderBecomes(d)
  BY DEF Phone!Continue
<1> HIDE DEF d
<1>4. Sendable(d)
  BY <1>2 DEF Sendable, Sending
<1> QED BY <1>3, <1>4, SenderKeeps

LEMMA TokensTyped ==
  ASSUME RowsOK, Phone!TypeOK, NEW S \in SUBSET Phone!Ids, \A i \in S : rows[i].token \in Tokens
  PROVE  Phone!TokensOf(S) \subseteq Tokens /\ (S = {} => Phone!TokensOf(S) = {})
BY DEF Phone!TokensOf

LEMMA FiniteIds ==
  ASSUME Phone!PushConstants, NEW S \in SUBSET Phone!Ids
  PROVE  /\ IsFiniteSet(S) /\ Cardinality(S) \in 0 .. MaxRows
         /\ Cardinality(S) = 0 => S = {}
<1>1. IsFiniteSet(Phone!Ids) /\ Cardinality(Phone!Ids) = MaxRows
  BY FS_Interval DEF Phone!Ids, Phone!PushConstants
<1>2. IsFiniteSet(S) /\ Cardinality(S) <= MaxRows /\ Cardinality(S) \in Nat
  BY <1>1, FS_Subset, FS_CardinalityType
<1> QED BY <1>2, FS_EmptySet DEF Phone!PushConstants

LEMMA FiniteParts ==
  ASSUME Phone!PushConstants, NEW S \in SUBSET Phone!Ids, NEW T \in SUBSET Phone!Ids, S \intersect T = {}
  PROVE  Cardinality(S) + Cardinality(T) <= MaxRows
<1>1. IsFiniteSet(S) /\ IsFiniteSet(T)
  BY FiniteIds
<1>2. Cardinality(S \union T) = Cardinality(S) + Cardinality(T)
  <2>1. Cardinality(S \intersect T) = 0
    BY FS_EmptySet
  <2>2. Cardinality(S) \in Nat /\ Cardinality(T) \in Nat
    BY <1>1, FS_CardinalityType
  <2>3. Cardinality(S \union T) = Cardinality(S) + Cardinality(T) - Cardinality(S \intersect T)
    BY <1>1, FS_Union
  <2> QED BY <2>1, <2>2, <2>3
<1>3. Cardinality(S \union T) \in 0 .. MaxRows
  BY FiniteIds
<1> QED BY <1>2, <1>3 DEF Phone!PushConstants

LEMMA BeginSendKeeps ==
  ASSUME Phone!PushConstants, PushInv, Phone!BeginSend
  PROVE  PushInv'
<1> DEFINE devices == {i \in Phone!Ids : rows[i].active}
           fcm == IF setting.fcm = "none" THEN {} ELSE Phone!ByFcm(devices)
           unconfigured == Phone!ByFcm(devices) \ fcm
           others == devices \ fcm
           fallback == others \ unconfigured
           lost == IF setting.failClosed THEN unconfigured ELSE {}
           into == [Phone!NoSender EXCEPT !.pc = "send", !.left = fcm, !.silent = gone,
                                          !.sent = Phone!TokensOf(others \ lost)]
           With(bad) == [into EXCEPT !.failed = Cardinality(bad), !.refused = Phone!TokensOf(bad)]
<1>1. Phone!ByFcm(devices) \subseteq devices /\ devices \subseteq Phone!Ids
  BY DEF Phone!ByFcm
<1>2. \A i \in devices : rows[i].token \in Tokens /\ rows[i].token \notin gone
  BY DEF PushInv, RowsOK, GoneIsInactive
<1>3. gone \subseteq Tokens /\ Phone!TypeOK
  BY DEF PushInv, Phone!TypeOK
<1>4. ASSUME NEW S \in SUBSET devices
      PROVE  /\ Phone!TokensOf(S) \subseteq Tokens /\ Phone!TokensOf(S) \intersect gone = {}
             /\ (S = {} <=> Phone!TokensOf(S) = {})
  BY <1>2 DEF Phone!TokensOf
<1>5. ASSUME NEW bad \in SUBSET (devices \ fcm) PROVE Sendable(With(bad))
  <2>1. fcm \in SUBSET Phone!Ids /\ bad \in SUBSET Phone!Ids /\ fcm \intersect bad = {}
        /\ fcm \subseteq devices /\ bad \subseteq devices /\ others \ lost \subseteq devices
    BY <1>1, <1>5
  <2>2. Cardinality(fcm) + Cardinality(bad) <= MaxRows /\ Cardinality(bad) \in 0 .. MaxRows
        /\ (Cardinality(bad) = 0 => bad = {}) /\ Cardinality({}) = 0
    BY <2>1, FiniteParts, FiniteIds, FS_EmptySet
  <2>3. /\ Phone!TokensOf(bad) \subseteq Tokens /\ (bad = {} <=> Phone!TokensOf(bad) = {})
        /\ Phone!TokensOf(fcm) \intersect gone = {}
        /\ Phone!TokensOf(others \ lost) \subseteq Tokens
        /\ Phone!TokensOf(others \ lost) \intersect gone = {}
    BY <1>4, <2>1
  <2>4. \A i \in fcm : rows[i].token \in Tokens
    BY <1>2, <2>1
  <2> DEFINE told == Phone!TokensOf(others \ lost)
  <2> HIDE DEF fcm, told
  <2>5. /\ into \in Phone!Sender /\ into.pc = "send" /\ into.left = fcm /\ into.drops = {}
        /\ into.silent = gone /\ into.sent = told
    <3>1. Phone!NoSender \in Phone!Sender /\ Phone!NoSender.drops = {}
      BY DEF Phone!NoSender, Phone!Sender, Phone!PushConstants
    <3>2. told \subseteq Tokens
      BY <2>3 DEF told
    <3>3. into = [Phone!NoSender EXCEPT !.pc = "send", !.left = fcm, !.silent = gone, !.sent = told]
      BY DEF told
    <3> HIDE DEF into
    <3> QED BY <1>3, <2>1, <3>1, <3>2, <3>3 DEF Phone!Sender
  <2> HIDE DEF into
  <2>6. /\ With(bad) \in Phone!Sender /\ With(bad).pc = "send" /\ With(bad).left = fcm
        /\ With(bad).drops = {} /\ With(bad).failed = Cardinality(bad)
        /\ With(bad).refused = Phone!TokensOf(bad)
        /\ With(bad).silent = gone /\ With(bad).sent = told
    BY <2>2, <2>3, <2>5 DEF Phone!Sender
  <2> HIDE DEF With
  <2>7. (told \union Phone!TokensOf(fcm)) \intersect gone = {}
    BY <2>3 DEF told
  <2> QED BY <2>2, <2>3, <2>4, <2>6, <2>7 DEF Sendable, Sending
<1>6. PICK bad \in {lost, fallback} : Phone!SenderBecomes(With(bad))
  BY CardPhone DEF Phone!BeginSend
<1>7. bad \subseteq devices \ fcm
  BY <1>1, <1>6
<1> QED BY <1>5, <1>6, <1>7, SenderKeeps DEF Phone!BeginSend

LEMMA SendV1Keeps ==
  ASSUME Phone!PushConstants, PushInv, Phone!SendV1
  PROVE  PushInv'
<1> DEFINE Accepted(i) == [sender EXCEPT !.left = Phone!Unsent(i), !.sent = @ \union {rows[i].token}]
<1>1. PICK i \in sender.left, a \in Phone!Answer :
        IF a = "accepted"
        THEN Phone!Continue(Accepted(i))
        ELSE Phone!Continue([Accepted(i) EXCEPT
                !.failed = @ + 1, !.refused = @ \union {rows[i].token},
                !.drops = IF a = "invalid" THEN Phone!Dropped({rows[i].token}) ELSE {}])
  BY DEF Phone!SendV1
<1>2. /\ sender \in Phone!Sender /\ sender.pc = "send" /\ sender.drops = {}
      /\ sender.left \subseteq Phone!Ids /\ rows[i].token \in Tokens
      /\ Cardinality(sender.left) + sender.failed <= MaxRows
      /\ sender.failed = 0 => sender.refused = {} \/ Collapses
      /\ sender.failed # 0 => sender.refused # {}
      /\ (sender.sent \union Phone!TokensOf(sender.left)) \intersect sender.silent = {}
      /\ UNCHANGED <<setting, rows, request, event, gone>>
  BY <1>1 DEF Phone!SendV1, PushInv, Phone!Sender, SenderOK, Sendable, Sending
<1>3. /\ Phone!Unsent(i) \subseteq sender.left
      /\ Cardinality(Phone!Unsent(i)) = Cardinality(sender.left) - 1
      /\ Cardinality(sender.left) \in Nat /\ Cardinality(Phone!Unsent(i)) \in Nat
  <2>1. IsFiniteSet(sender.left) /\ Phone!Unsent(i) \in SUBSET Phone!Ids
    BY <1>2, FiniteIds DEF Phone!Unsent
  <2> QED BY <1>1, <2>1, FS_RemoveElement, FS_CardinalityType, FiniteIds DEF Phone!Unsent
<1> DEFINE accepted == Accepted(i)
           failed == [accepted EXCEPT !.failed = @ + 1, !.refused = @ \union {rows[i].token},
                        !.drops = IF a = "invalid" THEN Phone!Dropped({rows[i].token}) ELSE {}]
<1>4. /\ accepted \in Phone!Sender /\ accepted.pc = "send" /\ accepted.left = Phone!Unsent(i)
      /\ accepted.failed = sender.failed /\ accepted.refused = sender.refused
      /\ accepted.drops = {} /\ accepted.silent = sender.silent
      /\ accepted.sent = sender.sent \union {rows[i].token}
  BY <1>2, <1>3 DEF Phone!Sender
<1>5. \A j \in Phone!Unsent(i) : rows[j].token \in Tokens
  BY <1>3 DEF PushInv, SenderOK, Sendable, Sending
<1>6. ((sender.sent \union {rows[i].token}) \union Phone!TokensOf(Phone!Unsent(i))) \intersect sender.silent = {}
  BY <1>1, <1>2, <1>3 DEF Phone!TokensOf
<1>7. CASE a = "accepted"
  <2>1. Cardinality(accepted.left) + accepted.failed <= MaxRows
    BY <1>2, <1>3, <1>4 DEF Phone!Sender, Phone!PushConstants
  <2>2. Phone!Continue(accepted)
    BY <1>1, <1>7
  <2> HIDE DEF accepted, Accepted
  <2>3. Sending(accepted)
    BY <1>2, <1>4, <1>5, <1>6, <2>1 DEF Sending
  <2> QED BY <1>2, <1>4, <2>2, <2>3, RequestContinues
<1>8. CASE a # "accepted"
  <2>1. Phone!Dropped({rows[i].token}) \subseteq {rows[i].token}
    BY DEF Phone!Dropped
  <2>2. sender.failed + 1 \in 0 .. MaxRows /\ sender.failed + 1 # 0
        /\ Cardinality(Phone!Unsent(i)) + (sender.failed + 1) <= MaxRows
    BY <1>2, <1>3 DEF Phone!Sender, Phone!PushConstants
  <2>3. Phone!Continue(failed)
    BY <1>1, <1>8
  <2> HIDE DEF accepted, Accepted
  <2>4. /\ failed \in Phone!Sender /\ failed.pc = "send" /\ failed.left = Phone!Unsent(i)
        /\ failed.failed = sender.failed + 1
        /\ failed.refused = sender.refused \union {rows[i].token}
        /\ failed.silent = sender.silent /\ failed.sent = sender.sent \union {rows[i].token}
    BY <1>2, <1>4, <2>1, <2>2 DEF Phone!Sender
  <2> HIDE DEF failed
  <2>5. Sending(failed)
    BY <1>5, <1>6, <2>2, <2>4 DEF Sending
  <2> QED BY <1>2, <2>3, <2>4, <2>5, RequestContinues
<1> QED BY <1>7, <1>8

\* A call for all devices that are left: those of `failed` were not reached, and `n`
\* of them are counted.
LEMMA AllSentKeeps ==
  ASSUME Phone!PushConstants, PushInv, sender.pc = "send",
         NEW failed \in SUBSET sender.left,
         NEW drops \in SUBSET Phone!TokensOf(failed),
         NEW n \in {0, Cardinality(failed)}, n = Cardinality(failed) \/ Collapses,
         Phone!Continue([Phone!AllSent EXCEPT
                           !.failed = @ + n,
                           !.refused = @ \union Phone!TokensOf(failed),
                           !.drops = drops]),
         UNCHANGED <<setting, rows, request, event, gone>>
  PROVE  PushInv'
<1> DEFINE onward == Phone!AllSent
           s == [onward EXCEPT
                   !.failed = @ + n,
                   !.refused = @ \union Phone!TokensOf(failed),
                   !.drops = drops]
<1>1. /\ sender \in Phone!Sender /\ sender.left \subseteq Phone!Ids
      /\ Cardinality(sender.left) + sender.failed <= MaxRows
      /\ sender.failed = 0 => sender.refused = {} \/ Collapses
      /\ sender.failed # 0 => sender.refused # {}
      /\ (sender.sent \union Phone!TokensOf(sender.left)) \intersect sender.silent = {}
  BY DEF PushInv, Phone!Sender, SenderOK, Sendable, Sending
<1>2. /\ Cardinality(failed) \in Nat /\ Cardinality(sender.left) \in Nat
      /\ Cardinality(failed) <= Cardinality(sender.left)
      /\ Cardinality(failed) = 0 <=> failed = {}
  <2>1. IsFiniteSet(sender.left) /\ failed \in SUBSET Phone!Ids
    BY <1>1, FiniteIds
  <2> QED BY <1>1, <2>1, FS_Subset, FS_CardinalityType, FiniteIds, FS_EmptySet
<1>3. /\ Phone!TokensOf(failed) \subseteq Tokens /\ (failed = {} <=> Phone!TokensOf(failed) = {})
      /\ Phone!TokensOf(sender.left) \subseteq Tokens
  <2>1. \A i \in sender.left : rows[i].token \in Tokens
    BY DEF PushInv, SenderOK, Sendable, Sending
  <2> QED BY <2>1 DEF Phone!TokensOf
<1>4. n \in Nat /\ sender.failed + n \in 0 .. MaxRows /\ (n = 0 => failed = {} \/ Collapses)
      /\ (n # 0 => failed # {}) /\ sender.failed \in Nat
  BY <1>1, <1>2 DEF Phone!Sender, Phone!PushConstants
<1>5. Cardinality({}) = 0 /\ Phone!TokensOf({}) = {}
  BY FS_EmptySet DEF Phone!TokensOf
<1>6. /\ onward \in Phone!Sender /\ onward.pc = "send" /\ onward.left = {} /\ onward.failed = sender.failed
      /\ onward.refused = sender.refused /\ onward.silent = sender.silent
      /\ onward.sent = sender.sent \union Phone!TokensOf(sender.left)
  BY <1>1, <1>3 DEF Phone!AllSent, Phone!Sender
<1>7. Phone!Continue(s)
  OBVIOUS
<1> HIDE DEF onward
<1>8. /\ s \in Phone!Sender /\ s.pc = "send" /\ s.left = {} /\ s.failed = sender.failed + n
      /\ s.refused = sender.refused \union Phone!TokensOf(failed)
      /\ s.silent = sender.silent /\ s.sent = sender.sent \union Phone!TokensOf(sender.left)
  BY <1>3, <1>4, <1>6 DEF Phone!Sender
<1> HIDE DEF s
<1>9. /\ s.failed = 0 => s.refused = {} \/ Collapses
      /\ s.failed # 0 => s.refused # {}
  <2>1. s.failed = 0 => sender.failed = 0 /\ n = 0
    BY <1>4, <1>8
  <2>2. s.failed # 0 => sender.failed # 0 \/ n # 0
    BY <1>4, <1>8
  <2> QED BY <1>1, <1>3, <1>4, <1>8, <2>1, <2>2
<1>10. Cardinality(s.left) + s.failed <= MaxRows
  BY <1>4, <1>5, <1>8 DEF Phone!PushConstants
<1>11. (s.sent \union Phone!TokensOf(s.left)) \intersect s.silent = {}
  BY <1>1, <1>5, <1>8
<1>12. Sending(s)
  BY <1>8, <1>9, <1>10, <1>11 DEF Sending
<1> QED BY <1>7, <1>8, <1>12, RequestContinues

LEMMA SendLegacyKeeps ==
  ASSUME Phone!PushConstants, PushInv, Phone!SendLegacy
  PROVE  PushInv'
<1>1. PICK answer \in [Phone!TokensOf(sender.left) -> Phone!Answer] :
        LET failed == {i \in sender.left : answer[rows[i].token] # "accepted"}
        IN  Phone!Continue([Phone!AllSent EXCEPT
               !.failed = @ + Phone!Collapsed(Cardinality(failed)),
               !.refused = @ \union Phone!TokensOf(failed),
               !.drops = Phone!Dropped(Phone!InvalidDevices(answer))])
  BY CardPhone DEF Phone!SendLegacy
<1> DEFINE failed == {i \in sender.left : answer[rows[i].token] # "accepted"}
           n == Phone!Collapsed(Cardinality(failed))
<1>2. Phone!Dropped(Phone!InvalidDevices(answer)) \in SUBSET Phone!TokensOf(failed)
  <2>1. ASSUME NEW t \in Phone!InvalidDevices(answer) PROVE t \in Phone!TokensOf(failed)
    <3>1. t \in Phone!TokensOf(sender.left) /\ answer[t] = "invalid"
      BY DEF Phone!InvalidDevices
    <3>2. PICK i \in sender.left : t = rows[i].token
      BY <3>1 DEF Phone!TokensOf
    <3> QED BY <3>1, <3>2 DEF Phone!TokensOf
  <2> QED BY <2>1 DEF Phone!Dropped
<1>3. n \in {0, Cardinality(failed)} /\ (n = Cardinality(failed) \/ Collapses)
  BY DEF Phone!Collapsed, Collapses, Phone!SendLegacy
<1>4. failed \in SUBSET sender.left
  OBVIOUS
<1>5. Phone!Continue([Phone!AllSent EXCEPT
         !.failed = @ + n,
         !.refused = @ \union Phone!TokensOf(failed),
         !.drops = Phone!Dropped(Phone!InvalidDevices(answer))])
  BY <1>1
<1>6. sender.pc = "send" /\ UNCHANGED <<setting, rows, request, event, gone>>
  BY DEF Phone!SendLegacy
<1> HIDE DEF failed, n
<1> QED BY <1>2, <1>3, <1>4, <1>5, <1>6, AllSentKeeps

LEMMA FailLegacyKeeps ==
  ASSUME Phone!PushConstants, PushInv, Phone!FailLegacy
  PROVE  PushInv'
<1>1. PICK a \in Phone!Answer \ {"accepted"} :
        Phone!Continue([Phone!AllSent EXCEPT
           !.failed = @ + Cardinality(sender.left),
           !.refused = @ \union Phone!TokensOf(sender.left),
           !.drops = IF a = "invalid" THEN Phone!Dropped(Phone!TokensOf(sender.left)) ELSE {}])
  BY CardPhone DEF Phone!FailLegacy
<1> DEFINE drops == IF a = "invalid" THEN Phone!Dropped(Phone!TokensOf(sender.left)) ELSE {}
<1>2. drops \in SUBSET Phone!TokensOf(sender.left)
  BY DEF Phone!Dropped
<1> HIDE DEF drops
<1> QED BY <1>1, <1>2, AllSentKeeps DEF Phone!FailLegacy, drops

LEMMA DeactivateKeeps ==
  ASSUME Phone!PushConstants, PushInv, Phone!Deactivate
  PROVE  PushInv'
<1>1. /\ rows' = [i \in Phone!Ids |-> IF rows[i].token \in sender.drops
                                      THEN [rows[i] EXCEPT !.active = FALSE] ELSE rows[i]]
      /\ sender' = [sender EXCEPT !.pc = "send", !.drops = {}]
      /\ UNCHANGED <<setting, request, event, gone>>
  BY DEF Phone!Deactivate, Phone!SenderBecomes
<1>2. ASSUME NEW i \in Phone!Ids
      PROVE  /\ rows'[i] \in Phone!Row /\ rows'[i].token = rows[i].token
             /\ rows'[i].active => rows[i].active
  BY <1>1 DEF PushInv, Phone!TypeOK, Phone!Row
<1>3. rows' \in [Phone!Ids -> Phone!Row]
  BY <1>1, <1>2
<1>4. /\ sender' \in Phone!Sender /\ sender'.drops = {} /\ sender'.left = sender.left
      /\ sender'.failed = sender.failed /\ sender'.refused = sender.refused
      /\ sender'.sent = sender.sent /\ sender'.silent = sender.silent
      /\ sender.left \subseteq Phone!Ids
  BY <1>1 DEF PushInv, Phone!TypeOK, Phone!Sender
<1>5. Phone!TypeOK' /\ Phone!ResultsAddUp'
  BY <1>1, <1>3, <1>4 DEF PushInv, Phone!TypeOK, Phone!ResultsAddUp
<1>6. SenderOK'
  <2>1. Phone!TokensOf(sender.left)' = Phone!TokensOf(sender.left)
    BY <1>2, <1>4 DEF Phone!TokensOf
  <2>2. Sending(sender)'
    BY <1>1, <1>2, <1>4, <2>1 DEF PushInv, SenderOK, Sendable, Sending, Collapses
  <2> QED BY <1>4, <2>2 DEF SenderOK, Sendable
<1>7. RowsOK' /\ GoneOK' /\ GoneIsInactive'
  BY <1>1, <1>2 DEF PushInv, RowsOK, GoneOK, Phone!Meets, GoneIsInactive
<1>9. ASSUME NEW r \in PushRequests PROVE RequestOK(r)'
  <2>1. request[r].row # 0 => request[r].row \in Phone!Ids
    BY DEF PushInv, Phone!TypeOK, Phone!Request
  <2>2. Phone!RowsOf(request[r].token)' = Phone!RowsOf(request[r].token)
    BY <1>1, <1>2 DEF Phone!RowsOf
  <2> QED BY <1>1, <1>2, <2>1, <2>2 DEF PushInv, RequestOK, Phone!Meets
<1> QED BY <1>5, <1>6, <1>7, <1>9 DEF PushInv

LEMMA NoSenderOK ==
  ASSUME Phone!PushConstants
  PROVE  /\ Sendable(Phone!NoSender)
         /\ Phone!NoSender.left = {} /\ Phone!NoSender.drops = {} /\ Phone!NoSender.refused = {}
<1>1. Cardinality({}) = 0 /\ Phone!TokensOf({}) = {}
  BY FS_EmptySet DEF Phone!TokensOf
<1> QED BY <1>1 DEF Phone!NoSender, Sendable, Sending, Phone!Sender, Phone!PushConstants

LEMMA RecordKeeps ==
  ASSUME Phone!PushConstants, PushInv, Phone!Record
  PROVE  PushInv'
<1>1. /\ event' = [status |-> IF Phone!FailuresCounted = 0 THEN "ok" ELSE "partial_failed",
                   complete |-> sender.refused = {}]
      /\ sender' = Phone!NoSender /\ UNCHANGED <<setting, rows, request, gone>>
  BY DEF Phone!Record, Phone!SenderBecomes
<1>2. Sendable(Phone!NoSender) /\ Phone!TokensOf(Phone!NoSender.left)' = {}
  BY NoSenderOK DEF Phone!TokensOf
<1>3. Phone!TypeOK' /\ SenderOK'
  BY <1>1, <1>2, NoSenderOK DEF PushInv, Phone!TypeOK, Phone!Event, Sendable, Sending, SenderOK,
     Collapses
<1>4. Phone!ResultsAddUp'
  <2>1. /\ sender.failed = 0 => sender.refused = {} \/ Collapses
        /\ sender.failed # 0 => sender.refused # {}
        /\ setting.fcm \in {"none", "legacy", "v1"}
    BY DEF PushInv, SenderOK, Sendable, Sending, Phone!TypeOK, Phone!Settings
  <2>2. Phone!FailuresCounted # 0 => sender.failed # 0
    BY DEF Phone!FailuresCounted, Phone!Collapsed
  <2>3. Phone!FailuresCounted = 0 => sender.failed = 0 \/ Collapses
    BY DEF Phone!FailuresCounted, Phone!Collapsed, Collapses
  <2> QED BY <1>1, <2>1, <2>2, <2>3 DEF Phone!ResultsAddUp, Collapses
<1>5. RowsOK' /\ GoneOK' /\ GoneIsInactive' /\ \A r \in PushRequests : RequestOK(r)'
  BY <1>1 DEF PushInv, RowsOK, GoneOK, GoneIsInactive, RequestOK,
     Phone!Meets, Phone!RowsOf
<1> QED BY <1>3, <1>4, <1>5 DEF PushInv

LEMMA PushStep ==
  ASSUME Phone!PushConstants, PushInv, [Phone!Next]_Phone!vars
  PROVE  PushInv'
<1>1. ASSUME NEW r \in PushRequests, Phone!Serve(r) PROVE PushInv'
  BY <1>1, BeginKeeps, RefreshKeeps, InsertKeeps, UnregisterKeeps,
     AbandonKeeps DEF Phone!Serve
<1>2. CASE Phone!LoseSender
  BY <1>2, NoSenderOK, SenderKeeps DEF Phone!LoseSender
<1>3. CASE Phone!Notify
  BY <1>2, <1>3, BeginSendKeeps, SendV1Keeps, SendLegacyKeeps, FailLegacyKeeps,
     DeactivateKeeps,
     RecordKeeps DEF Phone!Notify
<1>4. CASE UNCHANGED Phone!vars
  BY <1>4, SenderStays DEF Phone!vars, PushInv, Phone!TypeOK, RowsOK, GoneOK, GoneIsInactive,
     RequestOK, Phone!RowsOf, Phone!Meets
<1> QED BY <1>1, <1>3, <1>4 DEF Phone!Next

LEMMA PushStart ==
  ASSUME Phone!PushConstants, Phone!Init
  PROVE  PushInv
<1>1. Phone!NoRow \in Phone!Row /\ Phone!NoRequest \in Phone!Request
  BY DEF Phone!NoRow, Phone!NoRequest, Phone!Row, Phone!Request
<1>2. Phone!TypeOK /\ SenderOK /\ Phone!ResultsAddUp
  BY <1>1, NoSenderOK DEF Phone!Init, Phone!TypeOK, Sendable, Sending, SenderOK,
     Phone!ResultsAddUp, Phone!Event
<1>3. RowsOK /\ GoneOK /\ GoneIsInactive /\ \A r \in PushRequests : RequestOK(r)
  BY DEF Phone!Init, Phone!NoRow, Phone!NoRequest, RowsOK, GoneOK,
     GoneIsInactive, RequestOK
<1> QED BY <1>2, <1>3 DEF PushInv

LEMMA PushSafe ==
  ASSUME PushInv
  PROVE  Phone!TypeOK /\ Phone!UnregisteredStaysSilent /\ Phone!ResultsAddUp
BY DEF PushInv, SenderOK, Sendable, Sending, Phone!UnregisteredStaysSilent

----------------------------------------------------------------------------
\* TrainingJob

\* Of a job nothing has disturbed: one execution at most has begun ...
OneRuns ==
    /\ \A d, e \in Job!Executions : worker[d].pc # "idle" /\ worker[e].pc # "idle" => d = e
    /\ \A e \in Job!Executions : worker[e].pc # "idle" => message \in {"taken", "gone"}
    /\ jobRequest = "idle" => message = "none"

\* ... what has a result has ended ...
ResultIsLast ==
    result # "none" => /\ message = "gone"
                       /\ \A e \in Job!Executions : worker[e].pc \in {"idle", "ended"}

\* ... nobody has given the job up, and a record that says it failed repeats the
\* result ...
NotGivenUp ==
    /\ jobRow.fresh /\ jobRow.error # "runtime"
    /\ record.fresh
    /\ record.error # "runtime"
    /\ record.status = "failed" => result = "failed"

\* ... and so does what a reconciliation is about to write.
ReaderOK ==
    /\ reader.pc \in {"record", "write"} => reader.job.error # "runtime"
    /\ reader.pc = "record" => reader.job.fresh
    /\ reader.pc = "write" /\ "status" \in reader.changes /\ reader.job.status = "failed" =>
          result = "failed"

JobInv ==
    /\ Job!TypeOK /\ Job!OneActive
    /\ ~disturbed => OneRuns /\ ResultIsLast /\ NotGivenUp /\ ReaderOK
    /\ Job!FailureIsReal

JobMoves == Job!Init /\ [][Job!Next]_Job!vars

LEMMA BecomeOne ==
  ASSUME Job!TypeOK, NEW e \in Job!Executions, NEW w \in Job!Worker, Job!Become(e, w)
  PROVE  /\ worker' \in [Job!Executions -> Job!Worker]
         /\ worker'[e] = w
         /\ \A d \in Job!Executions \ {e} : worker'[d] = worker[d]
BY DEF Job!TypeOK, Job!Become

\* What an execution does to itself alone.
LEMMA WorksAlone ==
  ASSUME JobInv, NEW e \in Job!Executions, NEW w \in Job!Worker, Job!Become(e, w),
         worker[e].pc \notin {"idle", "fail_record", "ended"}, w.pc # "idle",
         UNCHANGED <<automatic, jobRow, record, jobRequest, message, active, result, reader, disturbed>>
  PROVE  JobInv'
<1>1. /\ worker' \in [Job!Executions -> Job!Worker] /\ worker'[e] = w
      /\ \A d \in Job!Executions \ {e} : worker'[d] = worker[d]
  BY BecomeOne DEF JobInv
<1>2. Job!TypeOK' /\ Job!OneActive'
  BY <1>1 DEF JobInv, Job!TypeOK, Job!OneActive
<1>3. Job!FailureIsReal'
  BY <1>1 DEF JobInv, Job!FailureIsReal
<1>4. ~disturbed => OneRuns' /\ ResultIsLast' /\ NotGivenUp' /\ ReaderOK'
  BY <1>1 DEF JobInv, OneRuns, ResultIsLast, NotGivenUp, ReaderOK
<1> QED BY <1>2, <1>3, <1>4 DEF JobInv

LEMMA WorkerTypes ==
  ASSUME Job!TypeOK, NEW e \in Job!Executions
  PROVE  /\ worker[e] \in Job!Worker
         /\ \A pc \in {"persist", "record", "work", "gate", "publish", "fail", "fail_record", "ended"} :
               [worker[e] EXCEPT !.pc = pc] \in Job!Worker /\ [worker[e] EXCEPT !.pc = pc].pc = pc
         /\ \A stage \in Job!Stage :
               /\ [worker[e] EXCEPT !.pc = "persist", !.stage = stage] \in Job!Worker
               /\ [worker[e] EXCEPT !.pc = "persist", !.stage = stage].pc = "persist"
         /\ \A pc \in {"fail", "ended"} :
               [Job!IdleWorker EXCEPT !.pc = pc] \in Job!Worker /\ [Job!IdleWorker EXCEPT !.pc = pc].pc = pc
<1>1. worker[e] \in Job!Worker /\ Job!IdleWorker \in Job!Worker
  BY DEF Job!TypeOK, Job!Worker, Job!IdleWorker, Job!Stage, Job!Status
<1> QED BY <1>1 DEF Job!Worker

LEMMA QuietKeeps ==
  ASSUME JobInv, NEW e \in Job!Executions,
         \/ Job!Heartbeat(e) \/ Job!RegisterModel(e) \/ Job!AssessGate(e) \/ Job!PublishModel(e)
         \/ Job!VerifyModel(e) \/ Job!ActivateModel(e) \/ Job!Raise(e)
         \/ Job!Proceed(e, "validating", "executing") \/ Job!Proceed(e, "executing", "registering")
  PROVE  JobInv'
<1>1. {"registering", "executing", "completed", "verifying", "deploying"} \subseteq Job!Stage
  BY DEF Job!Stage
<1>2. Job!TypeOK
  BY DEF JobInv
<1>3. CASE Job!Heartbeat(e) \/ Job!RegisterModel(e)
  BY <1>2, <1>3, WorkerTypes, WorksAlone DEF Job!Heartbeat, Job!RegisterModel, Job!At,
     Job!Goto
<1>4. CASE Job!AssessGate(e) \/ Job!PublishModel(e)
  BY <1>1, <1>2, <1>4, WorkerTypes, WorksAlone DEF Job!AssessGate, Job!PublishModel,
     Job!Goto, Job!Enter
<1>5. CASE Job!VerifyModel(e) \/ Job!Proceed(e, "validating", "executing") \/ Job!Proceed(e, "executing", "registering")
  BY <1>1, <1>2, <1>5, WorkerTypes, WorksAlone DEF Job!VerifyModel, Job!Proceed, Job!At,
     Job!Enter
<1>6. CASE Job!Raise(e)
  BY <1>2, <1>6, WorkerTypes, WorksAlone DEF Job!Raise
<1>7. CASE Job!ActivateModel(e)
  <2> DEFINE w == [worker[e] EXCEPT !.pc = "persist", !.stage = "completed", !.activates = TRUE]
  <2>1. w \in Job!Worker /\ w.pc = "persist" /\ Job!Become(e, w)
    BY <1>1, <1>2, <1>7, WorkerTypes DEF Job!ActivateModel, Job!Worker
  <2> HIDE DEF w
  <2> QED BY <1>7, <2>1, WorksAlone DEF Job!ActivateModel, Job!At
<1> QED BY <1>3, <1>4, <1>5, <1>6, <1>7

LEMMA TakeKeeps ==
  ASSUME JobInv, NEW e \in Job!Executions, Job!Take(e)
  PROVE  JobInv'
<1> DEFINE w == [Job!IdleWorker EXCEPT !.pc = IF jobRow.status = "absent" THEN "fail" ELSE "persist",
                                       !.obj = jobRow.status]
<1>1. /\ message \in {"queued", "taken"} /\ worker[e].pc = "idle" /\ message' = "taken"
      /\ Job!Become(e, w)
      /\ disturbed' = (disturbed \/ message = "taken")
      /\ UNCHANGED <<automatic, jobRow, record, jobRequest, active, result, reader>>
  BY DEF Job!Take
<1>2. w \in Job!Worker /\ w.pc \in {"fail", "persist"}
  <2>1. Job!IdleWorker \in Job!Worker
    BY DEF Job!Worker, Job!IdleWorker, Job!Stage, Job!Status
  <2> QED BY <2>1 DEF JobInv, Job!TypeOK, Job!Job, Job!Worker
<1> HIDE DEF w
<1>3. /\ worker' \in [Job!Executions -> Job!Worker] /\ worker'[e] = w
      /\ \A d \in Job!Executions \ {e} : worker'[d] = worker[d]
  BY <1>1, <1>2, BecomeOne DEF JobInv
<1>4. Job!TypeOK' /\ Job!OneActive'
  BY <1>1, <1>3 DEF JobInv, Job!TypeOK, Job!OneActive
<1>5. Job!FailureIsReal'
  BY <1>1, <1>2, <1>3 DEF JobInv, Job!FailureIsReal
<1>6. ~disturbed' => OneRuns' /\ ResultIsLast' /\ NotGivenUp' /\ ReaderOK'
  BY <1>1, <1>2, <1>3 DEF JobInv, OneRuns, ResultIsLast, NotGivenUp, ReaderOK
<1> QED BY <1>4, <1>5, <1>6 DEF JobInv

LEMMA PersistStageKeeps ==
  ASSUME JobInv, NEW e \in Job!Executions, Job!PersistStage(e)
  PROVE  JobInv'
<1> DEFINE status == Job!StatusOf(worker[e].stage)
           w == [worker[e] EXCEPT !.pc = "record", !.obj = status, !.activates = FALSE]
<1>1. /\ worker[e].pc = "persist" /\ Job!Become(e, w)
      /\ jobRow' = [jobRow EXCEPT !.status = IF worker[e].obj = status THEN @ ELSE status, !.fresh = TRUE]
      /\ active' \in {{e}, active}
      /\ UNCHANGED <<automatic, record, jobRequest, message, result, reader, disturbed>>
  BY DEF Job!PersistStage, Job!Committed
<1>2. status \in {"running", "completed"} /\ status \in Job!Status
  BY DEF Job!StatusOf, Job!Status
<1> HIDE DEF status
<1>3. w \in Job!Worker /\ w.pc = "record"
  BY <1>2 DEF JobInv, Job!TypeOK, Job!Worker
<1>4. /\ jobRow' \in Job!Job /\ jobRow'.fresh /\ jobRow'.error = jobRow.error
      /\ jobRow'.status = "failed" => jobRow.status = "failed"
  BY <1>1, <1>2 DEF JobInv, Job!TypeOK, Job!Job
<1> HIDE DEF w
<1>5. /\ worker' \in [Job!Executions -> Job!Worker] /\ worker'[e] = w
      /\ \A d \in Job!Executions \ {e} : worker'[d] = worker[d]
  BY <1>1, <1>3, BecomeOne DEF JobInv
<1>6. Job!TypeOK'
  BY <1>1, <1>4, <1>5 DEF JobInv, Job!TypeOK
<1>7. Job!OneActive'
  <2>1. CASE active' = active
    BY <2>1 DEF JobInv, Job!OneActive
  <2>2. CASE active' = {e}
    BY <2>2, FS_Singleton, CardJob DEF Job!OneActive
  <2> QED BY <1>1, <2>1, <2>2
<1>8. Job!FailureIsReal'
  BY <1>1, <1>3, <1>4, <1>5 DEF JobInv, Job!FailureIsReal
<1>9. ~disturbed => OneRuns' /\ ResultIsLast' /\ NotGivenUp' /\ ReaderOK'
  BY <1>1, <1>3, <1>4, <1>5 DEF JobInv, OneRuns, ResultIsLast, NotGivenUp, ReaderOK
<1> QED BY <1>1, <1>6, <1>7, <1>8, <1>9 DEF JobInv

LEMMA SaysTypes ==
  ASSUME NEW status \in Job!Status, NEW error \in {"none", "execution", "runtime"}
  PROVE  /\ Job!Says(status, error) \in Job!Job /\ Job!Says(status, error).status = status
         /\ Job!Says(status, error).error = error /\ Job!Says(status, error).fresh
BY DEF Job!Says, Job!Job

LEMMA RecordStageKeeps ==
  ASSUME JobInv, NEW e \in Job!Executions, Job!RecordStage(e)
  PROVE  JobInv'
<1> DEFINE s == Job!Says(Job!StatusOf(worker[e].stage), "none")
           w == [worker[e] EXCEPT !.pc = "work"]
<1>1. /\ worker[e].pc = "record" /\ Job!Become(e, w)
      /\ \/ record' = s /\ disturbed' = disturbed
         \/ record' = record /\ disturbed' = TRUE
      /\ UNCHANGED <<automatic, jobRow, jobRequest, message, active, result, reader>>
  BY DEF Job!RecordStage, Job!Goto
<1>2. s \in Job!Job /\ s.status # "failed" /\ s.error = "none" /\ s.fresh
  <2>1. Job!StatusOf(worker[e].stage) \in Job!Status /\ Job!StatusOf(worker[e].stage) # "failed"
    BY DEF Job!StatusOf, Job!Status
  <2> QED BY <2>1, SaysTypes
<1>3. w \in Job!Worker /\ w.pc = "work"
  BY WorkerTypes DEF JobInv
<1> HIDE DEF s, w
<1>4. /\ worker' \in [Job!Executions -> Job!Worker] /\ worker'[e] = w
      /\ \A d \in Job!Executions \ {e} : worker'[d] = worker[d]
  BY <1>1, <1>3, BecomeOne DEF JobInv
<1>5. Job!TypeOK' /\ Job!OneActive'
  BY <1>1, <1>2, <1>4 DEF JobInv, Job!TypeOK, Job!OneActive
<1>6. Job!FailureIsReal'
  BY <1>1, <1>3, <1>4 DEF JobInv, Job!FailureIsReal, Job!TypeOK
<1>7. ~disturbed' => OneRuns' /\ ResultIsLast' /\ NotGivenUp' /\ ReaderOK'
  BY <1>1, <1>2, <1>3, <1>4 DEF JobInv, Job!TypeOK, OneRuns, ResultIsLast, NotGivenUp,
     ReaderOK
<1> QED BY <1>5, <1>6, <1>7 DEF JobInv

LEMMA CompleteKeeps ==
  ASSUME JobInv, NEW e \in Job!Executions, Job!Complete(e)
  PROVE  JobInv'
<1> DEFINE w == [Job!IdleWorker EXCEPT !.pc = "ended"]
<1>1. /\ worker[e].pc = "work" /\ Job!Become(e, w) /\ result' = "completed" /\ message' = "gone"
      /\ UNCHANGED <<automatic, jobRow, record, jobRequest, active, reader, disturbed>>
  BY DEF Job!Complete, Job!At, Job!Respond
<1>2. w \in Job!Worker /\ w.pc = "ended"
  BY WorkerTypes DEF JobInv
<1> HIDE DEF w
<1>3. /\ worker' \in [Job!Executions -> Job!Worker] /\ worker'[e] = w
      /\ \A d \in Job!Executions \ {e} : worker'[d] = worker[d]
  BY <1>1, <1>2, BecomeOne DEF JobInv
<1>4. ~disturbed => result = "none" /\ \A d \in Job!Executions \ {e} : worker[d].pc = "idle"
  BY <1>1 DEF JobInv, ResultIsLast, OneRuns
<1>5. Job!TypeOK' /\ Job!OneActive'
  BY <1>1, <1>2, <1>3 DEF JobInv, Job!TypeOK, Job!OneActive
<1>6. Job!FailureIsReal'
  BY <1>1, <1>3, <1>4 DEF JobInv, Job!FailureIsReal
<1>7. ~disturbed => OneRuns' /\ ResultIsLast'
  BY <1>1, <1>2, <1>3, <1>4 DEF JobInv, OneRuns, ResultIsLast
<1>8. ~disturbed => NotGivenUp' /\ ReaderOK'
  BY <1>1, <1>4 DEF JobInv, NotGivenUp, ReaderOK
<1> QED BY <1>1, <1>5, <1>6, <1>7, <1>8 DEF JobInv

LEMMA MarkFailureKeeps ==
  ASSUME JobInv, NEW e \in Job!Executions, Job!MarkFailure(e)
  PROVE  JobInv'
<1> DEFINE w == [worker[e] EXCEPT !.pc = "fail_record"]
<1>1. /\ worker[e].pc = "fail" /\ Job!Become(e, w) /\ jobRow' \in {jobRow, Job!Says("failed", "execution")}
      /\ UNCHANGED <<automatic, record, jobRequest, message, active, result, reader, disturbed>>
  BY DEF Job!MarkFailure, Job!Goto
<1>2. w \in Job!Worker /\ w.pc = "fail_record"
  BY WorkerTypes DEF JobInv
<1> HIDE DEF w
<1>3. /\ worker' \in [Job!Executions -> Job!Worker] /\ worker'[e] = w
      /\ \A d \in Job!Executions \ {e} : worker'[d] = worker[d]
  BY <1>1, <1>2, BecomeOne DEF JobInv
<1>4. jobRow' \in Job!Job /\ (jobRow.fresh => jobRow'.fresh) /\ (jobRow.error # "runtime" => jobRow'.error # "runtime")
  BY <1>1, SaysTypes DEF JobInv, Job!TypeOK, Job!Status
<1>5. Job!TypeOK' /\ Job!OneActive'
  BY <1>1, <1>3, <1>4 DEF JobInv, Job!TypeOK, Job!OneActive
<1>6. Job!FailureIsReal'
  BY <1>2, <1>3 DEF Job!FailureIsReal
<1>7. ~disturbed => OneRuns' /\ ResultIsLast' /\ NotGivenUp' /\ ReaderOK'
  BY <1>1, <1>2, <1>3, <1>4 DEF JobInv, OneRuns, ResultIsLast, NotGivenUp, ReaderOK
<1> QED BY <1>1, <1>5, <1>6, <1>7 DEF JobInv

LEMMA RecordFailureKeeps ==
  ASSUME JobInv, NEW e \in Job!Executions, Job!RecordFailure(e)
  PROVE  JobInv'
<1> DEFINE s == Job!Says("failed", "execution")
           w == [Job!IdleWorker EXCEPT !.pc = "ended"]
<1>1. /\ worker[e].pc = "fail_record" /\ Job!Become(e, w) /\ result' = "failed" /\ message' = "gone"
      /\ \/ record' = s /\ disturbed' = disturbed
         \/ record' = record /\ disturbed' = TRUE
      /\ UNCHANGED <<automatic, jobRow, jobRequest, active, reader>>
  BY DEF Job!RecordFailure, Job!Respond
<1>2. s \in Job!Job /\ s.error = "execution" /\ s.fresh
  BY SaysTypes DEF Job!Status
<1>3. w \in Job!Worker /\ w.pc = "ended"
  BY WorkerTypes DEF JobInv
<1> HIDE DEF s, w
<1>4. /\ worker' \in [Job!Executions -> Job!Worker] /\ worker'[e] = w
      /\ \A d \in Job!Executions \ {e} : worker'[d] = worker[d]
  BY <1>1, <1>3, BecomeOne DEF JobInv
<1>5. ~disturbed => \A d \in Job!Executions \ {e} : worker[d].pc = "idle"
  BY <1>1 DEF JobInv, OneRuns
<1>6. Job!TypeOK' /\ Job!OneActive'
  BY <1>1, <1>2, <1>4 DEF JobInv, Job!TypeOK, Job!OneActive
<1>7. Job!FailureIsReal'
  BY <1>1 DEF Job!FailureIsReal
<1>8. ~disturbed' => OneRuns' /\ ResultIsLast'
  BY <1>1, <1>3, <1>4, <1>5 DEF JobInv, Job!TypeOK, OneRuns, ResultIsLast
<1>9. ~disturbed' => NotGivenUp' /\ ReaderOK'
  BY <1>1, <1>2 DEF JobInv, Job!TypeOK, NotGivenUp, ReaderOK
<1> QED BY <1>6, <1>7, <1>8, <1>9 DEF JobInv

\* What disturbs a job has nothing to keep but the types.
LEMMA DisturbedKeeps ==
  ASSUME Job!TypeOK', Job!OneActive', disturbed'
  PROVE  JobInv'
BY DEF JobInv, Job!FailureIsReal

LEMMA DieKeeps ==
  ASSUME JobInv, NEW e \in Job!Executions, Job!Die(e)
  PROVE  JobInv'
<1>1. /\ worker' \in [Job!Executions -> Job!Worker]
  BY WorkerTypes, BecomeOne DEF JobInv, Job!Die
<1> QED BY <1>1, DisturbedKeeps DEF Job!Die, JobInv, Job!TypeOK, Job!OneActive

LEMMA TimeKeeps ==
  ASSUME JobInv, Job!Time
  PROVE  JobInv'
<1>1. CASE Job!AgeRow
  <2>1. jobRow' \in Job!Job
    BY <1>1 DEF Job!AgeRow, JobInv, Job!TypeOK, Job!Job
  <2> QED BY <1>1, <2>1, DisturbedKeeps DEF Job!AgeRow, JobInv, Job!TypeOK, Job!OneActive
<1>2. CASE Job!AgeRecord
  <2>1. record' \in Job!Job
    BY <1>2 DEF Job!AgeRecord, JobInv, Job!TypeOK, Job!Job
  <2> QED BY <1>2, <2>1, DisturbedKeeps DEF Job!AgeRecord, JobInv, Job!TypeOK, Job!OneActive
<1>3. CASE Job!Expire
  <2>1. record' \in Job!Job /\ record'.status = "absent" /\ record'.fresh /\ record'.error = "none"
    BY <1>3 DEF Job!Expire, Job!Absent, Job!Job, Job!Status
  <2>2. UNCHANGED <<automatic, jobRow, jobRequest, message, worker, active, result, reader, disturbed>>
    BY <1>3 DEF Job!Expire
  <2>3. Job!TypeOK' /\ Job!OneActive' /\ Job!FailureIsReal'
    BY <2>1, <2>2 DEF JobInv, Job!TypeOK, Job!OneActive, Job!FailureIsReal
  <2>4. ~disturbed => OneRuns' /\ ResultIsLast' /\ NotGivenUp' /\ ReaderOK'
    BY <2>1, <2>2 DEF JobInv, OneRuns, ResultIsLast, NotGivenUp, ReaderOK
  <2> QED BY <2>2, <2>3, <2>4 DEF JobInv
<1> QED BY <1>1, <1>2, <1>3 DEF Job!Time

LEMMA SubmitKeeps ==
  ASSUME JobInv, Job!Submit
  PROVE  JobInv'
<1>1. Job!Says("pending", "none") \in Job!Job /\ Job!Says("pending", "none").status = "pending"
      /\ Job!Says("pending", "none").error = "none" /\ Job!Says("pending", "none").fresh
  BY SaysTypes DEF Job!Status
<1>2. /\ jobRow' \in {jobRow, Job!Says("pending", "none")} /\ record' \in {record, Job!Says("pending", "none")}
      /\ UNCHANGED <<automatic, worker, active, result, reader, disturbed>>
      /\ jobRequest' \in {"published", "seeded", "ended"}
      /\ message' = message \/ (jobRequest = "idle" /\ message' = "queued")
  BY DEF Job!Submit, Job!PublishTask, Job!SeedRecord, Job!CommitJob, Job!AbortRequest,
     Job!Request
<1>3. Job!TypeOK' /\ Job!OneActive' /\ Job!FailureIsReal'
  BY <1>1, <1>2 DEF JobInv, Job!TypeOK, Job!OneActive, Job!FailureIsReal
<1>4. ~disturbed => OneRuns' /\ ResultIsLast' /\ NotGivenUp' /\ ReaderOK'
  BY <1>1, <1>2 DEF JobInv, OneRuns, ResultIsLast, NotGivenUp, ReaderOK
<1> QED BY <1>2, <1>3, <1>4 DEF JobInv

\* What a reconciliation makes of a job and a record nobody has given up.
LEMMA ReconciledOne ==
  ASSUME NEW job \in Job!Job, NEW seen \in Job!Job
  PROVE  /\ Job!Reconciled(job, seen) \in Job!Job
         /\ job.fresh /\ job.error # "runtime" /\ seen.fresh /\ seen.error # "runtime" =>
               /\ Job!Reconciled(job, seen).error # "runtime"
               /\ Job!Reconciled(job, seen).status = "failed" /\ job.status # "failed" =>
                     seen.status = "failed"
BY DEF Job!Reconciled, Job!Job, Job!Status, Job!Terminal

LEMMA HealedOne ==
  ASSUME JobInv
  PROVE  /\ Job!Healed \in Job!Job
         /\ ~disturbed => /\ Job!Healed.fresh /\ Job!Healed.error # "runtime"
                          /\ Job!Healed.status = "failed" => result = "failed"
<1>1. CASE Job!Healed = record
  BY <1>1 DEF JobInv, Job!TypeOK, NotGivenUp
<1>2. CASE result # "none" /\ Job!Healed = Job!Says(result, IF result = "failed" THEN "execution" ELSE "none")
  <2>1. result \in Job!Status
    BY <1>2 DEF JobInv, Job!TypeOK, Job!Status
  <2> QED BY <1>2, <2>1, SaysTypes
<1> QED BY <1>1, <1>2 DEF Job!Healed

\* What a reconciliation does before it writes.
LEMMA ReaderKeeps ==
  ASSUME JobInv, NEW r \in Job!Reader, Job!ReaderBecomes(r), record' \in Job!Job,
         ~disturbed => /\ record'.fresh /\ record'.error # "runtime"
                       /\ record'.status = "failed" => result = "failed"
                       /\ r.pc \in {"record", "write"} => r.job.error # "runtime"
                       /\ r.pc = "record" => r.job.fresh
                       /\ r.pc = "write" /\ "status" \in r.changes /\ r.job.status = "failed" =>
                             result = "failed",
         UNCHANGED <<automatic, jobRow, jobRequest, message, worker, active, result, disturbed>>
  PROVE  JobInv'
<1>1. reader' = r
  BY DEF Job!ReaderBecomes
<1>2. Job!TypeOK' /\ Job!OneActive' /\ Job!FailureIsReal'
  BY <1>1 DEF JobInv, Job!TypeOK, Job!OneActive, Job!FailureIsReal
<1>3. ~disturbed => OneRuns' /\ ResultIsLast' /\ NotGivenUp' /\ ReaderOK'
  BY <1>1 DEF JobInv, OneRuns, ResultIsLast, NotGivenUp, ReaderOK
<1> QED BY <1>2, <1>3 DEF JobInv

LEMMA IdleReaderOK == Job!IdleReader \in Job!Reader /\ Job!IdleReader.pc = "idle"
BY DEF Job!IdleReader, Job!Reader, Job!Absent, Job!Job, Job!Status

LEMMA ReconcileKeeps ==
  ASSUME JobInv, Job!Reconcile
  PROVE  JobInv'
<1>1. Job!TypeOK /\ record \in Job!Job /\ jobRow \in Job!Job /\ reader \in Job!Reader
  BY DEF JobInv, Job!TypeOK
<1>2. CASE Job!BeginHourly \/ Job!BeginList
  <2>1. PICK r \in {[Job!IdleReader EXCEPT !.pc = "recover", !.hourly = TRUE],
                    [Job!IdleReader EXCEPT !.pc = "jobs", !.hourly = TRUE],
                    [Job!IdleReader EXCEPT !.pc = "jobs"]} : Job!ReaderBecomes(r)
    BY <1>2 DEF Job!BeginHourly, Job!BeginList
  <2>2. r \in Job!Reader /\ r.pc \notin {"record", "write"}
    BY <2>1, IdleReaderOK DEF Job!Reader
  <2>3. UNCHANGED <<automatic, jobRow, record, jobRequest, message, worker, active, result, disturbed>>
    BY <1>2 DEF Job!BeginHourly, Job!BeginList
  <2> QED BY <1>1, <2>1, <2>2, <2>3, ReaderKeeps DEF JobInv, NotGivenUp
<1>3. CASE Job!Recover
  <2>1. record' \in Job!Job /\ reader' \in Job!Reader
    BY <1>1, <1>3, SaysTypes DEF Job!Recover, Job!ReaderBecomes, Job!Reader, Job!Status
  <2> QED BY <1>3, <2>1, DisturbedKeeps DEF Job!Recover, JobInv, Job!TypeOK, Job!OneActive
<1>4. CASE Job!ReadJob
  <2> DEFINE r == IF jobRow.status = "absent" \/ (reader.hourly /\ jobRow.status = "failed")
                  THEN Job!IdleReader ELSE [reader EXCEPT !.pc = "record", !.job = jobRow]
  <2>1. /\ Job!ReaderBecomes(r)
        /\ UNCHANGED <<automatic, jobRow, record, jobRequest, message, worker, active, result, disturbed>>
    BY <1>4 DEF Job!ReadJob
  <2>2. r \in Job!Reader /\ (r.pc = "idle" \/ (r.pc = "record" /\ r.job = jobRow))
    BY <1>1, IdleReaderOK DEF Job!Reader
  <2> HIDE DEF r
  <2> QED BY <1>1, <2>1, <2>2, ReaderKeeps DEF JobInv, NotGivenUp
<1>5. CASE Job!ReadRecord
  <2> DEFINE new == Job!Reconciled(reader.job, Job!Healed)
             changes == {c \in {"status", "error"} : new[c] # reader.job[c]}
             r == IF new = reader.job THEN Job!IdleReader
                  ELSE [Job!IdleReader EXCEPT !.pc = "write", !.job = new, !.changes = changes]
  <2>1. /\ reader.pc = "record" /\ record' = Job!Healed /\ Job!ReaderBecomes(r)
        /\ UNCHANGED <<automatic, jobRow, jobRequest, message, worker, active, result, disturbed>>
    BY <1>5 DEF Job!ReadRecord
  <2>2. reader.job \in Job!Job /\ Job!Healed \in Job!Job
    BY <1>1, HealedOne DEF Job!Reader
  <2>3. new \in Job!Job /\ changes \subseteq {"status", "error"}
    BY <2>2, ReconciledOne
  <2>4. ~disturbed => /\ new.error # "runtime"
                      /\ "status" \in changes /\ new.status = "failed" => result = "failed"
    BY <2>1, <2>2, ReconciledOne, HealedOne DEF JobInv, ReaderOK
  <2> HIDE DEF new, changes
  <2>5. /\ r \in Job!Reader
        /\ r.pc = "idle" \/ (r.pc = "write" /\ r.job = new /\ r.changes = changes)
    BY <2>3, IdleReaderOK DEF Job!Reader
  <2> HIDE DEF r
  <2> QED BY <2>1, <2>2, <2>4, <2>5, HealedOne, ReaderKeeps
<1>6. CASE Job!WriteJob
  <2>1. /\ reader.pc = "write" /\ reader' = Job!IdleReader
        /\ jobRow' = [status |-> IF "status" \in reader.changes THEN reader.job.status ELSE jobRow.status,
                      error  |-> IF "error" \in reader.changes THEN reader.job.error ELSE jobRow.error,
                      fresh  |-> TRUE]
        /\ UNCHANGED <<automatic, record, jobRequest, message, worker, active, result, disturbed>>
    BY <1>6 DEF Job!WriteJob, Job!ReaderBecomes
  <2>2. jobRow' \in Job!Job
    BY <1>1, <2>1 DEF Job!Reader, Job!Job
  <2>3. Job!TypeOK' /\ Job!OneActive'
    BY <2>1, <2>2, IdleReaderOK DEF JobInv, Job!TypeOK, Job!OneActive
  <2>4. Job!FailureIsReal'
    BY <2>1 DEF JobInv, Job!FailureIsReal, ReaderOK
  <2>5. ~disturbed => NotGivenUp'
    BY <2>1 DEF JobInv, NotGivenUp, ReaderOK
  <2>6. ~disturbed => OneRuns' /\ ResultIsLast' /\ ReaderOK'
    BY <2>1, IdleReaderOK DEF JobInv, OneRuns, ResultIsLast, ReaderOK
  <2> QED BY <2>1, <2>3, <2>4, <2>5, <2>6 DEF JobInv
<1> QED BY <1>2, <1>3, <1>4, <1>5, <1>6 DEF Job!Reconcile

LEMMA JobStep ==
  ASSUME JobInv, [Job!Next]_Job!vars
  PROVE  JobInv'
<1>1. CASE Job!Next
  <2>1. ASSUME NEW e \in Job!Executions, Job!Take(e) \/ Job!Progress(e) \/ Job!Heartbeat(e) \/ Job!Die(e)
        PROVE  JobInv'
    BY <2>1, TakeKeeps, QuietKeeps, PersistStageKeeps, RecordStageKeeps, CompleteKeeps,
       MarkFailureKeeps, RecordFailureKeeps, DieKeeps DEF Job!Progress
  <2> QED BY <1>1, <2>1, SubmitKeeps, TimeKeeps, ReconcileKeeps DEF Job!Next
<1>2. CASE UNCHANGED Job!vars
  BY <1>2 DEF Job!vars, JobInv, Job!TypeOK, Job!OneActive, Job!FailureIsReal, OneRuns,
     ResultIsLast, NotGivenUp,
     ReaderOK
<1> QED BY <1>1, <1>2

LEMMA JobStart ==
  ASSUME Job!Init
  PROVE  JobInv
<1>1. Job!Absent \in Job!Job /\ Job!IdleWorker \in Job!Worker
  BY DEF Job!Absent, Job!Job, Job!Status, Job!IdleWorker, Job!Worker, Job!Stage
<1>2. Cardinality({}) = 0
  BY FS_EmptySet
<1>3. Job!TypeOK
  BY <1>1, IdleReaderOK DEF Job!Init, Job!TypeOK
<1>4. Job!OneActive
  BY <1>2, CardJob DEF Job!Init, Job!OneActive
<1>5. OneRuns /\ ResultIsLast /\ NotGivenUp /\ ReaderOK /\ Job!FailureIsReal
  BY IdleReaderOK DEF Job!Init, OneRuns, ResultIsLast, NotGivenUp, ReaderOK,
     Job!FailureIsReal, Job!Absent,
     Job!IdleWorker
<1> QED BY <1>3, <1>4, <1>5 DEF JobInv

----------------------------------------------------------------------------
\* ClientSession

\* Each flow makes its own calls.
CallsOf(f) == CASE f = "login"   -> {"login", "me"}
                [] f = "hydrate" -> {"me", "profile", "renew"}
                [] f = "data"    -> {"data"}
                [] f = "stream"  -> {"stream"}

CallsOK ==
    \A f \in Tab!Flows :
        /\ flow[f].pc # "idle" => flow[f].call \in CallsOf(f)
        /\ flow[f].pc \in {"sent", "resent"} => flow[f].call # "renew"

\* As long as nobody has crossed a renewal, the tab is one person's.
OnePerson ==
    /\ token = present /\ refresh = present
    /\ renewal.pc # "idle" => renewal.of = present /\ present # None
    /\ flow["login"].pc # "idle" =>
          IF flow["login"].call = "login" THEN present = None
          ELSE /\ present \in {None, flow["login"].who}
               /\ flow["login"].as \in {None, flow["login"].who}
    /\ flow["hydrate"].pc # "idle" /\ present # None => flow["hydrate"].as \in {None, present}
    /\ token # None /\ flow["login"].pc = "idle" /\ flow["hydrate"].pc = "idle" => user = present

SessionInv ==
    /\ Tab!TypeOK /\ CallsOK /\ Tab!WaitersAreServed
    /\ ~crossed => OnePerson

TabMoves == Tab!Init /\ [][Tab!Next]_Tab!vars

LEMMA FlowTypes ==
  ASSUME Tab!TypeOK, NEW f \in Tab!Flows
  PROVE  /\ flow[f] \in Tab!Flow /\ Tab!IdleFlow \in Tab!Flow
         /\ {token, refresh, user, present, None} \subseteq Tab!Holder
         /\ \A x \in Tab!Flow : /\ [flow EXCEPT ![f] = x] \in [Tab!Flows -> Tab!Flow]
                                /\ [flow EXCEPT ![f] = x][f] = x
                                /\ \A g \in Tab!Flows \ {f} : [flow EXCEPT ![f] = x][g] = flow[g]
<1>1. Tab!IdleFlow \in Tab!Flow
  BY DEF Tab!IdleFlow, Tab!Flow, Tab!Holder
<1> QED BY <1>1 DEF Tab!TypeOK, Tab!Holder

\* One flow moves on and nothing else happens but, perhaps, a renewal begins.
LEMMA FlowKeeps ==
  ASSUME SessionInv, NEW f \in Tab!Flows, NEW x \in Tab!Flow, flow' = [flow EXCEPT ![f] = x],
         x.pc # "idle" => x.call \in CallsOf(f),
         x.pc \in {"sent", "resent"} => x.call # "renew",
         \/ renewal' = renewal
         \/ renewal.pc = "idle" /\ refresh # None /\ renewal' = [pc |-> "sent", of |-> refresh],
         x.pc = "waiting" => renewal'.pc # "idle",
         inputs' \in 0 .. MaxInputs,
         UNCHANGED <<token, refresh, present, crossed, refused>>,
         user' \in Tab!Holder,
         ~crossed =>
            /\ f = "login" /\ x.pc # "idle" =>
                  IF x.call = "login" THEN present = None
                  ELSE present \in {None, x.who} /\ x.as \in {None, x.who}
            /\ f = "hydrate" /\ x.pc # "idle" /\ present # None => x.as \in {None, present}
            /\ f \in {"login", "hydrate"} /\ x.pc = "idle" => user' = present \/ present = None
            /\ user' = user \/ (f \in {"login", "hydrate"} /\ x.pc = "idle")
  PROVE  SessionInv'
<1>1. /\ flow' \in [Tab!Flows -> Tab!Flow] /\ flow'[f] = x
      /\ \A g \in Tab!Flows \ {f} : flow'[g] = flow[g]
  BY FlowTypes DEF SessionInv
<1>2. renewal' \in Tab!Renewal
  BY FlowTypes DEF SessionInv, Tab!TypeOK, Tab!Renewal
<1>3. Tab!TypeOK' /\ CallsOK'
  BY <1>1, <1>2 DEF SessionInv, Tab!TypeOK, CallsOK
<1>4. Tab!WaitersAreServed'
  BY <1>1, <1>2 DEF SessionInv, Tab!WaitersAreServed, Tab!Renewal
<1>5. ASSUME ~crossed PROVE OnePerson'
  BY <1>1, <1>5 DEF SessionInv, OnePerson, Tab!Flows
<1> QED BY <1>3, <1>4, <1>5 DEF SessionInv

\* Somebody leaves.
LEMMA LeaveKeeps ==
  ASSUME SessionInv, NEW f \in Tab!Flows,
         token' = None /\ refresh' = None /\ present' = None,
         crossed' = (crossed \/ renewal.pc # "idle"),
         user' \in Tab!Holder,
         flow' \in {flow, [flow EXCEPT ![f] = Tab!IdleFlow]},
         inputs' \in 0 .. MaxInputs, UNCHANGED <<renewal, refused>>
  PROVE  SessionInv'
<1>1. /\ flow' \in [Tab!Flows -> Tab!Flow]
      /\ \A g \in Tab!Flows : flow'[g] \in {flow[g], Tab!IdleFlow} 
  BY FlowTypes DEF SessionInv, Tab!TypeOK
<1>2. Tab!TypeOK' /\ CallsOK' /\ Tab!WaitersAreServed'
  BY <1>1, FlowTypes DEF SessionInv, Tab!TypeOK, CallsOK, Tab!WaitersAreServed, Tab!IdleFlow
<1>3. ASSUME ~crossed' PROVE OnePerson'
  <2>1. ~crossed /\ renewal.pc = "idle" /\ OnePerson
    BY <1>3 DEF SessionInv
  <2>2. /\ flow'["login"] \in {flow["login"], Tab!IdleFlow} /\ Tab!IdleFlow.pc = "idle"
        /\ renewal'.pc = "idle"
    BY <1>1, <2>1 DEF Tab!Flows, Tab!IdleFlow
  <2> QED BY <2>1, <2>2 DEF OnePerson
<1> QED BY <1>2, <1>3 DEF SessionInv

LEMMA AwaitKeeps ==
  ASSUME SessionInv, NEW f \in Tab!Flows, flow[f].pc # "idle", refresh # None,
         NEW call \in CallsOf(f), call = flow[f].call \/ (f = "hydrate" /\ call = "renew"),
         Tab!AwaitRenewal(f, call), Tab!Keep, UNCHANGED <<inputs, refused>>
  PROVE  SessionInv'
<1> DEFINE x == [flow[f] EXCEPT !.pc = "waiting", !.call = call]
<1>1. call \in {"login", "me", "profile", "data", "stream", "renew"} /\ flow[f] \in Tab!Flow
  BY FlowTypes DEF CallsOf, Tab!Flows, SessionInv
<1>2. /\ x \in Tab!Flow /\ x.pc = "waiting" /\ x.call = call /\ x.as = flow[f].as /\ x.who = flow[f].who
  BY <1>1 DEF Tab!Flow
<1>3. flow' = [flow EXCEPT ![f] = x]
  BY <1>1 DEF Tab!AwaitRenewal, SessionInv, Tab!TypeOK, Tab!Flow
<1> HIDE DEF x
<1>4. Tab!TypeOK /\ inputs' \in 0 .. MaxInputs /\ user' \in Tab!Holder
  BY DEF SessionInv, Tab!TypeOK, Tab!Keep
<1>5. ~crossed => /\ f = "login" => IF call = "login" THEN present = None
                                 ELSE present \in {None, x.who} /\ x.as \in {None, x.who}
                  /\ f = "hydrate" /\ present # None => x.as \in {None, present}
  BY <1>2 DEF SessionInv, OnePerson
<1> QED BY <1>2, <1>3, <1>4, <1>5, FlowKeeps DEF Tab!AwaitRenewal, Tab!Keep

LEMMA FailKeeps ==
  ASSUME SessionInv, NEW f \in Tab!Flows, flow[f].pc # "idle", NEW left \in BOOLEAN, Tab!Fail(f, left),
         UNCHANGED <<inputs, refused>>
  PROVE  SessionInv'
<1>1. Tab!TypeOK /\ inputs' \in 0 .. MaxInputs /\ flow[f] \in Tab!Flow /\ Tab!IdleFlow \in Tab!Flow
      /\ Tab!IdleFlow.pc = "idle" /\ None \in Tab!Holder
  BY FlowTypes DEF SessionInv, Tab!TypeOK, Tab!IdleFlow
<1>2. CASE flow[f].call = "me" /\ f = "login"
  <2>1. /\ user' = flow[f].who /\ Tab!End(f) /\ UNCHANGED renewal
        /\ IF left THEN /\ token' = None /\ refresh' = None /\ present' = None
                        /\ crossed' = (crossed \/ renewal.pc # "idle")
                   ELSE UNCHANGED <<token, refresh, present, crossed>>
    BY <1>2 DEF Tab!Fail
  <2>2. user' \in Tab!Holder
    BY <1>1, <2>1 DEF Tab!Flow
  <2>3. ~crossed => present \in {None, user'}
    BY <1>2, <2>1 DEF SessionInv, OnePerson
  <2>4. CASE left
    BY <1>1, <2>1, <2>2, <2>4, LeaveKeeps DEF Tab!End
  <2>5. CASE ~left
    BY <1>1, <1>2, <2>1, <2>2, <2>3, <2>5, FlowKeeps DEF Tab!End
  <2> QED BY <2>4, <2>5
<1>3. CASE flow[f].call = "me" /\ f = "hydrate" /\ refresh # None /\ ~left
  <2>1. Tab!AwaitRenewal(f, "renew") /\ Tab!Keep
    BY <1>3 DEF Tab!Fail
  <2> QED BY <1>3, <2>1, AwaitKeeps DEF CallsOf
<1>4. CASE f = "hydrate" /\ ~(flow[f].call = "me" /\ refresh # None /\ ~left)
  <2>1. Tab!End(f) /\ Tab!Leave /\ UNCHANGED renewal
    BY <1>4 DEF Tab!Fail
  <2> QED BY <1>1, <2>1, LeaveKeeps DEF Tab!End, Tab!Leave
<1>5. CASE f # "hydrate" /\ ~(flow[f].call = "me" /\ f = "login")
  <2>1. Tab!End(f) /\ UNCHANGED renewal /\ IF left THEN Tab!Leave ELSE Tab!Keep
    BY <1>5 DEF Tab!Fail
  <2>2. f = "login" => flow[f].call = "login"
    BY <1>5 DEF SessionInv, CallsOK, CallsOf
  <2>3. CASE left
    BY <1>1, <2>1, <2>3, LeaveKeeps DEF Tab!End, Tab!Leave
  <2>4. ~crossed /\ f = "login" => present = None
    BY <2>2 DEF SessionInv, OnePerson
  <2>5. CASE ~left
    <3>1. user' \in Tab!Holder
      BY <2>1, <2>5 DEF SessionInv, Tab!TypeOK, Tab!Keep
    <3> QED BY <1>1, <1>5, <2>1, <2>4, <2>5, <3>1, FlowKeeps DEF Tab!End, Tab!Keep
  <2> QED BY <2>3, <2>5
<1> QED BY <1>2, <1>3, <1>4, <1>5

LEMMA InputOK ==
  ASSUME Tab!SessionConstants, SessionInv, Tab!Input
  PROVE  inputs' \in 0 .. MaxInputs
BY DEF Tab!SessionConstants, SessionInv, Tab!TypeOK, Tab!Input

LEMMA UserKeeps ==
  ASSUME Tab!SessionConstants, SessionInv, Tab!UserStep
  PROVE  SessionInv'
<1>1. Tab!TypeOK /\ None \in Tab!Holder /\ {token, user, refresh, present} \subseteq Tab!Holder /\ Tab!IdleFlow \in Tab!Flow
  BY FlowTypes DEF SessionInv, Tab!TypeOK, Tab!Flows
<1>2. ASSUME Tab!Login PROVE SessionInv'
  <2>1. PICK p \in People :
          flow' = [flow EXCEPT !["login"] = [pc |-> "sent", call |-> "login", as |-> None, who |-> p]]
    BY <1>2 DEF Tab!Login
  <2> DEFINE x == [pc |-> "sent", call |-> "login", as |-> None, who |-> p]
  <2>2. x \in Tab!Flow /\ x.pc = "sent" /\ x.call = "login"
    BY DEF Tab!Flow, Tab!Holder
  <2>3. ~crossed => present = None
    BY <1>2 DEF SessionInv, OnePerson, Tab!Login
  <2> HIDE DEF x
  <2>4. inputs' \in 0 .. MaxInputs
    BY <1>2, InputOK DEF Tab!Login
  <2> QED BY <1>1, <1>2, <2>1, <2>2, <2>3, <2>4, FlowKeeps DEF Tab!Login, Tab!Keep,
     Tab!Flows, CallsOf, x
<1>3. ASSUME Tab!Logout PROVE SessionInv'
  <2>1. inputs' \in 0 .. MaxInputs
    BY <1>3, InputOK DEF Tab!Logout
  <2> QED BY <1>1, <1>3, <2>1, LeaveKeeps DEF Tab!Logout, Tab!Leave, Tab!Flows
<1>4. ASSUME Tab!Hydrate PROVE SessionInv'
  <2> DEFINE x == Tab!Sent("hydrate", "me")
  <2>1. x \in Tab!Flow /\ x.pc = "sent" /\ x.call = "me" /\ x.as = token
    BY <1>1 DEF Tab!Sent, SessionInv, Tab!TypeOK, Tab!Flow, Tab!Flows
  <2>2. ~crossed => present = token
    BY DEF SessionInv, OnePerson
  <2> HIDE DEF x
  <2>3. inputs' \in 0 .. MaxInputs
    BY <1>4, InputOK DEF Tab!Hydrate
  <2> QED BY <1>1, <1>4, <2>1, <2>2, <2>3, FlowKeeps DEF Tab!Hydrate, Tab!Keep, Tab!Flows,
     CallsOf, x
<1>5. ASSUME NEW f \in {"data", "stream"}, Tab!Ask(f) PROVE SessionInv'
  <2> DEFINE x == Tab!Sent(f, f)
  <2>1. x \in Tab!Flow /\ x.pc = "sent" /\ x.call = f
    BY <1>1 DEF Tab!Sent, SessionInv, Tab!TypeOK, Tab!Flow, Tab!Flows
  <2> HIDE DEF x
  <2>2. inputs' \in 0 .. MaxInputs
    BY <1>5, InputOK DEF Tab!Ask
  <2> QED BY <1>1, <1>5, <2>1, <2>2, FlowKeeps DEF Tab!Ask, Tab!Keep, Tab!Flows, CallsOf, x
<1>6. ASSUME Tab!Reload PROVE SessionInv'
  <2> DEFINE x == [Tab!IdleFlow EXCEPT !.pc = "sent", !.call = "me", !.as = token]
  <2>1. x \in Tab!Flow /\ x.pc = "sent" /\ x.call = "me" /\ x.as = token
        /\ Tab!IdleFlow.pc = "idle" /\ Tab!IdleFlow.as = None
    BY <1>1 DEF Tab!Flow, Tab!IdleFlow
  <2>2. /\ flow' = [f \in Tab!Flows |-> IF f = "hydrate" /\ token # None THEN x ELSE Tab!IdleFlow]
        /\ renewal' = Tab!NoRenewal /\ inputs' \in 0 .. MaxInputs
        /\ UNCHANGED <<token, refresh, user, present, crossed, refused>>
    BY <1>6, InputOK DEF Tab!Reload, Tab!Keep
  <2> HIDE DEF x
  <2>3. flow' \in [Tab!Flows -> Tab!Flow]
    BY <1>1, <2>1, <2>2
  <2>4. /\ \A f \in Tab!Flows : flow'[f].pc \in {"idle", "sent"}
        /\ \A f \in Tab!Flows \ {"hydrate"} : flow'[f].pc = "idle"
        /\ flow'["hydrate"].pc = "idle" => token = None
        /\ flow'["hydrate"].pc # "idle" => flow'["hydrate"] = x
    BY <2>1, <2>2 DEF Tab!Flows
  <2>5. renewal' \in Tab!Renewal /\ renewal'.pc = "idle"
    BY <1>1, <2>2 DEF Tab!NoRenewal, Tab!Renewal
  <2>6. Tab!TypeOK' /\ Tab!WaitersAreServed'
    BY <2>2, <2>3, <2>4, <2>5 DEF SessionInv, Tab!TypeOK, Tab!WaitersAreServed
  <2>7. CallsOK'
    BY <2>1, <2>4 DEF CallsOK, CallsOf, Tab!Flows
  <2>8. ASSUME ~crossed PROVE OnePerson'
    BY <2>1, <2>2, <2>4, <2>5, <2>8 DEF SessionInv, OnePerson, Tab!Flows
  <2> QED BY <2>2, <2>6, <2>7, <2>8 DEF SessionInv
<1> QED BY <1>2, <1>3, <1>4, <1>5, <1>6 DEF Tab!UserStep

LEMMA AcceptKeeps ==
  ASSUME SessionInv, NEW f \in Tab!Flows, Tab!Accept(f)
  PROVE  SessionInv'
<1>1. /\ Tab!TypeOK /\ flow[f] \in Tab!Flow /\ flow[f].pc \notin {"idle"} /\ Tab!IdleFlow \in Tab!Flow
      /\ Tab!IdleFlow.pc = "idle" /\ {token, refresh, user, present} \subseteq Tab!Holder
      /\ inputs' \in 0 .. MaxInputs /\ flow[f].call \in CallsOf(f)
      /\ flow[f].call # "renew"
  BY FlowTypes DEF SessionInv, Tab!TypeOK, Tab!Accept, Tab!InFlight, CallsOK, Tab!IdleFlow
<1>2. CASE flow[f].call = "login"
  <2> DEFINE p == flow[f].who
             x == [flow[f] EXCEPT !.pc = "sent", !.call = "me", !.as = p]
  <2>1. /\ token' = p /\ refresh' = p /\ present' = p /\ flow' = [flow EXCEPT ![f] = x]
        /\ crossed' = (renewal.pc # "idle" \/ flow["hydrate"].pc # "idle")
        /\ UNCHANGED <<user, renewal, inputs, refused>>
    BY <1>1, <1>2 DEF Tab!Accept, Tab!TypeOK
  <2>2. x \in Tab!Flow /\ x.pc = "sent" /\ x.call = "me" /\ x.as = p /\ x.who = p /\ p \in Tab!Holder
    BY <1>1 DEF Tab!Flow
  <2>3. f = "login"
    BY <1>1, <1>2 DEF CallsOf, Tab!Flows
  <2> HIDE DEF x
  <2>4. /\ flow' \in [Tab!Flows -> Tab!Flow] /\ flow'["login"] = x
        /\ \A g \in Tab!Flows \ {"login"} : flow'[g] = flow[g]
    BY <1>1, <2>1, <2>2, <2>3, FlowTypes
  <2>5. Tab!TypeOK' /\ Tab!WaitersAreServed'
    BY <1>1, <2>1, <2>2, <2>4 DEF Tab!TypeOK, SessionInv, Tab!WaitersAreServed
  <2>6. CallsOK'
    BY <2>2, <2>4 DEF SessionInv, CallsOK, CallsOf, Tab!Flows
  <2>7. ASSUME ~crossed' PROVE OnePerson'
    BY <2>1, <2>2, <2>4, <2>7 DEF OnePerson, Tab!Flows
  <2> QED BY <2>5, <2>6, <2>7 DEF SessionInv
<1>3. CASE flow[f].call \in {"me", "profile"}
  <2>1. /\ user' = flow[f].as /\ Tab!End(f)
        /\ UNCHANGED <<token, refresh, present, crossed, renewal, inputs, refused>>
    BY <1>3 DEF Tab!Accept
  <2>2. user' \in Tab!Holder /\ flow[f].as # None
    BY <1>1, <1>3, <2>1 DEF Tab!Flow, Tab!Accept
  <2>3. f \in {"login", "hydrate"}
    BY <1>1, <1>3 DEF CallsOf, Tab!Flows
  <2>4. ~crossed => user' = present \/ present = None
    BY <1>1, <1>3, <2>1, <2>2, <2>3 DEF SessionInv, OnePerson
  <2> QED BY <1>1, <2>1, <2>2, <2>3, <2>4, FlowKeeps DEF Tab!End
<1>4. CASE flow[f].call \notin {"login", "me", "profile"}
  <2>1. Tab!End(f) /\ Tab!Keep /\ UNCHANGED <<renewal, inputs, refused>>
    BY <1>4 DEF Tab!Accept
  <2>2. f \notin {"login", "hydrate"}
    BY <1>1, <1>4 DEF CallsOf
  <2> QED BY <1>1, <1>4, <2>1, <2>2, FlowKeeps DEF Tab!End, Tab!Keep
<1> QED BY <1>2, <1>3, <1>4

LEMMA RefuseKeeps ==
  ASSUME SessionInv, NEW f \in Tab!Flows, Tab!Refuse(f) \/ Tab!Break(f) \/ Tab!GiveUp(f)
  PROVE  SessionInv'
<1>1. flow[f].pc # "idle" /\ UNCHANGED <<inputs, refused>>
  BY DEF Tab!Refuse, Tab!Break, Tab!GiveUp, Tab!InFlight
<1>2. CASE f # "stream" /\ flow[f].pc = "sent" /\ refresh # None /\ Tab!Refuse(f)
  <2>1. Tab!AwaitRenewal(f, flow[f].call) /\ Tab!Keep
    BY <1>2 DEF Tab!Refuse
  <2>2. flow[f].call \in CallsOf(f)
    BY <1>1 DEF SessionInv, CallsOK
  <2> QED BY <1>1, <1>2, <2>1, <2>2, AwaitKeeps
<1>3. CASE Tab!Fail(f, TRUE) \/ Tab!Fail(f, FALSE)
  BY <1>1, <1>3, FailKeeps
<1> QED BY <1>2, <1>3 DEF Tab!Refuse, Tab!Break, Tab!GiveUp

LEMMA FlowContinues ==
  ASSUME SessionInv, NEW f \in Tab!Flows, Tab!Continue(f)
  PROVE  SessionInv'
<1> DEFINE x == IF flow[f].call = "renew"
                THEN [flow[f] EXCEPT !.pc = "sent", !.call = "profile", !.as = token]
                ELSE [flow[f] EXCEPT !.pc = "resent", !.as = token]
<1>1. Tab!TypeOK /\ flow[f] \in Tab!Flow /\ {token, user} \subseteq Tab!Holder /\ flow[f].call \in CallsOf(f)
      /\ inputs \in 0 .. MaxInputs
  BY FlowTypes DEF SessionInv, Tab!TypeOK, CallsOK, Tab!Continue
<1>2. /\ flow' = [flow EXCEPT ![f] = x] /\ Tab!Keep /\ UNCHANGED <<renewal, inputs, refused>>
  BY <1>1 DEF Tab!Continue, Tab!TypeOK
<1>3. /\ x \in Tab!Flow /\ x.pc \in {"sent", "resent"} /\ x.as = token /\ x.who = flow[f].who
      /\ x.call # "renew" /\ x.call = (IF flow[f].call = "renew" THEN "profile" ELSE flow[f].call)
  BY <1>1 DEF Tab!Flow
<1>4. x.call \in CallsOf(f)
  BY <1>1, <1>3 DEF CallsOf, Tab!Flows
<1> HIDE DEF x
<1>5. f = "login" => flow[f].call # "renew"
  BY <1>1 DEF CallsOf
<1>6. ~crossed => /\ token = present
                  /\ f = "login" => IF x.call = "login" THEN present = None
                                    ELSE present \in {None, x.who} /\ x.as \in {None, x.who}
  BY <1>3, <1>5 DEF SessionInv, OnePerson, Tab!Continue
<1> QED BY <1>1, <1>2, <1>3, <1>4, <1>6, FlowKeeps DEF Tab!Keep

LEMMA ToldFlows ==
  ASSUME Tab!TypeOK, NEW pc \in {"renewed", "denied"}
  PROVE  /\ Tab!Told(pc) \in [Tab!Flows -> Tab!Flow]
         /\ \A f \in Tab!Flows : /\ Tab!Told(pc)[f].pc # "waiting"
                                 /\ Tab!Told(pc)[f].pc = "idle" <=> flow[f].pc = "idle"
                                 /\ Tab!Told(pc)[f].pc \in {"sent", "resent"} => flow[f].pc = Tab!Told(pc)[f].pc
                                 /\ Tab!Told(pc)[f].call = flow[f].call /\ Tab!Told(pc)[f].as = flow[f].as
                                 /\ Tab!Told(pc)[f].who = flow[f].who
<1>1. ASSUME NEW f \in Tab!Flows
      PROVE  /\ Tab!Told(pc)[f] \in Tab!Flow
             /\ Tab!Told(pc)[f].pc # "waiting"
             /\ Tab!Told(pc)[f].pc = "idle" <=> flow[f].pc = "idle"
             /\ Tab!Told(pc)[f].pc \in {"sent", "resent"} => flow[f].pc = Tab!Told(pc)[f].pc
             /\ Tab!Told(pc)[f].call = flow[f].call /\ Tab!Told(pc)[f].as = flow[f].as
             /\ Tab!Told(pc)[f].who = flow[f].who
  BY DEF Tab!TypeOK, Tab!Flow, Tab!Told
<1>2. Tab!Told(pc) \in [Tab!Flows -> Tab!Flow]
  <2>1. Tab!Told(pc) = [f \in Tab!Flows |-> Tab!Told(pc)[f]]
    BY DEF Tab!Told
  <2> QED BY <1>1, <2>1
<1> QED BY <1>1, <1>2

\* Those who wait learn how the renewal has ended.
LEMMA ToldOK ==
  ASSUME SessionInv, NEW pc \in {"renewed", "denied"}, flow' = Tab!Told(pc), renewal' = Tab!NoRenewal
  PROVE  /\ flow' \in [Tab!Flows -> Tab!Flow] /\ renewal' \in Tab!Renewal /\ renewal'.pc = "idle"
         /\ CallsOK' /\ Tab!WaitersAreServed'
         /\ \A f \in Tab!Flows : /\ flow'[f].pc = "idle" <=> flow[f].pc = "idle"
                                 /\ flow'[f].call = flow[f].call /\ flow'[f].as = flow[f].as
                                 /\ flow'[f].who = flow[f].who
<1>1. /\ flow' \in [Tab!Flows -> Tab!Flow]
      /\ \A f \in Tab!Flows : /\ flow'[f].pc # "waiting"
                              /\ flow'[f].pc = "idle" <=> flow[f].pc = "idle"
                              /\ flow'[f].pc \in {"sent", "resent"} => flow[f].pc = flow'[f].pc
                              /\ flow'[f].call = flow[f].call /\ flow'[f].as = flow[f].as
                              /\ flow'[f].who = flow[f].who
  BY ToldFlows DEF SessionInv
<1>2. renewal' \in Tab!Renewal /\ renewal'.pc = "idle"
  BY DEF Tab!NoRenewal, Tab!Renewal, Tab!Holder
<1>3. CallsOK'
  BY <1>1 DEF SessionInv, CallsOK
<1>4. Tab!WaitersAreServed'
  BY <1>1, <1>2 DEF Tab!WaitersAreServed
<1> QED BY <1>1, <1>2, <1>3, <1>4

LEMMA RenewalKeeps ==
  ASSUME SessionInv, Tab!RenewalStep
  PROVE  SessionInv'
<1>1. Tab!TypeOK /\ Tab!NoRenewal \in Tab!Renewal /\ Tab!NoRenewal.pc = "idle" /\ renewal.pc = "sent"
      /\ renewal \in Tab!Renewal /\ renewal.of \in Tab!Holder
  BY DEF SessionInv, Tab!TypeOK, Tab!NoRenewal, Tab!Renewal, Tab!Holder, Tab!RenewalStep,
     Tab!Renew, Tab!RenewalBreaks,
     Tab!RenewalRefused
<1>2. CASE Tab!RenewalRefused /\ refresh # None
  <2>1. /\ refused' = TRUE /\ renewal' = [renewal EXCEPT !.pc = "stuck"]
        /\ UNCHANGED <<token, refresh, user, present, crossed, flow, inputs>>
    BY <1>2 DEF Tab!RenewalRefused, Tab!Keep
  <2>2. renewal' \in Tab!Renewal /\ renewal'.of = renewal.of /\ refused'
    BY <1>1, <2>1 DEF Tab!Renewal
  <2>3. Tab!TypeOK' /\ CallsOK' /\ Tab!WaitersAreServed'
    BY <1>1, <2>1, <2>2 DEF SessionInv, Tab!TypeOK, CallsOK, Tab!WaitersAreServed
  <2>4. ~crossed => OnePerson'
    BY <1>1, <2>1, <2>2 DEF SessionInv, OnePerson
  <2> QED BY <2>1, <2>3, <2>4 DEF SessionInv
<1>3. CASE Tab!RenewalRefused /\ refresh = None
  <2>1. /\ renewal' = Tab!NoRenewal /\ flow' = Tab!Told("denied") /\ refused' = TRUE
        /\ token' = None /\ refresh' = None /\ user' = None /\ present' = None
        /\ crossed' = TRUE /\ inputs' = inputs
    BY <1>1, <1>3 DEF Tab!RenewalRefused, Tab!Leave
  <2>2. Tab!TypeOK' /\ CallsOK' /\ Tab!WaitersAreServed'
    BY <1>1, <2>1, ToldOK DEF Tab!TypeOK, Tab!Holder
  <2> QED BY <2>1, <2>2 DEF SessionInv
<1>4. CASE Tab!RenewalBreaks \/ Tab!Renew
  <2>1. /\ renewal' = Tab!NoRenewal /\ flow' \in {Tab!Told("denied"), Tab!Told("renewed")}
        /\ UNCHANGED <<user, inputs, present, crossed, refused>>
        /\ token' \in {token, renewal.of} /\ refresh' \in {refresh, renewal.of}
    BY <1>4 DEF Tab!RenewalBreaks, Tab!Renew, Tab!Keep
  <2>2. Tab!TypeOK' /\ CallsOK' /\ Tab!WaitersAreServed'
    BY <1>1, <2>1, ToldOK DEF Tab!TypeOK
  <2>3. ASSUME ~crossed PROVE OnePerson'
    <3>1. token' = token /\ refresh' = refresh /\ OnePerson
      BY <1>1, <2>1, <2>3 DEF SessionInv, OnePerson
    <3>2. /\ renewal'.pc = "idle"
          /\ \A f \in {"login", "hydrate"} :
                /\ flow'[f].pc = "idle" <=> flow[f].pc = "idle"
                /\ flow'[f].call = flow[f].call /\ flow'[f].as = flow[f].as
                /\ flow'[f].who = flow[f].who
      BY <2>1, ToldOK DEF Tab!Flows
    <3> QED BY <2>1, <3>1, <3>2 DEF OnePerson
  <2> QED BY <2>1, <2>2, <2>3 DEF SessionInv
<1> QED BY <1>2, <1>3, <1>4 DEF Tab!RenewalStep

LEMMA SessionStep ==
  ASSUME Tab!SessionConstants, SessionInv, [Tab!Next]_Tab!vars
  PROVE  SessionInv'
<1>1. CASE Tab!UserStep
  BY <1>1, UserKeeps
<1>2. CASE Tab!Onward
  BY <1>2, AcceptKeeps, RefuseKeeps, RenewalKeeps, FlowContinues DEF Tab!Onward,
     Tab!AnswerStep, Tab!FollowUp
<1>3. CASE UNCHANGED Tab!vars
  BY <1>3 DEF Tab!vars, SessionInv, Tab!TypeOK, CallsOK, Tab!WaitersAreServed, OnePerson
<1> QED BY <1>1, <1>2, <1>3 DEF Tab!Next

LEMMA SessionStart ==
  ASSUME Tab!SessionConstants, Tab!Init
  PROVE  SessionInv
<1>1. Tab!IdleFlow \in Tab!Flow /\ Tab!NoRenewal \in Tab!Renewal /\ None \in Tab!Holder
  BY DEF Tab!IdleFlow, Tab!Flow, Tab!NoRenewal, Tab!Renewal, Tab!Holder
<1>2. 0 \in 0 .. MaxInputs
  BY DEF Tab!SessionConstants
<1>3. Tab!TypeOK
  BY <1>1, <1>2 DEF Tab!Init, Tab!TypeOK
<1>4. CallsOK /\ Tab!WaitersAreServed /\ OnePerson
  BY DEF Tab!Init, CallsOK, Tab!WaitersAreServed, OnePerson, Tab!IdleFlow, Tab!NoRenewal,
     Tab!Flows
<1> QED BY <1>3, <1>4 DEF SessionInv

LEMMA SessionSafe ==
  ASSUME SessionInv
  PROVE  Tab!TypeOK /\ Tab!SessionIsOnes /\ Tab!WaitersAreServed
BY DEF SessionInv, OnePerson, Tab!SessionIsOnes

----------------------------------------------------------------------------
\* The components, each on its own.

\* No notification that begins after a device was unregistered is sent to it before a
\* registration or a heartbeat of it, and the record of a notification says what became
\* of its devices, but for failures of FCM that are collapsed (register_device,
\* unregister_device and send_document_status_sync of push_notification_service.py).
THEOREM PushIsHeeded ==
    ASSUME Phone!PushConstants
    PROVE  Phone!Spec => [](Phone!TypeOK /\ Phone!UnregisteredStaysSilent /\ Phone!ResultsAddUp)
<1>1. Phone!Init => PushInv
  BY PushStart
<1>2. PushInv /\ [Phone!Next]_Phone!vars => PushInv'
  BY PushStep
<1>3. PushInv => Phone!TypeOK /\ Phone!UnregisteredStaysSilent /\ Phone!ResultsAddUp
  BY PushSafe
<1> QED BY <1>1, <1>2, <1>3, PTL DEF Phone!Spec

\* A training job nothing has disturbed is failed only if its run has failed, and one
\* model is active at most (llm_training_service.py, its task and its reconciliation).
THEOREM JobFailureIsReal ==
    Job!Spec => [](Job!TypeOK /\ Job!OneActive /\ Job!FailureIsReal)
<1>1. Job!Init => JobInv
  BY JobStart
<1>2. JobInv /\ [Job!Next]_Job!vars => JobInv'
  BY JobStep
<1>3. JobInv => Job!TypeOK /\ Job!OneActive /\ Job!FailureIsReal
  BY DEF JobInv
<1> QED BY <1>1, <1>2, <1>3, PTL DEF Job!Spec

\* What a tab shows and sends is of who has signed in last, and who waits for a renewal
\* waits for one under way (stores/auth.ts and api/http.ts of the web client).
THEOREM SessionIsSafe ==
    ASSUME Tab!SessionConstants
    PROVE  Tab!Spec => [](Tab!TypeOK /\ Tab!SessionIsOnes /\ Tab!WaitersAreServed)
<1>1. Tab!Init => SessionInv
  BY SessionStart
<1>2. SessionInv /\ [Tab!Next]_Tab!vars => SessionInv'
  BY SessionStep
<1>3. SessionInv => Tab!TypeOK /\ Tab!SessionIsOnes /\ Tab!WaitersAreServed
  BY SessionSafe
<1> QED BY <1>1, <1>2, <1>3, PTL DEF Tab!Spec

----------------------------------------------------------------------------
\* The components side by side, as MCServices checks them.

ServicesInv == JobInv /\ PushInv /\ SessionInv

LEMMA ServicesStart == PartsInit => ServicesInv
BY ServicesAssumption, JobStart, PushStart, SessionStart DEF PartsInit, ServicesInv

LEMMA ServicesStep ==
    ASSUME ServicesInv, [JobNext \/ PushNext \/ SessionNext]_all
    PROVE  ServicesInv'
<1>1. /\ [Job!Next]_Job!vars
      /\ [Phone!Next]_Phone!vars
      /\ [Tab!Next]_Tab!vars
  BY DEF JobNext, PushNext, SessionNext, all, jobVars, pushVars, sessionVars, Job!vars,
     Phone!vars, Tab!vars
<1> QED BY <1>1, ServicesAssumption, JobStep, PushStep, SessionStep DEF ServicesInv

LEMMA ServicesHold == PartsSpec => []ServicesInv
BY ServicesStart, ServicesStep, PTL DEF PartsSpec

\* The types of the three components, and the one active model.
THEOREM ServicesTyped == PartsSpec => []ServicesTypeOK
<1>1. ServicesInv => ServicesTypeOK
  BY SessionSafe DEF ServicesInv, JobInv, PushInv, ServicesTypeOK
<1> QED BY <1>1, ServicesHold, PTL

\* A training job nothing has disturbed is marked failed only if its run has failed.
THEOREM FailureReal == PartsSpec => []FailureIsReal
<1>1. ServicesInv => FailureIsReal
  BY DEF ServicesInv, JobInv, FailureIsReal
<1> QED BY <1>1, ServicesHold, PTL

\* No notification that begins later is sent to a device that was unregistered, and the
\* record of one says what became of its devices.
THEOREM DevicesHeeded == PartsSpec => []DevicesAreHeeded
<1>1. ServicesInv => DevicesAreHeeded
  BY PushSafe DEF ServicesInv, DevicesAreHeeded
<1> QED BY <1>1, ServicesHold, PTL

\* A tab serves one person, and nobody waits for a renewal that is not under way.
THEOREM SessionHeld == PartsSpec => []SessionHolds
<1>1. ServicesInv => SessionHolds
  BY SessionSafe DEF ServicesInv, SessionHolds
<1> QED BY <1>1, ServicesHold, PTL
=============================================================================
