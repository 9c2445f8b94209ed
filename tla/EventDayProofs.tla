---------------------------- MODULE EventDayProofs ----------------------------
(***************************************************************************)
(* Bibs and entries for every number of attendees, distances, doors and    *)
(* days.  The counter of a label is above every bib it ever gave out, and  *)
(* the label decides what is printed (IssuedSound); a request that is      *)
(* under way still means what it read, or the attendee is marked as        *)
(* overtaken (ReadsHold).                                                  *)
(***************************************************************************)
EXTENDS EventDay, TLAPS

-----------------------------------------------------------------------------
(* What requests carry *)

LEMMA RequestTypes ==
    ASSUME NEW q \in Requests
    PROVE  /\ q.op = "approve" => /\ q.who \in Attendees /\ q.numbered \in BOOLEAN
                                  /\ q.to \in Labels \cup {NoDistance}
           /\ q.op \in {"complete", "reassign"} => q.who \in Attendees /\ q.to \in Labels
           /\ q.op = "reassign" => q.to \in Names
           /\ q.op \in {"check_in", "insert"} => q.who \in Attendees /\ q.on \in Days
           /\ q.op = "ticket" => q.who \in Tickets
  BY DEF Requests, Idle, Labels

LEMMA ReplyTypes ==
    ASSUME req \in [Handlers -> Requests], NEW h \in Handlers, NEW q \in Requests, Reply(h, q)
    PROVE  /\ req' \in [Handlers -> Requests] /\ req'[h] = q
           /\ \A g \in Handlers : g # h => req'[g] = req[g]
  BY DEF Reply

LEMMA IdleIsRequest == Idle \in Requests
  BY DEF Requests

LEMMA BibShape ==
    /\ NoBib.seq = 0 /\ NoBib.under = NoDistance
    /\ \A b \in Bib : b.under \in Labels /\ b.seq \in Nat /\ b.seq # 0 /\ b.seq <= MaxBib
    /\ NoBib \notin Bib
  BY EventDayAssumption DEF NoBib, Bib

-----------------------------------------------------------------------------
(* What a step changes *)

\* What distanceCode answers, and that two names never print alike.
LEMMA CodeTypes ==
    /\ \A d \in Labels : DistanceCode(d) \in Codes \cup {"RACE"}
    /\ \A d, e \in Labels : d # e /\ DistanceCode(d) = DistanceCode(e)
                             => DistanceCode(d) = "RACE"
  BY EventDayAssumption DEF DistanceCode, Labels

\* The numbering of one attendee.
LEMMA TakesTypes ==
    ASSUME TypeOK, NEW a \in Attendees, NEW d \in Labels, NEW at, Takes(a, d, at)
    PROVE  /\ bib' \in [Attendees -> Bib \cup {NoBib}]
           /\ counter' \in [Labels -> 1 .. (MaxBib + 1)]
           /\ issued' \subseteq Bib
           /\ bib'[a] = NextBib(d)
           /\ \A b \in Attendees : b # a => bib'[b] = bib[b]
           /\ issued' = issued \cup {NextBib(d)}
           /\ counter'[d] = counter[d] + 1
           /\ \A e \in Labels : e # d => counter'[e] = counter[e]
  <1>1. counter[d] \in 1 .. MaxBib
    BY EventDayAssumption DEF Takes, TypeOK
  <1>2. NextBib(d) \in Bib
    BY <1>1, CodeTypes DEF Bib, NextBib
  <1>3. /\ bib' = [bib EXCEPT ![a] = NextBib(d)]
        /\ counter' = [counter EXCEPT ![d] = @ + 1]
        /\ issued' = issued \cup {NextBib(d)}
    BY DEF Takes, Allocated
  <1>4. /\ bib \in [Attendees -> Bib \cup {NoBib}]
        /\ counter \in [Labels -> 1 .. (MaxBib + 1)] /\ issued \subseteq Bib
    BY DEF TypeOK
  <1>5. counter[d] + 1 \in 1 .. (MaxBib + 1)
    BY <1>1, EventDayAssumption
  <1> QED
    BY <1>2, <1>3, <1>4, <1>5

LEMMA EntersTypes ==
    ASSUME TypeOK, NEW a \in Attendees, NEW d \in Days, Enters(a, d)
    PROVE  /\ attendance' = attendance \cup {<<a, d>>}
           /\ attendance' \subseteq Attendees \X Days
           /\ firstIn' = [firstIn EXCEPT ![a] = IF @ = NoDay THEN d ELSE @]
           /\ firstIn' \in [Attendees -> Days \cup {NoDay}]
           /\ admitted' = [admitted EXCEPT ![<<a, d>>] = @ + 1]
           /\ admitted' \in [(Attendees \X Days) \cup Tickets -> Nat]
  BY DEF Enters, FirstEntry, TypeOK

LEMMA TypeStep ==
    ASSUME TypeOK, [Next]_vars
    PROVE  TypeOK'
  <1> USE IdleIsRequest
  <1>0. req \in [Handlers -> Requests]
    BY DEF TypeOK
  <1>1. ASSUME NEW h \in Handlers, NEW a \in Attendees, ApproveReads(h, a)
        PROVE  TypeOK'
    <2> DEFINE q == [op |-> "approve", who |-> a, to |-> distance[a],
                     numbered |-> bib[a] # NoBib]
    <2>1. q \in Requests
      BY DEF Requests, TypeOK
    <2>2. Reply(h, q)
      BY <1>1 DEF ApproveReads
    <2> HIDE DEF q
    <2>3. req' \in [Handlers -> Requests]
      BY <1>0, <2>1, <2>2, ReplyTypes
    <2> QED
      BY <1>1, <2>3 DEF ApproveReads, TypeOK, bibVars, doorVars
  <1>2. ASSUME NEW h \in Handlers, NEW a \in Attendees, NEW d \in Labels,
               CompleteReads(h, a, d) \/ (d \in Names /\ ReassignReads(h, a, d))
        PROVE  TypeOK'
    <2>1. PICK o \in {"complete", "reassign"} :
              Reply(h, [op |-> o, who |-> a, to |-> d]) /\ (o = "reassign" => d \in Names)
      BY <1>2 DEF CompleteReads, ReassignReads
    <2>2. [op |-> o, who |-> a, to |-> d] \in Requests
      BY <2>1 DEF Requests
    <2>3. req' \in [Handlers -> Requests]
      BY <1>0, <2>1, <2>2, ReplyTypes
    <2> QED
      BY <1>2, <2>3 DEF CompleteReads, ReassignReads, TypeOK, bibVars, doorVars
  <1>3. ASSUME NEW h \in Handlers, NEW a \in Attendees, CheckInReads(h, a)
        PROVE  TypeOK'
    <2>1. [op |-> "check_in", who |-> a, on |-> day] \in Requests
      BY DEF Requests, TypeOK
    <2>2. req' \in [Handlers -> Requests]
      BY <1>0, <1>3, <2>1, ReplyTypes DEF CheckInReads
    <2> QED
      BY <1>3, <2>2 DEF CheckInReads, TypeOK, bibVars, doorVars
  <1>4. ASSUME NEW h \in Handlers, NEW k \in Tickets, TicketReads(h, k)
        PROVE  TypeOK'
    <2>1. [op |-> "ticket", who |-> k] \in Requests
      BY DEF Requests
    <2>2. req' \in [Handlers -> Requests]
      BY <1>0, <1>4, <2>1, ReplyTypes DEF TicketReads
    <2> QED
      BY <1>4, <2>2 DEF TicketReads, TypeOK, bibVars, doorVars
  <1>5. ASSUME NEW h \in Handlers, ApproveCommits(h)
        PROVE  TypeOK'
    <2>1. req[h] \in Requests /\ req[h].op = "approve"
      BY <1>0, <1>5 DEF ApproveCommits
    <2>2. req[h].who \in Attendees /\ req[h].to \in Labels \cup {NoDistance}
      BY <2>1, RequestTypes
    <2>3. req' \in [Handlers -> Requests]
      BY <1>0, <1>5, ReplyTypes DEF ApproveCommits
    <2>4. /\ bib' \in [Attendees -> Bib \cup {NoBib}]
          /\ counter' \in [Labels -> 1 .. (MaxBib + 1)] /\ issued' \subseteq Bib
      <3>1. CASE req[h].to = NoDistance \/ req[h].numbered
        BY <1>5, <3>1 DEF ApproveCommits, TypeOK
      <3>2. CASE ~(req[h].to = NoDistance \/ req[h].numbered)
        BY <1>5, <2>2, <3>2, TakesTypes DEF ApproveCommits
      <3> QED
        BY <3>1, <3>2
    <2>5. status' \in [Attendees -> {"absent", "pending_payment", "pending_approval", "verified"}]
      BY <1>5, <2>2 DEF ApproveCommits, TypeOK
    <2> QED
      BY <1>5, <2>3, <2>4, <2>5 DEF ApproveCommits, TypeOK, doorVars
  <1>6. ASSUME NEW h \in Handlers, CompleteCommits(h)
        PROVE  TypeOK'
    <2>1. req[h] \in Requests /\ req[h].op = "complete"
      BY <1>0, <1>6 DEF CompleteCommits
    <2>2. req[h].who \in Attendees /\ req[h].to \in Labels
      BY <2>1, RequestTypes
    <2>3. req' \in [Handlers -> Requests]
      BY <1>0, <1>6, ReplyTypes DEF CompleteCommits
    <2>4. distance' \in [Attendees -> Labels \cup {NoDistance}] /\ overtaken' \subseteq Attendees
      BY <1>6, <2>2 DEF CompleteCommits, TypeOK
    <2> QED
      BY <1>6, <2>3, <2>4 DEF CompleteCommits, TypeOK, doorVars
  <1>7. ASSUME NEW h \in Handlers, ReassignCommits(h)
        PROVE  TypeOK'
    <2>1. req[h] \in Requests /\ req[h].op = "reassign"
      BY <1>0, <1>7 DEF ReassignCommits
    <2>2. req[h].who \in Attendees /\ req[h].to \in Labels
      BY <2>1, RequestTypes
    <2>3. req' \in [Handlers -> Requests]
      BY <1>0, <1>7, ReplyTypes DEF ReassignCommits
    <2>4. /\ bib' \in [Attendees -> Bib \cup {NoBib}]
          /\ counter' \in [Labels -> 1 .. (MaxBib + 1)] /\ issued' \subseteq Bib
      BY <1>7, <2>2, TakesTypes DEF ReassignCommits
    <2>5. distance' \in [Attendees -> Labels \cup {NoDistance}]
      BY <1>7, <2>2 DEF ReassignCommits, MoveTo, TypeOK
    <2> QED
      BY <1>7, <2>3, <2>4, <2>5 DEF ReassignCommits, TypeOK, doorVars
  <1>8. ASSUME NEW h \in Handlers, CheckInLooks(h)
        PROVE  TypeOK'
    <2>1. req[h] \in Requests /\ req[h].op = "check_in"
      BY <1>0, <1>8 DEF CheckInLooks
    <2>2. [req[h] EXCEPT !.op = "insert"] \in Requests
      BY <2>1 DEF Requests, Idle
    <2>3. req' \in [Handlers -> Requests]
      BY <1>0, <1>8, <2>2, ReplyTypes DEF CheckInLooks
    <2> QED
      BY <1>8, <2>3 DEF CheckInLooks, TypeOK, bibVars, doorVars
  <1>9. ASSUME NEW h \in Handlers, CheckInInserts(h)
        PROVE  TypeOK'
    <2>1. req[h] \in Requests /\ req[h].op = "insert"
      BY <1>0, <1>9 DEF CheckInInserts
    <2>2. req[h].who \in Attendees /\ req[h].on \in Days
      BY <2>1, RequestTypes
    <2>3. req' \in [Handlers -> Requests]
      BY <1>0, <1>9, ReplyTypes DEF CheckInInserts
    <2>4. /\ attendance' \subseteq Attendees \X Days
          /\ firstIn' \in [Attendees -> Days \cup {NoDay}]
          /\ admitted' \in [(Attendees \X Days) \cup Tickets -> Nat]
      <3>1. CASE AttendanceIndexAllows(req[h].who, req[h].on)
        BY <1>9, <2>2, <3>1, EntersTypes DEF CheckInInserts
      <3>2. CASE ~AttendanceIndexAllows(req[h].who, req[h].on)
        BY <1>9, <3>2 DEF CheckInInserts, TypeOK
      <3> QED
        BY <3>1, <3>2
    <2> QED
      BY <1>9, <2>3, <2>4 DEF CheckInInserts, TypeOK, bibVars
  <1>10. ASSUME NEW h \in Handlers, TicketCommits(h)
         PROVE  TypeOK'
    <2>1. req[h] \in Requests /\ req[h].op = "ticket"
      BY <1>0, <1>10 DEF TicketCommits
    <2>2. req[h].who \in Tickets
      BY <2>1, RequestTypes
    <2>3. req' \in [Handlers -> Requests]
      BY <1>0, <1>10, ReplyTypes DEF TicketCommits
    <2>4. /\ ticket' \in [Tickets -> {"valid", "used"}]
          /\ admitted' \in [(Attendees \X Days) \cup Tickets -> Nat]
      BY <1>10, <2>2 DEF TicketCommits, TypeOK
    <2> QED
      BY <1>10, <2>3, <2>4 DEF TicketCommits, TypeOK, bibVars
  <1>11. ASSUME NEW h \in Handlers, Fails(h)
         PROVE  TypeOK'
    <2>1. req' \in [Handlers -> Requests]
      BY <1>0, <1>11, ReplyTypes DEF Fails
    <2> QED
      BY <1>11, <2>1 DEF Fails, TypeOK, bibVars, doorVars
  <1>12. ASSUME NEW a \in Attendees, SubmitProof(a)
         PROVE  TypeOK'
    BY <1>12 DEF SubmitProof, TypeOK, bibVars, doorVars
  <1>13. ASSUME NEW a \in Attendees, WalkIn(a)
         PROVE  TypeOK'
    <2>1. day \in Days
      BY DEF TypeOK
    <2>2. /\ attendance' \subseteq Attendees \X Days
          /\ firstIn' \in [Attendees -> Days \cup {NoDay}]
          /\ admitted' \in [(Attendees \X Days) \cup Tickets -> Nat]
      BY <1>13, <2>1, EntersTypes DEF WalkIn
    <2> QED
      BY <1>13, <2>2 DEF WalkIn, TypeOK, bibVars
  <1>14. ASSUME NEW a \in Attendees, Retention(a)
         PROVE  TypeOK'
    BY <1>14 DEF Retention, TypeOK, doorVars
  <1>15. CASE NextDay
    BY <1>15, EventDayAssumption DEF NextDay, TypeOK, Days, bibVars, doorVars
  <1>16. CASE UNCHANGED vars
    BY <1>16 DEF vars, TypeOK
  <1> QED
    BY <1>1, <1>2, <1>3, <1>4, <1>5, <1>6, <1>7, <1>8, <1>9, <1>10, <1>11, <1>12,
       <1>13, <1>14, <1>15, <1>16 DEF Next, HandlerStep, Labels

LEMMA TypeInit == Init => TypeOK
  BY EventDayAssumption, IdleIsRequest DEF Init, TypeOK, Days

\* Every reachable state of attendees, bibs, doors and requests is well typed.
THEOREM EventDayTypeCorrect == Spec => []TypeOK
  BY TypeInit, TypeStep, PTL DEF Spec

-----------------------------------------------------------------------------
(* Bibs are never given out again *)

\* A bib that was given out is below the counter of its label, and its label decided
\* what it prints.
IssuedSound == \A b \in issued : b.seq < counter[b.under] /\ b.code = DistanceCode(b.under)

\* What BibsNeverReused says of a step.
NewIsNew ==
    \A a \in Attendees : bib'[a] # bib[a] /\ bib'[a] # NoBib =>
        \A b \in issued : Printed(b) = Printed(bib'[a]) =>
            b.code = "RACE" /\ b.under # bib'[a].under

\* A step numbers one attendee, takes one bib away, or leaves bibs alone.
LEMMA BibEffects ==
    ASSUME TypeOK, [Next]_vars
    PROVE  \/ UNCHANGED <<bib, counter, issued>>
           \/ \E a \in Attendees, d \in Labels, at \in Labels \cup {NoDistance} :
                 Takes(a, d, at)
           \/ \E a \in Attendees : bib' = [bib EXCEPT ![a] = NoBib]
                                     /\ UNCHANGED <<counter, issued>>
  <1> DEFINE Goal == \/ UNCHANGED <<bib, counter, issued>>
                     \/ \E a \in Attendees, d \in Labels,
                           at \in Labels \cup {NoDistance} : Takes(a, d, at)
                     \/ \E a \in Attendees : bib' = [bib EXCEPT ![a] = NoBib]
                                               /\ UNCHANGED <<counter, issued>>
  <1>0. \A h \in Handlers : req[h] \in Requests
    BY DEF TypeOK
  <1>1. ASSUME NEW h \in Handlers, ApproveCommits(h)
        PROVE  Goal
    <2>1. req[h].who \in Attendees /\ req[h].to \in Labels \cup {NoDistance}
      BY <1>0, <1>1, RequestTypes DEF ApproveCommits
    <2>2. distance[req[h].who] \in Labels \cup {NoDistance}
      BY <2>1 DEF TypeOK
    <2>3. CASE req[h].to = NoDistance \/ req[h].numbered
      BY <1>1, <2>3 DEF ApproveCommits
    <2>4. CASE ~(req[h].to = NoDistance \/ req[h].numbered)
      <3>1. Takes(req[h].who, req[h].to, distance[req[h].who])
        BY <1>1, <2>4 DEF ApproveCommits
      <3> QED
        BY <2>1, <2>2, <2>4, <3>1
    <2> QED
      BY <2>3, <2>4
  <1>2. ASSUME NEW h \in Handlers, ReassignCommits(h)
        PROVE  Goal
    <2>1. req[h].who \in Attendees /\ req[h].to \in Labels
      BY <1>0, <1>2, RequestTypes DEF ReassignCommits
    <2>2. Takes(req[h].who, req[h].to, req[h].to)
      BY <1>2 DEF ReassignCommits
    <2> QED
      BY <2>1, <2>2
  <1>3. ASSUME NEW a \in Attendees, Retention(a)
        PROVE  Goal
    BY <1>3 DEF Retention
  <1>4. CASE \E h \in Handlers :
               \/ \E a \in Attendees : ApproveReads(h, a) \/ CheckInReads(h, a)
               \/ \E a \in Attendees, d \in Labels :
                     CompleteReads(h, a, d) \/ ReassignReads(h, a, d)
               \/ \E k \in Tickets : TicketReads(h, k)
               \/ CompleteCommits(h) \/ CheckInLooks(h) \/ CheckInInserts(h)
               \/ TicketCommits(h) \/ Fails(h)
    BY <1>4 DEF ApproveReads, CheckInReads, CompleteReads, ReassignReads, TicketReads,
                CompleteCommits, CheckInLooks, CheckInInserts, TicketCommits, Fails, bibVars
  <1>5. CASE \/ \E a \in Attendees : SubmitProof(a) \/ WalkIn(a)
             \/ NextDay \/ UNCHANGED vars
    BY <1>5 DEF SubmitProof, WalkIn, NextDay, vars, bibVars
  <1> QED
    BY <1>1, <1>2, <1>3, <1>4, <1>5 DEF Next, HandlerStep, Labels

LEMMA IssuedStep ==
    ASSUME TypeOK, IssuedSound, [Next]_vars
    PROVE  IssuedSound' /\ NewIsNew
  <1>1. CASE UNCHANGED <<bib, counter, issued>>
    BY <1>1 DEF IssuedSound, NewIsNew
  <1>2. ASSUME NEW a \in Attendees, NEW d \in Labels,
               NEW at \in Labels \cup {NoDistance}, Takes(a, d, at)
        PROVE  IssuedSound' /\ NewIsNew
    <2> DEFINE new == NextBib(d)
    <2>1. /\ bib'[a] = new /\ issued' = issued \cup {new}
          /\ \A b \in Attendees : b # a => bib'[b] = bib[b]
          /\ counter'[d] = counter[d] + 1
          /\ \A e \in Labels : e # d => counter'[e] = counter[e]
      BY <1>2, TakesTypes
    <2>2. new.under = d /\ new.seq = counter[d] /\ new.code = DistanceCode(d)
      BY DEF NextBib
    <2>3. \A e \in Labels : counter[e] \in Nat
      BY EventDayAssumption DEF TypeOK
    <2>4. \A b \in issued : b.under \in Labels /\ b.seq \in Nat
      BY BibShape DEF TypeOK
    <2> HIDE DEF new
    <2>5. ASSUME NEW b \in issued, Printed(b) = Printed(new)
          PROVE  b.code = "RACE" /\ b.under # new.under
      <3>1. b.code = new.code /\ b.seq = new.seq
        BY <2>5 DEF Printed
      <3>2. b.seq < counter[b.under] /\ b.code = DistanceCode(b.under)
        BY DEF IssuedSound
      <3>3. b.under # d
        BY <2>2, <2>3, <2>4, <3>1, <3>2
      <3> QED
        BY <2>2, <2>4, <3>1, <3>2, <3>3, CodeTypes
    <2>6. \A b \in issued' : b.seq < counter'[b.under] /\ b.code = DistanceCode(b.under)
      <3>1. new.seq < counter'[new.under] /\ new.code = DistanceCode(new.under)
        BY <2>1, <2>2, <2>3
      <3>2. ASSUME NEW b \in issued
            PROVE  b.seq < counter'[b.under] /\ b.code = DistanceCode(b.under)
        <4>1. b.seq < counter[b.under] /\ b.code = DistanceCode(b.under)
          BY DEF IssuedSound
        <4> QED
          BY <2>1, <2>3, <2>4, <4>1
      <3> QED
        BY <2>1, <3>1, <3>2
    <2>7. NewIsNew
      BY <2>1, <2>5 DEF NewIsNew
    <2> QED
      BY <2>6, <2>7 DEF IssuedSound
  <1>3. ASSUME NEW a \in Attendees, bib' = [bib EXCEPT ![a] = NoBib],
               UNCHANGED <<counter, issued>>
        PROVE  IssuedSound' /\ NewIsNew
    BY <1>3 DEF IssuedSound, NewIsNew, TypeOK
  <1> QED
    BY <1>1, <1>2, <1>3, BibEffects

\* However approvals, reassignments and the retention job interleave, no printed bib
\* is given out a second time, but for a RACE bib under another label.
THEOREM NoBibTwice == Spec => BibsNeverReused
  <1>1. Init => TypeOK /\ IssuedSound
    BY TypeInit DEF Init, IssuedSound
  <1>2. TypeOK /\ IssuedSound /\ [Next]_vars => (TypeOK /\ IssuedSound)'
    BY TypeStep, IssuedStep
  <1>3. TypeOK /\ IssuedSound /\ [Next]_vars => [NewIsNew]_vars
    BY IssuedStep
  <1>4. NewIsNew <=>
          \A a \in Attendees : bib'[a] # bib[a] /\ bib'[a] # NoBib =>
              \A b \in issued : Printed(b) = Printed(bib'[a]) =>
                  b.code = "RACE" /\ b.under # bib'[a].under
    BY DEF NewIsNew
  <1> QED
    BY <1>1, <1>2, <1>3, <1>4, PTL DEF Spec, BibsNeverReused

-----------------------------------------------------------------------------
(* A bib shows the distance that is run *)

\* What an approval read of a registration that is still to be reviewed holds,
\* unless the attendee was marked; a reassignment acts on a verified one.
ReadsHold ==
    \A h \in Handlers : LET q == req[h] IN
        /\ q.op = "approve" =>
              /\ status[q.who] \in {"pending_approval", "verified"}
              /\ status[q.who] = "pending_approval" =>
                    q.who \in overtaken \/ q.to = distance[q.who]
        /\ q.op = "reassign" => status[q.who] = "verified"

\* Only requests change, and a new one is not an approval or a reassignment.
Unread(h) ==
    /\ \A g \in Handlers : g # h => req'[g] = req[g]
    /\ req'[h].op \notin {"approve", "reassign"}

LEMMA UnreadKeeps ==
    ASSUME ReadsHold, NEW h \in Handlers, Unread(h), UNCHANGED <<status, distance>>,
           overtaken \subseteq overtaken'
    PROVE  ReadsHold'
  BY DEF ReadsHold, Unread

LEMMA IdleOp == Idle.op = "idle"
  BY DEF Idle

LEMMA ReadsStep ==
    ASSUME TypeOK, ReadsHold, [Next]_vars
    PROVE  ReadsHold'
  <1> USE IdleOp
  <1>0. req \in [Handlers -> Requests] /\ \A h \in Handlers : req[h] \in Requests
    BY DEF TypeOK
  <1>1. ASSUME NEW h \in Handlers, NEW a \in Attendees, ApproveReads(h, a)
        PROVE  ReadsHold'
    <2> DEFINE q == [op |-> "approve", who |-> a, to |-> distance[a],
                     numbered |-> bib[a] # NoBib]
    <2>1. q.op = "approve" /\ q.who = a /\ q.to = distance[a]
      OBVIOUS
    <2>2. req' = [req EXCEPT ![h] = q]
      BY <1>1 DEF ApproveReads, Reply
    <2>3. status[a] = "pending_approval" /\ UNCHANGED <<status, distance, overtaken>>
      BY <1>1 DEF ApproveReads, bibVars
    <2> HIDE DEF q
    <2>4. req'[h] = q /\ \A g \in Handlers : g # h => req'[g] = req[g]
      BY <1>0, <2>2
    <2> QED
      BY <2>1, <2>3, <2>4 DEF ReadsHold
  <1>2. ASSUME NEW h \in Handlers, NEW a \in Attendees, NEW d \in Labels,
               ReassignReads(h, a, d)
        PROVE  ReadsHold'
    <2> DEFINE q == [op |-> "reassign", who |-> a, to |-> d]
    <2>1. q.op = "reassign" /\ q.who = a
      OBVIOUS
    <2>2. req' = [req EXCEPT ![h] = q]
      BY <1>2 DEF ReassignReads, Reply
    <2>3. status[a] = "verified" /\ UNCHANGED <<status, distance, overtaken>>
      BY <1>2 DEF ReassignReads, bibVars
    <2> HIDE DEF q
    <2>4. req'[h] = q /\ \A g \in Handlers : g # h => req'[g] = req[g]
      BY <1>0, <2>2
    <2> QED
      BY <2>1, <2>3, <2>4 DEF ReadsHold
  <1>3. ASSUME NEW h \in Handlers,
               \/ \E a \in Attendees : CheckInReads(h, a)
               \/ \E a \in Attendees, d \in Labels : CompleteReads(h, a, d)
               \/ \E k \in Tickets : TicketReads(h, k)
               \/ CheckInLooks(h) \/ CheckInInserts(h) \/ TicketCommits(h) \/ Fails(h)
        PROVE  ReadsHold'
    <2>1. Unread(h)
      <3>1. CASE \/ \E a \in Attendees : CheckInReads(h, a)
                 \/ \E a \in Attendees, d \in Labels : CompleteReads(h, a, d)
                 \/ \E k \in Tickets : TicketReads(h, k)
        BY <1>0, <3>1 DEF Unread, CheckInReads, CompleteReads, TicketReads, Reply
      <3>2. CASE CheckInInserts(h) \/ TicketCommits(h) \/ Fails(h)
        BY <1>0, <3>2 DEF Unread, CheckInInserts, TicketCommits, Fails, Reply
      <3>3. CASE CheckInLooks(h)
        <4>1. PICK q : q \in {Idle, [req[h] EXCEPT !.op = "insert"]}
                       /\ req' = [req EXCEPT ![h] = q]
          BY <3>3 DEF CheckInLooks, Reply
        <4>2. q.op = "idle" \/ q.op = "insert"
          BY <1>0, <3>3, <4>1 DEF CheckInLooks, Requests, Idle
        <4> QED
          BY <1>0, <4>1, <4>2 DEF Unread
      <3> QED
        BY <1>3, <3>1, <3>2, <3>3
    <2>2. UNCHANGED <<status, distance, overtaken>>
      BY <1>3 DEF CheckInReads, CompleteReads, TicketReads, CheckInLooks, CheckInInserts,
                  TicketCommits, Fails, bibVars
    <2> QED
      BY <2>1, <2>2, UnreadKeeps
  <1>4. ASSUME NEW h \in Handlers, ApproveCommits(h)
        PROVE  ReadsHold'
    <2>1. req[h].who \in Attendees
      BY <1>0, <1>4, RequestTypes DEF ApproveCommits
    <2>2. /\ req'[h] = Idle /\ \A g \in Handlers : g # h => req'[g] = req[g]
          /\ UNCHANGED <<distance, overtaken>>
          /\ status'[req[h].who] = "verified"
          /\ \A a \in Attendees : a # req[h].who => status'[a] = status[a]
      BY <1>0, <1>4, <2>1 DEF ApproveCommits, Reply, TypeOK
    <2>3. \A g \in Handlers : req[g].op \in {"approve", "reassign"} => req[g].who \in Attendees
      BY <1>0, RequestTypes
    <2> QED
      BY <2>2, <2>3 DEF ReadsHold
  <1>5. ASSUME NEW h \in Handlers, CompleteCommits(h)
        PROVE  ReadsHold'
    <2>1. req[h].who \in Attendees /\ req[h].to \in Labels
      BY <1>0, <1>5, RequestTypes DEF CompleteCommits
    <2>2. /\ req'[h] = Idle /\ \A g \in Handlers : g # h => req'[g] = req[g]
          /\ UNCHANGED status
          /\ \A a \in Attendees : a # req[h].who => distance'[a] = distance[a]
          /\ overtaken' = IF bib[req[h].who] # NoBib \/ Reading(req[h].who) # {}
                            THEN overtaken \cup {req[h].who} ELSE overtaken
      BY <1>0, <1>5, <2>1 DEF CompleteCommits, Reply, TypeOK
    <2>3. \A g \in Handlers : req[g].op = "approve" /\ req[g].who = req[h].who
                                => req[h].who \in overtaken'
      BY <2>2 DEF Reading
    <2>4. \A g \in Handlers : req[g].op = "approve" => req[g].who \in Attendees
      BY <1>0, RequestTypes
    <2>5. overtaken \subseteq overtaken'
      BY <2>2
    <2> QED
      BY <2>2, <2>3, <2>4, <2>5 DEF ReadsHold
  <1>6. ASSUME NEW h \in Handlers, ReassignCommits(h)
        PROVE  ReadsHold'
    <2>1. req[h].who \in Attendees /\ status[req[h].who] = "verified"
      BY <1>0, <1>6, RequestTypes DEF ReassignCommits, ReadsHold
    <2>2. /\ req'[h] = Idle /\ \A g \in Handlers : g # h => req'[g] = req[g]
          /\ UNCHANGED <<status, overtaken>>
          /\ \A a \in Attendees : a # req[h].who => distance'[a] = distance[a]
      BY <1>0, <1>6, <2>1 DEF ReassignCommits, MoveTo, Reply, TypeOK
    <2>3. \A g \in Handlers : req[g].op = "approve" => req[g].who \in Attendees
      BY <1>0, RequestTypes
    <2> QED
      BY <2>1, <2>2, <2>3 DEF ReadsHold
  <1>7. ASSUME NEW a \in Attendees, SubmitProof(a) \/ WalkIn(a)
        PROVE  ReadsHold'
    <2>1. /\ status[a] \in {"pending_payment", "absent"}
          /\ \A b \in Attendees : b # a => status'[b] = status[b]
          /\ UNCHANGED <<distance, overtaken, req>>
      BY <1>7 DEF SubmitProof, WalkIn, TypeOK, bibVars
    <2>2. \A g \in Handlers : req[g].op \in {"approve", "reassign"} => req[g].who \in Attendees
      BY <1>0, RequestTypes
    <2> QED
      BY <2>1, <2>2 DEF ReadsHold
  <1>8. CASE (\E a \in Attendees : Retention(a)) \/ NextDay \/ UNCHANGED vars
    BY <1>8 DEF Retention, NextDay, vars, bibVars, ReadsHold
  <1> QED
    BY <1>1, <1>2, <1>3, <1>4, <1>5, <1>6, <1>7, <1>8 DEF Next, HandlerStep, Labels

LEMMA TakesOf ==
    ASSUME TypeOK, NEW a \in Attendees, NEW d \in Labels, NEW at, Takes(a, d, at)
    PROVE  bib'[a].code = DistanceCode(d) /\ \A b \in Attendees : b # a => bib'[b] = bib[b]
  <1>1. bib'[a] = NextBib(d) /\ NextBib(d).code = DistanceCode(d)
    BY TakesTypes DEF NextBib
  <1>2. \A b \in Attendees : b # a => bib'[b] = bib[b]
    BY TakesTypes
  <1> QED
    BY <1>1, <1>2

LEMMA MatchStep ==
    ASSUME TypeOK, ReadsHold, BibMatchesDistance, [Next]_vars
    PROVE  BibMatchesDistance'
  <1>0. \A h \in Handlers : req[h] \in Requests
    BY DEF TypeOK
  <1>1. ASSUME NEW h \in Handlers, ApproveCommits(h)
        PROVE  BibMatchesDistance'
    <2>1. req[h].who \in Attendees /\ req[h].to \in Labels \cup {NoDistance}
      BY <1>0, <1>1, RequestTypes DEF ApproveCommits
    <2>2. UNCHANGED <<distance, overtaken>>
      BY <1>1 DEF ApproveCommits
    <2>3. req[h].who \in overtaken \/ req[h].to = distance[req[h].who]
      BY <1>1 DEF ApproveCommits, ReadsHold
    <2>4. CASE req[h].to = NoDistance \/ req[h].numbered
      BY <1>1, <2>2, <2>4 DEF ApproveCommits, BibMatchesDistance
    <2>5. CASE ~(req[h].to = NoDistance \/ req[h].numbered)
      <3>1. Takes(req[h].who, req[h].to, distance[req[h].who]) /\ req[h].to \in Labels
        BY <1>1, <2>1, <2>5 DEF ApproveCommits
      <3>2. /\ bib'[req[h].who].code = DistanceCode(req[h].to)
            /\ \A b \in Attendees : b # req[h].who => bib'[b] = bib[b]
        BY <2>1, <3>1, TakesOf
      <3> QED
        BY <2>2, <2>3, <3>2 DEF BibMatchesDistance
    <2> QED
      BY <2>4, <2>5
  <1>2. ASSUME NEW h \in Handlers, ReassignCommits(h)
        PROVE  BibMatchesDistance'
    <2>1. req[h].who \in Attendees /\ req[h].to \in Labels
      BY <1>0, <1>2, RequestTypes DEF ReassignCommits
    <2>2. /\ bib'[req[h].who].code = DistanceCode(req[h].to)
          /\ \A b \in Attendees : b # req[h].who => bib'[b] = bib[b]
      <3>1. Takes(req[h].who, req[h].to, req[h].to)
        BY <1>2 DEF ReassignCommits
      <3> QED
        BY <2>1, <3>1, TakesOf
    <2>3. /\ distance'[req[h].who] = req[h].to
          /\ \A b \in Attendees : b # req[h].who => distance'[b] = distance[b]
          /\ UNCHANGED overtaken
      BY <1>2, <2>1 DEF ReassignCommits, MoveTo, TypeOK
    <2> QED
      BY <2>2, <2>3 DEF BibMatchesDistance
  <1>3. ASSUME NEW h \in Handlers, CompleteCommits(h)
        PROVE  BibMatchesDistance'
    <2>1. req[h].who \in Attendees
      BY <1>0, <1>3, RequestTypes DEF CompleteCommits
    <2>2. /\ \A b \in Attendees : b # req[h].who => distance'[b] = distance[b]
          /\ UNCHANGED bib
          /\ overtaken \subseteq overtaken'
          /\ bib[req[h].who] # NoBib => req[h].who \in overtaken'
      BY <1>3, <2>1 DEF CompleteCommits, TypeOK
    <2> QED
      BY <2>2 DEF BibMatchesDistance
  <1>4. ASSUME NEW a \in Attendees, Retention(a)
        PROVE  BibMatchesDistance'
    BY <1>4 DEF Retention, BibMatchesDistance, TypeOK
  <1>5. CASE UNCHANGED <<bib, distance, overtaken>>
    BY <1>5 DEF BibMatchesDistance
  <1> QED
    BY <1>1, <1>2, <1>3, <1>4, <1>5
    DEF Next, HandlerStep, ApproveReads, CheckInReads, CompleteReads, ReassignReads,
        TicketReads, CheckInLooks, CheckInInserts, TicketCommits, Fails, SubmitProof,
        WalkIn, NextDay, vars, bibVars

\* Bib and row agree, for any number of approvals, reassignments and late
\* completions, except where a completion overtook an approval's read.
THEOREM BibsMatch == Spec => []BibMatchesDistance
  <1>1. Init => TypeOK /\ ReadsHold /\ BibMatchesDistance
    BY TypeInit, IdleOp DEF Init, ReadsHold, BibMatchesDistance
  <1>2. TypeOK /\ ReadsHold /\ BibMatchesDistance /\ [Next]_vars
          => (TypeOK /\ ReadsHold /\ BibMatchesDistance)'
    BY TypeStep, ReadsStep, MatchStep
  <1> QED
    BY <1>1, <1>2, PTL DEF Spec

-----------------------------------------------------------------------------
(* One entry per person and day *)

\* Who has not registered yet has not been in; scans under way are of people
\* who have registered.
NotInYet == \A a \in Attendees : status[a] = "absent" => \A d \in Days : <<a, d>> \notin attendance

ScansOfMembers ==
    \A h \in Handlers : req[h].op \in {"check_in", "insert"} => status[req[h].who] # "absent"

EntryInv == OneEntryPerDay /\ NotInYet /\ ScansOfMembers

\* The update that uses up a ticket, if it is still valid.
UsesTicket(k) ==
    /\ ticket' = [ticket EXCEPT ![k] = "used"]
    /\ admitted' = IF ticket[k] = "valid" THEN [admitted EXCEPT ![k] = @ + 1] ELSE admitted
    /\ UNCHANGED <<attendance, firstIn>>

\* A step lets a person in who has no record of that day, uses a ticket, or
\* leaves the doors alone.
LEMMA DoorEffects ==
    ASSUME TypeOK, EntryInv, [Next]_vars
    PROVE  \/ UNCHANGED doorVars
           \/ \E a \in Attendees, d \in Days :
                 Enters(a, d) /\ <<a, d>> \notin attendance /\ UNCHANGED ticket
           \/ \E k \in Tickets : UsesTicket(k)
  <1> DEFINE Goal == \/ UNCHANGED doorVars
                     \/ \E a \in Attendees, d \in Days :
                           Enters(a, d) /\ <<a, d>> \notin attendance /\ UNCHANGED ticket
                     \/ \E k \in Tickets : UsesTicket(k)
  <1>0. (\A h \in Handlers : req[h] \in Requests) /\ day \in Days
    BY DEF TypeOK
  <1>1. ASSUME NEW h \in Handlers, CheckInInserts(h)
        PROVE  Goal
    <2>1. req[h].who \in Attendees /\ req[h].on \in Days
      BY <1>0, <1>1, RequestTypes DEF CheckInInserts
    <2> QED
      BY <1>1, <2>1 DEF CheckInInserts, AttendanceIndexAllows, doorVars
  <1>2. ASSUME NEW a \in Attendees, WalkIn(a)
        PROVE  Goal
    BY <1>0, <1>2 DEF WalkIn, EntryInv, NotInYet
  <1>3. ASSUME NEW h \in Handlers, TicketCommits(h)
        PROVE  Goal
    <2>1. req[h].who \in Tickets
      BY <1>0, <1>3, RequestTypes DEF TicketCommits
    <2> QED
      BY <1>3, <2>1 DEF TicketCommits, UsesTicket
  <1>4. CASE UNCHANGED doorVars
    BY <1>4
  <1> QED
    BY <1>1, <1>2, <1>3, <1>4
    DEF Next, HandlerStep, ApproveReads, CheckInReads, CompleteReads, ReassignReads,
        TicketReads, CheckInLooks, ApproveCommits, CompleteCommits, ReassignCommits, Fails,
        SubmitProof, Retention, NextDay, vars, doorVars

LEMMA EntryStep ==
    ASSUME TypeOK, EntryInv, [Next]_vars
    PROVE  OneEntryPerDay'
  <1>0. /\ admitted \in [(Attendees \X Days) \cup Tickets -> Nat]
        /\ firstIn \in [Attendees -> Days \cup {NoDay}] /\ OneEntryPerDay
        /\ ticket \in [Tickets -> {"valid", "used"}]
    BY DEF TypeOK, EntryInv
  <1>1. /\ \A a \in Attendees, d \in Days : <<a, d>> \notin Tickets
        /\ NoDay \notin Days
    BY EventDayAssumption DEF Days, NoDay
  <1>2. ASSUME NEW a \in Attendees, NEW d \in Days,
               Enters(a, d), <<a, d>> \notin attendance, UNCHANGED ticket
        PROVE  OneEntryPerDay'
    <2>1. /\ attendance' = attendance \cup {<<a, d>>}
          /\ admitted' = [admitted EXCEPT ![<<a, d>>] = @ + 1]
          /\ firstIn' = [firstIn EXCEPT ![a] = IF @ = NoDay THEN d ELSE @]
      BY <1>2, EntersTypes
    <2>2. /\ admitted'[<<a, d>>] = 1
          /\ \A x \in (Attendees \X Days) \cup Tickets : x # <<a, d>> => admitted'[x] = admitted[x]
      BY <1>0, <1>2, <2>1 DEF OneEntryPerDay
    <2>3. \A b \in Attendees, e \in Days :
             admitted'[<<b, e>>] = IF <<b, e>> \in attendance' THEN 1 ELSE 0
      <3> SUFFICES ASSUME NEW b \in Attendees, NEW e \in Days
                   PROVE  admitted'[<<b, e>>] = IF <<b, e>> \in attendance' THEN 1 ELSE 0
        OBVIOUS
      <3>1. CASE <<b, e>> = <<a, d>>
        BY <2>1, <2>2, <3>1
      <3>2. CASE <<b, e>> # <<a, d>>
        <4>1. admitted'[<<b, e>>] = admitted[<<b, e>>]
          BY <2>2, <3>2
        <4>2. <<b, e>> \in attendance' <=> <<b, e>> \in attendance
          BY <2>1, <3>2
        <4>3. admitted[<<b, e>>] = IF <<b, e>> \in attendance THEN 1 ELSE 0
          BY <1>0 DEF OneEntryPerDay
        <4> QED
          BY <4>1, <4>2, <4>3
      <3> QED
        BY <3>1, <3>2
    <2>4. \A k \in Tickets : admitted'[k] = IF ticket'[k] = "used" THEN 1 ELSE 0
      BY <1>0, <1>1, <1>2, <2>2 DEF OneEntryPerDay
    <2>5. /\ firstIn'[a] = IF firstIn[a] = NoDay THEN d ELSE firstIn[a]
          /\ \A b \in Attendees : b # a => firstIn'[b] = firstIn[b]
      BY <1>0, <2>1
    <2>6. \A b \in Attendees :
             IF firstIn'[b] = NoDay THEN \A e \in Days : <<b, e>> \notin attendance'
                                    ELSE <<b, firstIn'[b]>> \in attendance'
      BY <1>0, <1>1, <2>1, <2>5 DEF OneEntryPerDay
    <2> QED
      BY <2>3, <2>4, <2>6 DEF OneEntryPerDay
  <1>3. ASSUME NEW k \in Tickets, UsesTicket(k)
        PROVE  OneEntryPerDay'
    <2>1. /\ \A j \in Tickets : j # k => ticket'[j] = ticket[j] /\ admitted'[j] = admitted[j]
          /\ ticket'[k] = "used" /\ admitted'[k] = 1
      BY <1>0, <1>3 DEF UsesTicket, OneEntryPerDay
    <2>2. \A a \in Attendees, d \in Days : admitted'[<<a, d>>] = admitted[<<a, d>>]
      BY <1>0, <1>1, <1>3 DEF UsesTicket
    <2> QED
      BY <1>0, <1>3, <2>1, <2>2 DEF UsesTicket, OneEntryPerDay
  <1>4. CASE UNCHANGED doorVars
    BY <1>0, <1>4 DEF doorVars, OneEntryPerDay
  <1> QED
    BY <1>2, <1>3, <1>4, DoorEffects

\* Nobody's registration disappears; a person who is let in is registered.
LEMMA NotInYetStep ==
    ASSUME TypeOK, EntryInv, [Next]_vars
    PROVE  /\ NotInYet'
           /\ \A a \in Attendees : status[a] # "absent" => status'[a] # "absent"
  <1> DEFINE Stays == \A a \in Attendees : status[a] # "absent" => status'[a] # "absent"
  <1>0. /\ \A h \in Handlers : req[h] \in Requests
        /\ status \in [Attendees -> {"absent", "pending_payment", "pending_approval", "verified"}]
        /\ NotInYet /\ ScansOfMembers /\ day \in Days
    BY DEF TypeOK, EntryInv
  <1>1. ASSUME NEW h \in Handlers, CheckInInserts(h)
        PROVE  NotInYet' /\ Stays
    <2>1. req[h].who \in Attendees /\ req[h].on \in Days /\ status[req[h].who] # "absent"
      BY <1>0, <1>1, RequestTypes DEF CheckInInserts, ScansOfMembers
    <2>2. UNCHANGED status /\ attendance' \subseteq attendance \cup {<<req[h].who, req[h].on>>}
      BY <1>1 DEF CheckInInserts, Enters
    <2> QED
      BY <1>0, <2>1, <2>2 DEF NotInYet
  <1>2. ASSUME NEW a \in Attendees, WalkIn(a)
        PROVE  NotInYet' /\ Stays
    <2>1. /\ status'[a] = "verified" /\ attendance' = attendance \cup {<<a, day>>}
          /\ \A b \in Attendees : b # a => status'[b] = status[b]
      BY <1>0, <1>2 DEF WalkIn, Enters
    <2> QED
      BY <1>0, <2>1 DEF NotInYet
  <1>3. ASSUME NEW h \in Handlers, ApproveCommits(h)
        PROVE  NotInYet' /\ Stays
    <2>1. req[h].who \in Attendees
      BY <1>0, <1>3, RequestTypes DEF ApproveCommits
    <2>2. /\ status'[req[h].who] = "verified" /\ UNCHANGED attendance
          /\ \A b \in Attendees : b # req[h].who => status'[b] = status[b]
      BY <1>0, <1>3, <2>1 DEF ApproveCommits, doorVars
    <2> QED
      BY <1>0, <2>2 DEF NotInYet
  <1>4. ASSUME NEW a \in Attendees, SubmitProof(a)
        PROVE  NotInYet' /\ Stays
    <2>1. /\ status'[a] = "pending_approval" /\ UNCHANGED attendance
          /\ \A b \in Attendees : b # a => status'[b] = status[b]
      BY <1>0, <1>4 DEF SubmitProof, doorVars
    <2> QED
      BY <1>0, <2>1 DEF NotInYet
  <1>5. CASE UNCHANGED <<status, attendance>>
    BY <1>0, <1>5 DEF NotInYet
  <1> QED
    BY <1>1, <1>2, <1>3, <1>4, <1>5
    DEF Next, HandlerStep, ApproveReads, CheckInReads, CompleteReads, ReassignReads,
        TicketReads, CheckInLooks, CompleteCommits, ReassignCommits, TicketCommits, Fails,
        Retention, NextDay, vars, doorVars

\* Scans are begun for verified registrations only, and continue for the same one.
LEMMA ScansStep ==
    ASSUME TypeOK, EntryInv, [Next]_vars
    PROVE  ScansOfMembers'
  <1> USE IdleOp
  <1>0. /\ req \in [Handlers -> Requests] /\ \A h \in Handlers : req[h] \in Requests
        /\ ScansOfMembers
    BY DEF TypeOK, EntryInv
  <1>1. \A a \in Attendees : status[a] # "absent" => status'[a] # "absent"
    BY NotInYetStep
  <1>2. \A h \in Handlers : req[h].op \in {"check_in", "insert"} => req[h].who \in Attendees
    BY <1>0, RequestTypes
  <1>3. ASSUME NEW h \in Handlers, NEW q \in Requests, Reply(h, q),
               q.op \in {"check_in", "insert"} => q.who \in Attendees /\ status[q.who] # "absent"
        PROVE  ScansOfMembers'
    <2>1. req'[h] = q /\ \A g \in Handlers : g # h => req'[g] = req[g]
      BY <1>0, <1>3, ReplyTypes
    <2> QED
      BY <1>0, <1>1, <1>2, <1>3, <2>1 DEF ScansOfMembers
  <1>4. ASSUME NEW h \in Handlers, NEW a \in Attendees, ApproveReads(h, a)
        PROVE  ScansOfMembers'
    <2> DEFINE q == [op |-> "approve", who |-> a, to |-> distance[a],
                     numbered |-> bib[a] # NoBib]
    <2>1. q \in Requests /\ q.op = "approve"
      BY DEF Requests, TypeOK
    <2>2. Reply(h, q)
      BY <1>4 DEF ApproveReads
    <2> HIDE DEF q
    <2> QED
      BY <1>3, <2>1, <2>2
  <1>5. ASSUME NEW h \in Handlers, NEW a \in Attendees, CheckInReads(h, a)
        PROVE  ScansOfMembers'
    <2> DEFINE q == [op |-> "check_in", who |-> a, on |-> day]
    <2>1. q \in Requests /\ q.who = a
      BY DEF Requests, TypeOK
    <2>2. Reply(h, q) /\ status[a] # "absent"
      BY <1>5 DEF CheckInReads
    <2> HIDE DEF q
    <2> QED
      BY <1>3, <2>1, <2>2
  <1>6. ASSUME NEW h \in Handlers, NEW a \in Attendees, NEW d \in Labels,
               CompleteReads(h, a, d) \/ (d \in Names /\ ReassignReads(h, a, d))
        PROVE  ScansOfMembers'
    <2>1. PICK o \in {"complete", "reassign"} :
              Reply(h, [op |-> o, who |-> a, to |-> d]) /\ (o = "reassign" => d \in Names)
      BY <1>6 DEF CompleteReads, ReassignReads
    <2> DEFINE q == [op |-> o, who |-> a, to |-> d]
    <2>2. q \in Requests /\ q.op = o
      BY <2>1 DEF Requests
    <2> QED
      BY <1>3, <2>1, <2>2
  <1>7. ASSUME NEW h \in Handlers, NEW k \in Tickets, TicketReads(h, k)
        PROVE  ScansOfMembers'
    <2> DEFINE q == [op |-> "ticket", who |-> k]
    <2>1. q \in Requests /\ q.op = "ticket"
      BY DEF Requests
    <2>2. Reply(h, q)
      BY <1>7 DEF TicketReads
    <2> HIDE DEF q
    <2> QED
      BY <1>3, <2>1, <2>2
  <1>8. ASSUME NEW h \in Handlers, CheckInLooks(h)
        PROVE  ScansOfMembers'
    <2> DEFINE q == [req[h] EXCEPT !.op = "insert"]
    <2>1. /\ req[h].op = "check_in" /\ req[h] \in Requests
          /\ Reply(h, Idle) \/ Reply(h, q)
      BY <1>0, <1>8 DEF CheckInLooks
    <2>2. req[h].who \in Attendees /\ status[req[h].who] # "absent"
      BY <1>0, <1>2, <2>1 DEF ScansOfMembers
    <2>3. q \in Requests /\ q.who = req[h].who
      BY <2>1 DEF Requests, Idle
    <2> HIDE DEF q
    <2> QED
      BY <1>3, <2>1, <2>2, <2>3, IdleIsRequest
  <1>9. ASSUME NEW h \in Handlers, Reply(h, Idle)
        PROVE  ScansOfMembers'
    BY <1>3, <1>9, IdleIsRequest
  <1>10. CASE UNCHANGED req
    BY <1>0, <1>1, <1>2, <1>10 DEF ScansOfMembers
  <1> QED
    BY <1>4, <1>5, <1>6, <1>7, <1>8, <1>9, <1>10
    DEF Next, HandlerStep, Labels, ApproveCommits, CompleteCommits, ReassignCommits,
        CheckInInserts, TicketCommits, Fails, SubmitProof, WalkIn, Retention, NextDay, vars

\* At any number of doors, over any number of days, a person gets in once a day
\* and a ticket once at all, and every record of the day stands for one entry.
THEOREM OneEntry == Spec => []OneEntryPerDay
  <1>1. Init => TypeOK /\ EntryInv
    <2> SUFFICES ASSUME Init
                 PROVE  TypeOK /\ EntryInv
      OBVIOUS
    <2>1. OneEntryPerDay
      BY DEF Init, OneEntryPerDay
    <2>2. NotInYet /\ ScansOfMembers
      BY IdleOp DEF Init, NotInYet, ScansOfMembers
    <2> QED
      BY <2>1, <2>2, TypeInit DEF EntryInv
  <1>2. TypeOK /\ EntryInv /\ [Next]_vars => (TypeOK /\ EntryInv)'
    BY TypeStep, EntryStep, NotInYetStep, ScansStep DEF EntryInv
  <1>3. EntryInv => OneEntryPerDay
    BY DEF EntryInv
  <1> QED
    BY <1>1, <1>2, <1>3, PTL DEF Spec
=============================================================================
