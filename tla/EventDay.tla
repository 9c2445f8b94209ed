------------------------------- MODULE EventDay -------------------------------
(***************************************************************************)
(* The day of a (running) event: approvals that number the bibs, operators *)
(* who change an attendee's race distance, scanners at several doors, the  *)
(* walk-in desk and, two years later, the retention job.                   *)
(*                                                                         *)
(* Every handler reads an attendee and its registration before its         *)
(* transaction and writes by id in it: one action for the read, one for    *)
(* each statement another request can overtake.  What the database itself  *)
(* refuses (its unique indexes) is part of the write.  The attendee rows   *)
(* here came with the checkout; rows inserted later, and what then happens *)
(* to the status, are in Registrations.                                    *)
(***************************************************************************)
EXTENDS Integers, FiniteSets

CONSTANTS Attendees,  \* one attendee per registration
          Tickets,    \* tickets of the older order flow
          Names,      \* runningConfig.distances: the names of the distances
          Codes,      \* and their codes; a distance may use one string as both
          CodeOf,     \* the code of the distance of each name
          Handlers,   \* requests served at the same time
          MaxDay,     \* bound: days of the event
          MaxBib      \* bound: bibs allocated per label

ASSUME EventDayAssumption ==
    /\ MaxDay \in Nat \ {0} /\ MaxBib \in Nat
    /\ Names # {} /\ CodeOf \in [Names -> Codes]
    /\ \A m, n \in Names : CodeOf[m] = CodeOf[n] => m = n
    /\ Attendees \cap Tickets = {}
    /\ (Attendees \X (1 .. MaxDay)) \cap Tickets = {}

\* What attendees.race_distance may hold: checkout takes a distance's name or its
\* code, whichever the caller sends (the form of the web client sends the code).
Labels == Names \cup Codes

Days == 1 .. MaxDay
NoDay == 0
NoDistance == "no distance"
NoBib == [under |-> NoDistance, code |-> "", seq |-> 0]

VARIABLES
    status,     \* registrations.status of each attendee
    distance,   \* attendees.race_distance, a label
    bib,        \* attendees.bib_number, bib_sequence, and the label numbered under
    counter,    \* race_bib_counters.next_value, by label
    ticket,     \* tickets.status
    attendance, \* attendee_attendance: unique per attendee and day
    firstIn,    \* attendees.checked_in_at
    day,        \* today
    req,        \* requests under way
    issued,     \* history: every bib ever allocated
    overtaken,  \* history: attendees whose details a late completion rewrote
    admitted    \* history: answers that let someone in

vars == <<status, distance, bib, counter, ticket, attendance, firstIn, day, req,
          issued, overtaken, admitted>>

bibVars == <<distance, bib, counter, issued, overtaken>>
doorVars == <<ticket, attendance, firstIn, admitted>>

Bib == [under : Labels, code : Codes \cup {"RACE"}, seq : 1 .. MaxBib]

\* The text of bib_number: <code>-<seq>.
Printed(b) == <<b.code, b.seq>>

Idle == [op |-> "idle"]
Requests ==
    {Idle}
      \cup [op : {"approve"}, who : Attendees, to : Labels \cup {NoDistance},
            numbered : BOOLEAN]
      \cup [op : {"complete"}, who : Attendees, to : Labels]
      \cup [op : {"reassign"}, who : Attendees, to : Names]
      \cup [op : {"check_in", "insert"}, who : Attendees, on : Days]
      \cup [op : {"ticket"}, who : Tickets]

Reply(h, q) == req' = [req EXCEPT ![h] = q]

\* @@unique([eventId, raceDistance, bibSequence]) after one attendee's update.
BibIndexAllows(a, d, seq) ==
    \A b \in Attendees \ {a} : seq > 0 /\ distance[b] = d => bib[b].seq # seq

TypeOK ==
    /\ status \in [Attendees -> {"absent", "pending_payment", "pending_approval", "verified"}]
    /\ distance \in [Attendees -> Labels \cup {NoDistance}]
    /\ bib \in [Attendees -> Bib \cup {NoBib}]
    /\ counter \in [Labels -> 1 .. (MaxBib + 1)]
    /\ ticket \in [Tickets -> {"valid", "used"}]
    /\ attendance \subseteq Attendees \X Days
    /\ firstIn \in [Attendees -> Days \cup {NoDay}]
    /\ day \in Days
    /\ req \in [Handlers -> Requests]
    /\ issued \subseteq Bib
    /\ overtaken \subseteq Attendees
    /\ admitted \in [(Attendees \X Days) \cup Tickets -> Nat]

-----------------------------------------------------------------------------
Init ==
    /\ status \in [Attendees -> {"pending_payment", "absent"}]
    /\ distance \in [Attendees -> Labels \cup {NoDistance}]
    /\ \A a \in Attendees : status[a] = "absent" <=> distance[a] = NoDistance
    /\ bib = [a \in Attendees |-> NoBib]
    /\ counter = [d \in Labels |-> 1]
    /\ ticket = [k \in Tickets |-> "valid"]
    /\ attendance = {}
    /\ firstIn = [a \in Attendees |-> NoDay]
    /\ day = 1
    /\ req = [h \in Handlers |-> Idle]
    /\ issued = {} /\ overtaken = {}
    /\ admitted = [x \in (Attendees \X Days) \cup Tickets |-> 0]

-----------------------------------------------------------------------------
(* Bibs: approve, reassignRaceDistance and what undoes their reads *)

\* distanceCode: it finds a distance by its name.  What a row holds as a code is
\* not found, and the bib then names no distance.
DistanceCode(d) == IF d \in Names THEN CodeOf[d] ELSE "RACE"

\* The upserted counter of the label, incremented under the label's lock.
NextBib(d) == [under |-> d, code |-> DistanceCode(d), seq |-> counter[d]]

\* Mutant: number from the bibs that are in use.
FirstFreeBib(d) ==
    [under |-> d, code |-> DistanceCode(d),
     seq |-> 1 + Cardinality({a \in Attendees : bib[a].under = d})]

Allocated(d) == NextBib(d)

Takes(a, d, at) ==
    /\ counter[d] <= MaxBib
    /\ BibIndexAllows(a, at, Allocated(d).seq)
    /\ bib' = [bib EXCEPT ![a] = Allocated(d)]
    /\ counter' = [counter EXCEPT ![d] = @ + 1]
    /\ issued' = issued \cup {Allocated(d)}

ApproveReads(h, a) ==
    /\ req[h] = Idle
    /\ status[a] = "pending_approval"
    /\ Reply(h, [op |-> "approve", who |-> a, to |-> distance[a],
                 numbered |-> bib[a] # NoBib])
    /\ UNCHANGED <<status, day, bibVars, doorVars>>

\* The registration changes state only from a reviewable one; the attendee read
\* before the transaction decides whether it is numbered, and for which distance.
ApproveCommits(h) == LET q == req[h] IN
    /\ q.op = "approve"
    /\ status[q.who] = "pending_approval"
    /\ status' = [status EXCEPT ![q.who] = "verified"]
    /\ IF q.to = NoDistance \/ q.numbered
         THEN UNCHANGED <<bib, counter, issued>>
         ELSE Takes(q.who, q.to, distance[q.who])
    /\ Reply(h, Idle)
    /\ UNCHANGED <<distance, overtaken, day, doorVars>>

\* The payment proof of a registration whose details came with the checkout.
SubmitProof(a) ==
    /\ status[a] = "pending_payment"
    /\ status' = [status EXCEPT ![a] = "pending_approval"]
    /\ UNCHANGED <<day, req, bibVars, doorVars>>

\* updateAttendeesForRegistration: the details, sent again before the proof.
CompleteReads(h, a, d) ==
    /\ req[h] = Idle
    /\ status[a] = "pending_payment"
    /\ Reply(h, [op |-> "complete", who |-> a, to |-> d])
    /\ UNCHANGED <<status, day, bibVars, doorVars>>

Reading(a) == {h \in Handlers : req[h].op = "approve" /\ req[h].who = a}

CompleteCommits(h) == LET q == req[h] IN
    /\ q.op = "complete"
    /\ BibIndexAllows(q.who, q.to, bib[q.who].seq)
    /\ distance' = [distance EXCEPT ![q.who] = q.to]
    /\ overtaken' = IF bib[q.who] # NoBib \/ Reading(q.who) # {}
                      THEN overtaken \cup {q.who} ELSE overtaken
    /\ Reply(h, Idle)
    /\ UNCHANGED <<status, bib, counter, issued, day, doorVars>>

\* The destination is one of the configured names, another string than the row's.
ReassignReads(h, a, d) ==
    /\ req[h] = Idle
    /\ status[a] = "verified" /\ distance[a] # d
    /\ Reply(h, [op |-> "reassign", who |-> a, to |-> d])
    /\ UNCHANGED <<status, day, bibVars, doorVars>>

\* Mutant: the number changes and the distance stays.
KeepDistance(a, d) == distance' = distance

MoveTo(a, d) == distance' = [distance EXCEPT ![a] = d]

ReassignCommits(h) == LET q == req[h] IN
    /\ q.op = "reassign"
    /\ Takes(q.who, q.to, q.to)
    /\ MoveTo(q.who, q.to)
    /\ Reply(h, Idle)
    /\ UNCHANGED <<status, overtaken, day, doorVars>>

\* enforceAttendeeRetention, two years on: the bib goes, the distance stays.
Retention(a) ==
    /\ day = MaxDay /\ \A h \in Handlers : req[h] = Idle
    /\ status[a] # "absent" /\ bib[a] # NoBib
    /\ bib' = [bib EXCEPT ![a] = NoBib]
    /\ UNCHANGED <<status, distance, counter, issued, overtaken, day, req, doorVars>>

-----------------------------------------------------------------------------
(* The doors *)

NextDay ==
    /\ day < MaxDay
    /\ day' = day + 1
    /\ UNCHANGED <<status, req, bibVars, doorVars>>

\* checkIn (path A) and checkinManual; `now` is taken before the transaction.
CheckInReads(h, a) ==
    /\ req[h] = Idle
    /\ status[a] = "verified"
    /\ Reply(h, [op |-> "check_in", who |-> a, on |-> day])
    /\ UNCHANGED <<status, day, bibVars, doorVars>>

\* createDailyAttendance: the look that finds today's record refuses the scan.
CheckInLooks(h) == LET q == req[h] IN
    /\ q.op = "check_in"
    /\ Reply(h, IF <<q.who, q.on>> \in attendance THEN Idle ELSE [q EXCEPT !.op = "insert"])
    /\ UNCHANGED <<status, day, bibVars, doorVars>>

\* Mutant: no unique index, the look before is all there is.
LookedAt(a, d) == TRUE

AttendanceIndexAllows(a, d) == <<a, d>> \notin attendance

FirstEntry(a, d) == IF firstIn[a] = NoDay THEN d ELSE firstIn[a]

Enters(a, d) ==
    /\ attendance' = attendance \cup {<<a, d>>}
    /\ firstIn' = [firstIn EXCEPT ![a] = FirstEntry(a, d)]
    /\ admitted' = [admitted EXCEPT ![<<a, d>>] = @ + 1]

CheckInInserts(h) == LET q == req[h] IN
    /\ q.op = "insert"
    /\ IF AttendanceIndexAllows(q.who, q.on)
         THEN Enters(q.who, q.on)
         ELSE UNCHANGED <<attendance, firstIn, admitted>>
    /\ Reply(h, Idle)
    /\ UNCHANGED <<status, day, ticket, bibVars>>

\* handleOnsiteRegistrationScan: registered, verified and in, in one transaction.
WalkIn(a) ==
    /\ status[a] = "absent"
    /\ status' = [status EXCEPT ![a] = "verified"]
    /\ Enters(a, day)
    /\ UNCHANGED <<ticket, day, req, bibVars>>

\* checkIn, path B.
TicketReads(h, k) ==
    /\ req[h] = Idle
    /\ ticket[k] = "valid"
    /\ Reply(h, [op |-> "ticket", who |-> k])
    /\ UNCHANGED <<status, day, bibVars, doorVars>>

\* The update that counts the rows it changed.
TicketCommits(h) == LET k == req[h].who IN
    /\ req[h].op = "ticket"
    /\ ticket' = [ticket EXCEPT ![k] = "used"]
    /\ admitted' = IF ticket[k] = "valid" THEN [admitted EXCEPT ![k] = @ + 1] ELSE admitted
    /\ Reply(h, Idle)
    /\ UNCHANGED <<status, day, attendance, firstIn, bibVars>>

\* A refusal by an index, a lost connection, a dead process: nothing is written.
Fails(h) ==
    /\ req[h] # Idle
    /\ Reply(h, Idle)
    /\ UNCHANGED <<status, day, bibVars, doorVars>>

-----------------------------------------------------------------------------
HandlerStep(h) ==
    \/ \E a \in Attendees : ApproveReads(h, a) \/ CheckInReads(h, a)
    \/ \E a \in Attendees, d \in Labels : CompleteReads(h, a, d)
    \/ \E a \in Attendees, d \in Names : ReassignReads(h, a, d)
    \/ \E k \in Tickets : TicketReads(h, k)
    \/ ApproveCommits(h) \/ CompleteCommits(h) \/ ReassignCommits(h)
    \/ CheckInLooks(h) \/ CheckInInserts(h) \/ TicketCommits(h) \/ Fails(h)

Next ==
    \/ \E h \in Handlers : HandlerStep(h)
    \/ \E a \in Attendees : SubmitProof(a) \/ WalkIn(a) \/ Retention(a)
    \/ NextDay

Spec == Init /\ [][Next]_vars

-----------------------------------------------------------------------------
(* Properties *)

\* A printed bib is not given out again: not to somebody else's attendee, nor after
\* its own was moved to another distance or anonymised (counters only grow, whatever
\* the requests have read).  What the code does let through is named: a RACE bib, of
\* a row that holds a code, comes again from the counter of another label.
BibsNeverReused ==
    [][\A a \in Attendees : bib'[a] # bib[a] /\ bib'[a] # NoBib =>
          \A b \in issued : Printed(b) = Printed(bib'[a]) =>
              b.code = "RACE" /\ b.under # bib'[a].under]_vars

\* A bib shows the distance its attendee runs where the row names it, and no
\* distance (RACE) where the row holds a code, unless details that were sent before
\* the approval arrived after it had read the attendee.
BibMatchesDistance ==
    \A a \in Attendees \ overtaken :
        bib[a] # NoBib => bib[a].code = DistanceCode(distance[a])

\* Of any scans of one person on one day, at whatever doors, exactly one is
\* answered with an entry once there is a record, and none before; the first
\* entry shown for a person is a day on which the person came.
OneEntryPerDay ==
    /\ \A a \in Attendees, d \in Days :
           admitted[<<a, d>>] = IF <<a, d>> \in attendance THEN 1 ELSE 0
    /\ \A k \in Tickets : admitted[k] = IF ticket[k] = "used" THEN 1 ELSE 0
    /\ \A a \in Attendees :
           IF firstIn[a] = NoDay THEN \A d \in Days : <<a, d>> \notin attendance
                                 ELSE <<a, firstIn[a]>> \in attendance
=============================================================================
