---------------------------- MODULE CatSessionProofs ---------------------------
(***************************************************************************)
(* What holds of a CAT session for any frequencies, any number of          *)
(* requests, connections, failures and turns of the dial, and any length   *)
(* of the queues.  First the transceiver: each operator of CatTransceiver  *)
(* has a lemma about what it does to the fields the invariants are about.  *)
(* Then the inductive invariant IInv, action by action, and PInv, which    *)
(* holds until an answer is missed: what the polls tell.                   *)
(***************************************************************************)
EXTENDS CatSession, TLAPS

Transceivers(n) ==
    [requested : States, actual : States, last : States, next : States,
     signalled : States, seq : 0 .. n, retries : 0 .. PollsToStabilize,
     failures : 0 .. Tolerated - 1, polling : BOOLEAN, fast : BOOLEAN,
     pttOn : BOOLEAN, bursts : 0 .. Bursts]

Rigs == [open : BOOLEAN, dial : Dials, dialTo : Dials, tx : BOOLEAN, txTo : BOOLEAN,
         mic : BOOLEAN, ours : BOOLEAN, since : 0 .. PollsToStabilize]

Calls(n) == [by : {"start", "stop", "frequency", "ptt", "restore"}, state : States, seq : 0 .. n]

Kinds == {"update", "failure", "pttFailure", "finished"}
ReportsTo(n) == [kind : Kinds, state : States, seq : 0 .. n]

Budgets == [requests : 0 .. Requests, connects : 0 .. Connects,
            misses : 0 .. Misses, turns : 0 .. Turns]

\* m with another object and another radio
With(m, x, r) == [m EXCEPT !.w = x, !.rig = r]

Sent == {i \in DOMAIN calls : calls[i].by \in {"frequency", "ptt", "restore"}}
NoStop == \A i \in DOMAIN calls : calls[i].by # "stop"
Tells(r) == r.kind = "update" /\ r.state.online

Scalars ==
    /\ desired \in States
    /\ present \in BOOLEAN /\ connecting \in BOOLEAN /\ connected \in BOOLEAN
    /\ disconnecting \in BOOLEAN /\ reconnectAfter \in BOOLEAN /\ asked \in BOOLEAN
    /\ blocked \in BOOLEAN /\ guard \in BOOLEAN /\ retryPending \in BOOLEAN
    /\ due \subseteq {"always", "ifFree"}
    /\ view \in [frequency : Dials \cup {0}, ptt : BOOLEAN]
    /\ retryCount \in 0 .. MaxRetries
    /\ budget \in Budgets

Types ==
    /\ seqNum \in Nat
    /\ calls \in Seq(Calls(seqNum))
    /\ thread \in {"none", "running", "quitting"}
    /\ w \in Transceivers(seqNum) /\ rig \in Rigs
    /\ reports \in Seq(ReportsTo(w.seq))

OneThread ==
    /\ ~present => reports = <<>> /\ thread = "none" /\ ~disconnecting /\ ~connecting /\ ~connected
    /\ present /\ ~disconnecting => thread = "running" /\ NoStop
    /\ thread = "none" => calls = <<>>
    /\ thread = "none" /\ present => reports # <<>> /\ reports[Len(reports)].kind = "finished"
    /\ \A i \in DOMAIN reports :
          reports[i].kind = "finished" => thread = "none" /\ i = Len(reports)

InOrder ==
    /\ \A i \in DOMAIN calls : calls[i].by # "stop" => w.seq < calls[i].seq
    /\ \A i, j \in DOMAIN calls :
          i < j /\ calls[i].by # "stop" /\ calls[j].by # "stop" => calls[i].seq < calls[j].seq

Newest ==
    Sent # {} /\ ~disconnecting =>
       \E i \in Sent : /\ \A j \in Sent : j <= i
                       /\ desired.frequency = calls[i].state.frequency
                       /\ desired.ptt = calls[i].state.ptt

Online ==
    /\ w.actual.online = w.requested.online
    /\ thread # "none" => rig.open = w.requested.online
    /\ thread = "none" => ~rig.open

Told ==
    thread = "running" /\ NoStop =>
       IF reports = <<>> THEN connected = w.requested.online
       ELSE Tells(reports[Len(reports)]) = w.requested.online

Posted ==
    \A i \in DOMAIN calls :
       /\ calls[i].by = "frequency" => ~calls[i].state.ptt
       /\ calls[i].by = "restore" => Inherits

KeyedUntilMissed == budget.misses = Misses => KeyedIsRemembered

IInv == Scalars /\ Types /\ OneThread /\ InOrder /\ Newest /\ Online /\ Told /\ Posted /\ KeyedUntilMissed

-----------------------------------------------------------------------------
(* The transceiver, as far as the invariants look at it.                     *)

WorkerReports(n) == [kind : Kinds \ {"finished"}, state : States, seq : 0 .. n]
Machines(n) == [w : Transceivers(n), rig : Rigs, out : Seq(WorkerReports(n))]

(* r is m but for what is neither signalled nor of the connection.           *)
Quiet(n, m, r) ==
    /\ r \in Machines(n) /\ r.out = m.out /\ r.w.seq = m.w.seq
    /\ r.w.actual.online = m.w.actual.online
    /\ r.w.requested.online = m.w.requested.online
    /\ r.rig.open = m.rig.open

(* The PTT is neither asked for nor keyed otherwise than in m.               *)
SamePtt(m, r) ==
    /\ r.w.requested.ptt = m.w.requested.ptt /\ r.w.actual.ptt = m.w.actual.ptt
    /\ r.rig.txTo = m.rig.txTo /\ r.rig.ours = m.rig.ours

LEMMA IdleIs == Idle \in States /\ ~Idle.online /\ ~Idle.ptt
  BY DEF States, Idle

LEMMA PttField ==
    ASSUME NEW s \in States, NEW b \in BOOLEAN
    PROVE  LET r == [s EXCEPT !.ptt = b]
           IN r \in States /\ r.online = s.online /\ r.ptt = b
  BY DEF States

LEMMA OnlineField ==
    ASSUME NEW s \in States, NEW b \in BOOLEAN
    PROVE  LET r == [s EXCEPT !.online = b]
           IN r \in States /\ r.online = b /\ r.ptt = s.ptt /\ r.frequency = s.frequency
  BY DEF States

LEMMA FrequencyField ==
    ASSUME NEW s \in States, NEW f \in Dials
    PROVE  LET r == [s EXCEPT !.frequency = f]
           IN r \in States /\ r.online = s.online /\ r.ptt = s.ptt /\ r.frequency = f
  BY DEF States

LEMMA MachineFields ==
    ASSUME NEW n, NEW m \in Machines(n)
    PROVE  /\ m.w \in Transceivers(n) /\ m.rig \in Rigs /\ m.out \in Seq(WorkerReports(n))
           /\ \A x \in Transceivers(n) :
                 LET r == [m EXCEPT !.w = x]
                 IN r \in Machines(n) /\ r.w = x /\ r.rig = m.rig /\ r.out = m.out
           /\ \A x \in Rigs :
                 LET r == [m EXCEPT !.rig = x]
                 IN r \in Machines(n) /\ r.w = m.w /\ r.rig = x /\ r.out = m.out
           /\ \A x \in Seq(WorkerReports(n)) :
                 LET r == [m EXCEPT !.out = x]
                 IN r \in Machines(n) /\ r.w = m.w /\ r.rig = m.rig /\ r.out = x
  BY DEF Machines

LEMMA WithFields ==
    ASSUME NEW n, NEW m \in Machines(n), NEW x \in Transceivers(n), NEW r \in Rigs
    PROVE  /\ With(m, x, r) \in Machines(n)
           /\ With(m, x, r).w = x /\ With(m, x, r).rig = r /\ With(m, x, r).out = m.out
  BY DEF Machines, With

LEMMA DoPttIs ==
    ASSUME NEW n, NEW m \in Machines(n), NEW on \in BOOLEAN, NEW o \in Outcomes
    PROVE  LET r == DoPtt(m, on, o)
               done == o.obeyed /\ m.rig.open
           IN /\ Quiet(n, m, r) /\ r.w.requested = m.w.requested
              /\ r.w.actual.ptt = IF o.heard /\ m.rig.open THEN on ELSE m.w.pttOn
              /\ r.rig.txTo = IF done THEN on ELSE m.rig.txTo
              /\ r.rig.ours = IF done THEN on ELSE m.rig.ours
<1> DEFINE believed == IF o.heard /\ m.rig.open THEN on ELSE m.w.pttOn
           done == o.obeyed /\ m.rig.open
           actual == [m.w.actual EXCEPT !.ptt = believed]
           bursts == IF on /\ o.heard THEN Bursts ELSE m.w.bursts
           x == [m.w EXCEPT !.pttOn = believed, !.actual = actual, !.bursts = bursts]
           r == [m.rig EXCEPT !.txTo = IF done THEN on ELSE m.rig.txTo,
                              !.ours = IF done THEN on ELSE m.rig.ours]
<1>1. o.heard \in BOOLEAN /\ o.obeyed \in BOOLEAN /\ m.w \in Transceivers(n) /\ m.rig \in Rigs
  BY MachineFields DEF Outcomes
<1>2. believed \in BOOLEAN /\ m.w.actual \in States
  BY <1>1 DEF Transceivers, Rigs
<1>3. /\ r \in Rigs /\ r.open = m.rig.open
      /\ r.txTo = (IF done THEN on ELSE m.rig.txTo)
      /\ r.ours = (IF done THEN on ELSE m.rig.ours)
  BY <1>1 DEF Rigs
<1> HIDE DEF believed
<1>4. actual \in States /\ actual.online = m.w.actual.online /\ actual.ptt = believed
  BY <1>2, PttField
<1>5. bursts \in 0 .. Bursts
  BY <1>1, CatAssumption DEF Transceivers
<1> HIDE DEF actual, bursts
<1>6. /\ x \in Transceivers(n) /\ x.actual = actual /\ x.seq = m.w.seq
      /\ x.requested = m.w.requested
  BY <1>1, <1>2, <1>4, <1>5 DEF Transceivers
<1>7. DoPtt(m, on, o) = With(m, x, r)
  <2>1. x = TrackPtt(m.w, believed, on /\ o.heard)
    BY DEF TrackPtt, actual, bursts
  <2>2. r = IF done THEN Order(m.rig, on) ELSE m.rig
    BY <1>1 DEF Order, Rigs
  <2> HIDE DEF x, r
  <2> QED BY <2>1, <2>2 DEF DoPtt, With, believed
<1> HIDE DEF x, r
<1> QED BY <1>3, <1>4, <1>6, <1>7, WithFields DEF Quiet, believed

LEMMA ExpectIs ==
    ASSUME NEW n, NEW x \in Transceivers(n), NEW s \in States
    PROVE  /\ Expect(x, s) \in Transceivers(n)
           /\ Expect(x, s).actual = x.actual /\ Expect(x, s).requested = x.requested
           /\ Expect(x, s).seq = x.seq
<1> DEFINE y == [x EXCEPT !.next = s]
           z == [y EXCEPT !.retries = PollsToStabilize]
<1>1. y \in Transceivers(n) /\ y.actual = x.actual /\ y.requested = x.requested /\ y.seq = x.seq
  BY DEF Transceivers
<1>2. z \in Transceivers(n) /\ z.actual = y.actual /\ z.requested = y.requested /\ z.seq = y.seq
  <2> HIDE DEF y
  <2> QED BY <1>1 DEF Transceivers, PollsToStabilize
<1>3. Expect(x, s) = IF s = x.next THEN x ELSE z
  BY DEF Expect
<1> HIDE DEF y, z
<1> QED BY <1>1, <1>2, <1>3

LEMMA DoPostPttIs ==
    ASSUME NEW n, NEW m \in Machines(n), NEW on \in BOOLEAN
    PROVE  LET r == DoPostPtt(m, on)
           IN /\ Quiet(n, m, r) /\ r.w.requested = m.w.requested /\ r.w.actual = m.w.actual
              /\ r.rig = m.rig
<1> DEFINE s == [m.w.next EXCEPT !.ptt = on]
           fast == IF m.w.next.ptt # on /\ m.w.polling THEN on ELSE Expect(m.w, s).fast
           x == [Expect(m.w, s) EXCEPT !.fast = fast]
<1>1. m.w \in Transceivers(n) /\ m.w.next \in States
  BY MachineFields DEF Transceivers
<1>2. s \in States
  BY <1>1, PttField
<1> HIDE DEF s
<1>3. /\ Expect(m.w, s) \in Transceivers(n) /\ Expect(m.w, s).actual = m.w.actual
      /\ Expect(m.w, s).requested = m.w.requested /\ Expect(m.w, s).seq = m.w.seq
  BY <1>1, <1>2, ExpectIs
<1>4. /\ x \in Transceivers(n) /\ x.actual = m.w.actual /\ x.seq = m.w.seq
      /\ x.requested = m.w.requested
  BY <1>3 DEF Transceivers
<1>5. DoPostPtt(m, on) = [m EXCEPT !.w = x]
  <2>1. x = ExpectPtt(m.w, on)
    BY DEF ExpectPtt, s
  <2> HIDE DEF x
  <2> QED BY <2>1 DEF DoPostPtt
<1> HIDE DEF x
<1> QED BY <1>4, <1>5, MachineFields DEF Quiet

LEMMA TrackDialIs ==
    ASSUME NEW n, NEW x \in Transceivers(n), NEW f \in Dials
    PROVE  LET y == TrackDial(x, f)
           IN /\ y \in Transceivers(n) /\ y.seq = x.seq /\ y.failures = x.failures
              /\ y.actual.online = x.actual.online /\ y.requested.online = x.requested.online
              /\ y.actual.ptt = x.actual.ptt /\ y.requested.ptt = x.requested.ptt
<1> DEFINE a == [x.actual EXCEPT !.frequency = f]
           r == [x.requested EXCEPT !.frequency = f]
           y == [x EXCEPT !.actual = a, !.requested = r]
<1>1. x.actual \in States /\ x.requested \in States
  BY DEF Transceivers
<1>2. /\ a \in States /\ a.online = x.actual.online /\ a.ptt = x.actual.ptt
      /\ r \in States /\ r.online = x.requested.online /\ r.ptt = x.requested.ptt
  BY <1>1, FrequencyField
<1> HIDE DEF a, r
<1>3. /\ y \in Transceivers(n) /\ y.seq = x.seq /\ y.actual = a /\ y.requested = r
      /\ y.failures = x.failures
  BY <1>2 DEF Transceivers
<1>4. TrackDial(x, f) = y
  BY DEF TrackDial, a, r
<1> QED BY <1>2, <1>3, <1>4

(* The last thing signalled says whether the transceiver is online.          *)
Ended(r) == r.out # <<>> /\ (Tells(r.out[Len(r.out)]) <=> r.w.requested.online)

LEMMA UpdateCompleteIs ==
    ASSUME NEW n \in Nat, NEW m \in Machines(n), NEW force \in BOOLEAN
    PROVE  LET r == UpdateComplete(m, force)
           IN /\ r \in Machines(n) /\ r.rig = m.rig /\ r.w.seq = m.w.seq
              /\ r.w.requested = m.w.requested /\ r.w.actual = m.w.actual
              /\ \/ ~force /\ r.out = m.out
                 \/ r.out # <<>> /\ (Tells(r.out[Len(r.out)]) <=> r.w.actual.online)
<1> DEFINE e == Report("update", m.w.actual, m.w.seq)
           q == Append(m.out, e)
           x == [m.w EXCEPT !.last = m.w.actual]
           m1 == [m EXCEPT !.out = q]
           m2 == [m1 EXCEPT !.w = x]
<1>1. m.w \in Transceivers(n) /\ m.w.actual \in States /\ m.out \in Seq(WorkerReports(n))
  BY MachineFields DEF Transceivers
<1>2. /\ x \in Transceivers(n) /\ x.requested = m.w.requested /\ x.actual = m.w.actual
      /\ x.seq = m.w.seq /\ m.w.seq \in 0 .. n
  BY <1>1 DEF Transceivers
<1>3. e \in WorkerReports(n) /\ e.kind = "update" /\ e.state = m.w.actual
  BY <1>1, <1>2 DEF WorkerReports, Kinds, Report
<1> HIDE DEF e, x
<1>4. q \in Seq(WorkerReports(n)) /\ q # <<>> /\ q[Len(q)] = e
  BY <1>1, <1>3
<1> HIDE DEF q
<1>5. m1 \in Machines(n) /\ m1.out = q /\ m1.rig = m.rig
  BY <1>4, MachineFields
<1> HIDE DEF m1
<1>6. m2 \in Machines(n) /\ m2.out = q /\ m2.rig = m.rig /\ m2.w = x
  BY <1>2, <1>5, MachineFields
<1>7. \/ UpdateComplete(m, force) = m2
      \/ ~force /\ UpdateComplete(m, force) = m
  BY <1>5, MachineFields DEF UpdateComplete, m1, q, e, x
<1> HIDE DEF m2
<1>8. Tells(q[Len(q)]) <=> x.actual.online
  BY <1>2, <1>3, <1>4 DEF Tells
<1> QED BY <1>2, <1>4, <1>6, <1>7, <1>8

LEMMA FrequencyIs ==
    ASSUME NEW n \in Nat, NEW m \in Machines(n), NEW f \in Dials, NEW o \in Outcomes
    PROVE  LET r == DoPostFrequency(DoFrequency(m, f, o), f)
           IN Quiet(n, m, r) /\ SamePtt(m, r)
<1> DEFINE x == IF o.heard THEN TrackDial(m.w, f) ELSE m.w
           since == IF ~o.heard THEN PollsToStabilize
                    ELSE IF m.w.next.frequency # f THEN 0 ELSE m.rig.since
           r == [m.rig EXCEPT !.since = since, !.dialTo = IF o.obeyed THEN f ELSE m.rig.dialTo]
           m1 == DoFrequency(m, f, o)
           s == [m1.w.next EXCEPT !.frequency = f]
           m2 == [m1 EXCEPT !.w = Expect(m1.w, s)]
<1>1. o.heard \in BOOLEAN /\ o.obeyed \in BOOLEAN /\ m.w \in Transceivers(n) /\ m.rig \in Rigs
  BY MachineFields DEF Outcomes
<1>2. /\ x \in Transceivers(n) /\ x.seq = m.w.seq
      /\ x.actual.online = m.w.actual.online /\ x.requested.online = m.w.requested.online
      /\ x.actual.ptt = m.w.actual.ptt /\ x.requested.ptt = m.w.requested.ptt
  BY <1>1, TrackDialIs
<1>3. since \in 0 .. PollsToStabilize
  BY <1>1 DEF Rigs, PollsToStabilize
<1> HIDE DEF x, since
<1>4. /\ r \in Rigs /\ r.open = m.rig.open /\ r.txTo = m.rig.txTo /\ r.ours = m.rig.ours
  BY <1>1, <1>3 DEF Rigs
<1>5. m1 = With(m, x, r)
  <2>1. r = Tune(m.rig, f, o, m.w.next.frequency # f)
    BY <1>1 DEF Tune, since, Rigs
  <2> HIDE DEF r
  <2> QED BY <2>1 DEF DoFrequency, With, x
<1> HIDE DEF r
<1>6. m1 \in Machines(n) /\ m1.w = x /\ m1.rig = r /\ m1.out = m.out
  BY <1>2, <1>4, <1>5, WithFields
<1> HIDE DEF m1
<1>7. s \in States
  BY <1>2, <1>6, FrequencyField DEF Transceivers
<1> HIDE DEF s
<1>8. /\ Expect(m1.w, s) \in Transceivers(n) /\ Expect(m1.w, s).actual = x.actual
      /\ Expect(m1.w, s).requested = x.requested /\ Expect(m1.w, s).seq = x.seq
  BY <1>2, <1>6, <1>7, ExpectIs
<1>9. /\ m2 \in Machines(n) /\ m2.w = Expect(m1.w, s) /\ m2.rig = r /\ m2.out = m.out
  BY <1>6, <1>8, MachineFields
<1>10. DoPostFrequency(DoFrequency(m, f, o), f) = m2
  BY DEF DoPostFrequency, ExpectDial, m1, s
<1> HIDE DEF m2
<1> QED BY <1>2, <1>4, <1>8, <1>9, <1>10 DEF Quiet, SamePtt

(* What the shutdown leaves of m: r, which is silent or says it is offline.  *)
Stopped(n, m, r) ==
    /\ r \in Machines(n) /\ r.w.seq = m.w.seq
    /\ ~r.w.actual.online /\ ~r.w.requested.online /\ ~r.rig.open
    /\ r.rig.txTo => m.rig.txTo

LEMMA ShutdownIs ==
    ASSUME NEW n \in Nat, NEW m \in Machines(n), NEW rel \in Outcomes
    PROVE  LET r == Shutdown(m, rel)
           IN Stopped(n, m, r) /\ (r.out = m.out \/ Ended(r))
<1> DEFINE d == DoPtt(m, FALSE, rel)
           e == DoPostPtt(d, FALSE)
           v == IF m.w.requested.online THEN e ELSE m
           x == [v.w EXCEPT !.polling = FALSE, !.actual = Idle, !.requested = Idle]
           r == [v.rig EXCEPT !.open = FALSE]
           u == With(v, x, r)
<1>0. m.w \in Transceivers(n) /\ m.rig \in Rigs /\ m.rig.txTo \in BOOLEAN
  BY MachineFields DEF Rigs
<1>1. d \in Machines(n) /\ d.out = m.out /\ d.w.seq = m.w.seq /\ (d.rig.txTo => m.rig.txTo)
  BY <1>0, DoPttIs DEF Quiet
<1> HIDE DEF d
<1>2. e \in Machines(n) /\ e.out = m.out /\ e.w.seq = m.w.seq /\ (e.rig.txTo => m.rig.txTo)
  BY <1>1, DoPostPttIs DEF Quiet
<1> HIDE DEF e
<1>3. v \in Machines(n) /\ v.out = m.out /\ v.w.seq = m.w.seq /\ (v.rig.txTo => m.rig.txTo)
  BY <1>2
<1>4. Shutdown(m, rel) = UpdateComplete(u, FALSE)
  <2>1. x = Halted(v.w) /\ r = Closed(v.rig)
    BY DEF Halted, Closed
  <2> HIDE DEF x, r
  <2>2. Shutdown(m, rel) = UpdateComplete([v EXCEPT !.w = Halted(@), !.rig = Closed(@)], FALSE)
    BY DEF Shutdown, d, e
  <2> HIDE DEF v
  <2> QED BY <2>1, <2>2 DEF With
<1> HIDE DEF v
<1>5. v.w \in Transceivers(n) /\ v.rig \in Rigs
  BY <1>3, MachineFields
<1>6. x \in Transceivers(n) /\ x.seq = v.w.seq /\ x.actual = Idle /\ x.requested = Idle
  BY <1>5, IdleIs DEF Transceivers
<1>7. r \in Rigs /\ ~r.open /\ r.txTo = v.rig.txTo
  BY <1>5 DEF Rigs
<1> HIDE DEF x, r
<1>8. u \in Machines(n) /\ u.w = x /\ u.rig = r /\ u.out = m.out
  BY <1>3, <1>6, <1>7, WithFields
<1> HIDE DEF u
<1> DEFINE t == Shutdown(m, rel)
<1> HIDE DEF t
<1>8a. t = UpdateComplete(u, FALSE)
  BY <1>4 DEF t
<1>8b. /\ t \in Machines(n) /\ t.rig = u.rig /\ t.w.seq = u.w.seq
       /\ t.w.requested = u.w.requested /\ t.w.actual = u.w.actual
       /\ t.out = u.out \/ (t.out # <<>> /\ (Tells(t.out[Len(t.out)]) <=> t.w.actual.online))
  BY <1>8, <1>8a, UpdateCompleteIs
<1>9. /\ t \in Machines(n) /\ t.rig = r /\ t.w.seq = m.w.seq
      /\ t.w.requested = Idle /\ t.w.actual = Idle
      /\ t.out = m.out \/ (t.out # <<>> /\ (Tells(t.out[Len(t.out)]) <=> t.w.actual.online))
  BY <1>3, <1>6, <1>8, <1>8b
<1> HIDE DEF t
<1>10. Stopped(n, m, t)
  BY <1>3, <1>7, <1>9, IdleIs DEF Stopped
<1>11. t.out = m.out \/ Ended(t)
  BY <1>9 DEF Ended
<1> QED BY <1>10, <1>11 DEF t

LEMMA OfflineIs ==
    ASSUME NEW n \in Nat, NEW m \in Machines(n), NEW rel \in Outcomes,
           NEW kind \in {"failure", "pttFailure"}
    PROVE  LET r == Offline(m, kind, rel)
           IN Stopped(n, m, r) /\ Ended(r)
<1> DEFINE e == Report(kind, Idle, 0)
           q == Append(m.out, e)
           m1 == [m EXCEPT !.out = q]
<1>1. e \in WorkerReports(n) /\ ~Tells(e)
  BY IdleIs DEF WorkerReports, Kinds, Report, Tells
<1>2. m.out \in Seq(WorkerReports(n))
  BY MachineFields
<1> HIDE DEF e
<1>3. q \in Seq(WorkerReports(n)) /\ q # <<>> /\ q[Len(q)] = e
  BY <1>1, <1>2
<1> HIDE DEF q
<1>4. m1 \in Machines(n) /\ m1.out = q /\ m1.rig = m.rig /\ m1.w = m.w
  BY <1>3, MachineFields
<1>5. Offline(m, kind, rel) = Shutdown(m1, rel)
  BY DEF Offline, Signal, q, e
<1> HIDE DEF m1
<1> QED BY <1>1, <1>3, <1>4, <1>5, ShutdownIs DEF Stopped, Ended

(* A session that has begun, or has failed to.                               *)
Begun(n, m, r) ==
    /\ r \in Machines(n) /\ r.w.seq = m.w.seq
    /\ r.w.actual.online = r.w.requested.online /\ r.rig.open = r.w.requested.online
    /\ r.rig.open => ~r.rig.ours
    /\ r.rig.txTo => m.rig.txTo

LEMMA DoStartIs ==
    ASSUME NEW n \in Nat, NEW m \in Machines(n), NEW o \in Outcomes,
           m.w.actual.online, m.w.requested.online
    PROVE  Begun(n, m, DoStart(m, o))
<1> DEFINE on == m.rig.tx \/ m.rig.mic
           y == TrackDial(m.w, m.rig.dial)
           a == [y.actual EXCEPT !.ptt = on]
           s == [y.next EXCEPT !.online = TRUE]
           retries == IF m.w.next.online THEN y.retries ELSE PollsToStabilize
           x == [y EXCEPT !.pttOn = on, !.actual = a,
                          !.polling = TRUE, !.next = s, !.retries = retries]
           r1 == [m.rig EXCEPT !.open = TRUE, !.ours = FALSE,
                               !.txTo = IF o.obeyed THEN FALSE ELSE m.rig.txTo]
           r == [r1 EXCEPT !.since = PollsToStabilize]
<1>1. /\ on \in BOOLEAN /\ o.obeyed \in BOOLEAN
      /\ m.w \in Transceivers(n) /\ m.rig \in Rigs /\ m.rig.dial \in Dials
  BY MachineFields DEF Outcomes, Rigs
<1>2. /\ y \in Transceivers(n) /\ y.seq = m.w.seq
      /\ y.actual.online = m.w.actual.online /\ y.requested.online = m.w.requested.online
  BY <1>1, TrackDialIs
<1> HIDE DEF y
<1>3. y.actual \in States /\ y.next \in States /\ y.actual.ptt \in BOOLEAN
  BY <1>2 DEF Transceivers, States
<1> HIDE DEF on
<1>4. a \in States /\ a.online = y.actual.online
  BY <1>1, <1>3, PttField
<1>5. s \in States
  BY <1>3, OnlineField
<1>6. retries \in 0 .. PollsToStabilize
  BY <1>2 DEF Transceivers, PollsToStabilize
<1> HIDE DEF a, s, retries
<1>7. x \in Transceivers(n) /\ x.actual = a /\ x.requested = y.requested /\ x.seq = y.seq
  BY <1>1, <1>2, <1>4, <1>5, <1>6 DEF Transceivers
<1>8. r \in Rigs /\ r.open /\ ~r.ours /\ (r.txTo => m.rig.txTo)
  <2>1. r1 \in Rigs /\ r1.open /\ ~r1.ours /\ (r1.txTo => m.rig.txTo)
    BY <1>1 DEF Rigs
  <2> HIDE DEF r1
  <2> QED BY <1>1, <2>1 DEF Rigs, PollsToStabilize
<1>9. DoStart(m, o) = With(m, x, r)
  <2>1. x = Started(m.w, m.rig.dial, on)
    BY DEF Started, y, a, s, retries
  <2>2. r = Opened(m.rig, o)
    BY <1>1 DEF Opened, Rigs
  <2> HIDE DEF x, r
  <2> QED BY <2>1, <2>2 DEF DoStart, With, on
<1> HIDE DEF x, r
<1>10. DoStart(m, o) \in Machines(n) /\ DoStart(m, o).w = x /\ DoStart(m, o).rig = r
  BY <1>1, <1>7, <1>8, <1>9, WithFields
<1>11. x.actual.online /\ x.requested.online /\ x.actual.online \in BOOLEAN
       /\ x.requested.online \in BOOLEAN /\ r.open \in BOOLEAN
  BY <1>2, <1>4, <1>7, <1>8 DEF Transceivers, States, Rigs
<1> QED BY <1>2, <1>7, <1>8, <1>10, <1>11 DEF Begun

LEMMA StartupIs ==
    ASSUME NEW n \in Nat, NEW m \in Machines(n), NEW opens \in BOOLEAN,
           NEW o \in Outcomes, NEW rel \in Outcomes
    PROVE  Begun(n, m, Startup(m, opens, o, rel))
<1> DEFINE a == [m.w.actual EXCEPT !.online = TRUE]
           q == [m.w.requested EXCEPT !.online = TRUE]
           x == [m.w EXCEPT !.actual = a, !.requested = q]
           m1 == [m EXCEPT !.w = x]
<1>1. m.w \in Transceivers(n) /\ m.w.actual \in States /\ m.w.requested \in States
  BY MachineFields DEF Transceivers
<1>2. a \in States /\ a.online /\ q \in States /\ q.online
  BY <1>1, OnlineField
<1> HIDE DEF a, q
<1>3. x \in Transceivers(n) /\ x.actual = a /\ x.requested = q /\ x.seq = m.w.seq
  BY <1>1, <1>2 DEF Transceivers
<1> HIDE DEF x
<1>4. m1 \in Machines(n) /\ m1.w = x /\ m1.rig = m.rig
  BY <1>3, MachineFields
<1>5. Startup(m, opens, o, rel) = IF opens THEN DoStart(m1, o) ELSE Offline(m1, "failure", rel)
  BY DEF Startup, BroughtUp, x, a, q
<1> HIDE DEF m1
<1>6. CASE opens
  <2>1. Begun(n, m1, DoStart(m1, o))
    BY <1>2, <1>3, <1>4, DoStartIs
  <2> QED BY <1>3, <1>4, <1>5, <1>6, <2>1 DEF Begun
<1>7. CASE ~opens
  <2> DEFINE r == Offline(m1, "failure", rel)
  <2>1. Stopped(n, m1, r)
    BY <1>4, OfflineIs
  <2> HIDE DEF r
  <2>2. /\ r.w.actual.online \in BOOLEAN /\ r.w.requested.online \in BOOLEAN
        /\ r.rig.open \in BOOLEAN
    BY <2>1, MachineFields DEF Stopped, Transceivers, States, Rigs
  <2>3. Begun(n, m, r)
    BY <1>3, <1>4, <2>1, <2>2 DEF Stopped, Begun
  <2> QED BY <1>5, <1>7, <2>3 DEF r
<1> QED BY <1>6, <1>7

(* What a turn of the worker's loop leaves of m.                             *)
Works(n, m, r) ==
    /\ r \in Machines(n)
    /\ r.w.actual.online = r.w.requested.online /\ r.rig.open = r.w.requested.online
    /\ Ended(r) \/ (r.out = m.out /\ r.w.requested.online = m.w.requested.online)

Keyed(m) == m.rig.open /\ m.rig.txTo /\ m.rig.ours => m.w.requested.ptt

\* A forced report tells how the session stands.
LEMMA UpdatedIs ==
    ASSUME NEW n \in Nat, NEW m \in Machines(n), NEW r \in Machines(n),
           r.w.actual.online = r.w.requested.online, r.rig.open = r.w.requested.online
    PROVE  LET u == UpdateComplete(r, TRUE)
           IN /\ Works(n, m, u) /\ Ended(u) /\ u.rig = r.rig /\ u.w.seq = r.w.seq
              /\ u.w.requested = r.w.requested
<1> DEFINE u == UpdateComplete(r, TRUE)
<1>1. /\ u \in Machines(n) /\ u.rig = r.rig /\ u.w.seq = r.w.seq
      /\ u.w.requested = r.w.requested /\ u.w.actual = r.w.actual
      /\ u.out # <<>> /\ (Tells(u.out[Len(u.out)]) <=> u.w.actual.online)
  BY UpdateCompleteIs
<1> HIDE DEF u
<1>2. Ended(u)
  BY <1>1 DEF Ended
<1>3. Works(n, m, u)
  BY <1>1, <1>2 DEF Works
<1> QED BY <1>1, <1>2, <1>3 DEF u

LEMMA StartIs ==
    ASSUME NEW n \in Nat, NEW m \in Machines(n), NEW opens \in BOOLEAN,
           NEW o \in Outcomes, NEW rel \in Outcomes
    PROVE  LET r == Start(m, n, opens, o, rel)
           IN /\ Works(n, m, r) /\ r.w.seq = n /\ Keyed(r)
              /\ r.rig.txTo => m.rig.txTo
<1> DEFINE x == [m.w EXCEPT !.seq = n]
           m1 == [m EXCEPT !.w = x]
           m2 == Shutdown(m1, rel)
           m3 == Startup(m2, opens, o, rel)
<1>1. x \in Transceivers(n) /\ x.seq = n
  BY MachineFields DEF Transceivers
<1> HIDE DEF x
<1>2. m1 \in Machines(n) /\ m1.w = x /\ m1.rig = m.rig
  BY <1>1, MachineFields
<1>3. Start(m, n, opens, o, rel) = UpdateComplete(m3, TRUE)
  BY DEF Start, x
<1> HIDE DEF m1
<1>4. Stopped(n, m1, m2)
  BY <1>2, ShutdownIs
<1> HIDE DEF m2
<1>5. Begun(n, m2, m3)
  BY <1>4, StartupIs DEF Stopped
<1> HIDE DEF m3
<1>6. /\ m3 \in Machines(n) /\ m3.w.seq = n /\ (m3.rig.txTo => m.rig.txTo)
      /\ m3.w.actual.online = m3.w.requested.online /\ m3.rig.open = m3.w.requested.online
      /\ (m3.rig.open => ~m3.rig.ours)
  BY <1>1, <1>2, <1>4, <1>5 DEF Stopped, Begun
<1> QED BY <1>3, <1>6, UpdatedIs DEF Keyed

LEMMA SetFrequencyIs ==
    ASSUME NEW n \in Nat, NEW m \in Machines(n), NEW f \in Dials \cup {0}, NEW o \in Outcomes
    PROVE  LET r == SetFrequency(m, f, o)
           IN Quiet(n, m, r) /\ SamePtt(m, r)
<1> DEFINE m1 == DoPostFrequency(DoFrequency(m, f, o), f)
           h == [m1.w.requested EXCEPT !.frequency = m1.w.actual.frequency]
           m2 == [m1 EXCEPT !.w = [m1.w EXCEPT !.requested = h]]
<1>1. CASE f = 0
  BY <1>1 DEF SetFrequency, Quiet, SamePtt
<1>2. CASE f \in Dials /\ f = m.w.actual.frequency
  <2> DEFINE s == [m.w.requested EXCEPT !.frequency = f]
             x == [m.w EXCEPT !.requested = s]
             r == [m EXCEPT !.w = x]
  <2>1. m.w \in Transceivers(n) /\ m.w.requested \in States
    BY MachineFields DEF Transceivers
  <2>2. s \in States /\ s.online = m.w.requested.online /\ s.ptt = m.w.requested.ptt
    BY <1>2, <2>1, FrequencyField
  <2> HIDE DEF s
  <2>3. x \in Transceivers(n) /\ x.requested = s /\ x.actual = m.w.actual /\ x.seq = m.w.seq
    BY <2>1, <2>2 DEF Transceivers
  <2> HIDE DEF x
  <2>4. r \in Machines(n) /\ r.w = x /\ r.rig = m.rig /\ r.out = m.out
    BY <2>3, MachineFields
  <2>5. f # 0
    BY <1>2, CatAssumption
  <2>6. SetFrequency(m, f, o) = r
    BY <1>2, <2>5 DEF SetFrequency, x, s
  <2> HIDE DEF r
  <2> QED BY <2>2, <2>3, <2>4, <2>6 DEF Quiet, SamePtt
<1>3. CASE f \in Dials /\ f # m.w.actual.frequency
  <2>0. f # 0
    BY <1>3, CatAssumption
  <2>1. CASE f = m.w.requested.frequency
    BY <1>3, <2>0, <2>1 DEF SetFrequency, Quiet, SamePtt
  <2>2. CASE f # m.w.requested.frequency
    <3> DEFINE a == m1.w.actual.frequency
               x == [m1.w EXCEPT !.requested = h]
    <3>1. Quiet(n, m, m1) /\ SamePtt(m, m1)
      BY <1>3, FrequencyIs
    <3> HIDE DEF m1
    <3>2. /\ m1.w \in Transceivers(n) /\ m1.w.requested \in States
          /\ a \in Dials \cup {0}
      BY <3>1, MachineFields DEF Quiet, Transceivers, States
    <3>3. h \in States /\ h.online = m1.w.requested.online /\ h.ptt = m1.w.requested.ptt
      <4> HIDE DEF a
      <4> QED BY <3>2 DEF States, a
    <3> HIDE DEF h
    <3>4. /\ x \in Transceivers(n) /\ x.requested = h /\ x.actual = m1.w.actual
          /\ x.seq = m1.w.seq
      BY <3>2, <3>3 DEF Transceivers
    <3>5. m2 \in Machines(n) /\ m2.w = x /\ m2.rig = m1.rig /\ m2.out = m1.out
      <4> HIDE DEF x
      <4> QED BY <3>1, <3>4, MachineFields DEF Quiet, x
    <3>6. SetFrequency(m, f, o) = m2
      BY <1>3, <2>0, <2>2 DEF SetFrequency, m1, h
    <3> HIDE DEF x, m2
    <3> QED BY <3>1, <3>3, <3>4, <3>5, <3>6 DEF Quiet, SamePtt
  <2> QED BY <2>1, <2>2
<1> QED BY <1>1, <1>2, <1>3

(* What a request, applied to an online transceiver, does to the PTT.        *)
PttAsAsked(m, r, o, ptt) ==
    /\ r.rig.txTo => m.rig.txTo \/ ptt
    /\ o = Well /\ Keyed(m) => Keyed(r)

LEMMA SetOnlineIs ==
    ASSUME NEW n \in Nat, NEW m \in Machines(n), NEW s \in States,
           NEW o \in Outcomes, NEW rel \in Outcomes,
           m.w.requested.online, m.w.actual.online, m.rig.open
    PROVE  LET r == SetOnline(m, s, o, rel)
           IN /\ Works(n, m, r) /\ Ended(r) /\ r.w.seq = m.w.seq
              /\ PttAsAsked(m, r, o, s.ptt)
<1> DEFINE off == ~s.ptt /\ m.w.requested.ptt
           on == s.ptt /\ ~m.w.requested.ptt
           d == DoPtt(m, FALSE, o)
           m1 == IF off THEN DoPostPtt(d, FALSE) ELSE m
           m2 == SetFrequency(m1, s.frequency, o)
           e == DoPtt(m2, TRUE, o)
           m3 == IF on THEN e ELSE m2
           m4 == IF on THEN DoPostPtt(m3, TRUE) ELSE m3
           thrown == o.fatal /\ Tunes(m1.w, s.frequency)
           untuned == [m1 EXCEPT !.rig = m2.rig]
           lost == [m2 EXCEPT !.rig = m3.rig]
           q == [m4.w.requested EXCEPT !.ptt = m4.w.actual.ptt]
           x == [m4.w EXCEPT !.requested = q]
           m5 == IF on \/ off THEN [m4 EXCEPT !.w = x] ELSE m4
           r == SetOnline(m, s, o, rel)
<1>1. /\ s.ptt \in BOOLEAN /\ s.frequency \in Dials \cup {0}
      /\ m.w.requested.ptt \in BOOLEAN /\ m.rig.txTo \in BOOLEAN /\ m.rig.ours \in BOOLEAN
      /\ o.heard \in BOOLEAN /\ o.obeyed \in BOOLEAN
      /\ (o = Well => o.heard /\ o.obeyed) /\ (o.heard => o.obeyed /\ ~o.fatal)
      /\ m.w.requested.online = TRUE /\ m.w.actual.online = TRUE /\ m.rig.open = TRUE
  BY MachineFields DEF States, Transceivers, Rigs, Outcomes, Well
<1>2. d \in Machines(n)
      /\ d.out = m.out /\ d.w.seq = m.w.seq /\ d.w.actual.online = m.w.actual.online
      /\ d.w.requested = m.w.requested /\ d.rig.open = m.rig.open
      /\ d.rig.txTo = (IF o.obeyed THEN FALSE ELSE m.rig.txTo)
      /\ d.rig.ours = (IF o.obeyed THEN FALSE ELSE m.rig.ours)
  <2>1. LET done == o.obeyed /\ m.rig.open
        IN /\ Quiet(n, m, d) /\ d.w.requested = m.w.requested
           /\ d.rig.txTo = IF done THEN FALSE ELSE m.rig.txTo
           /\ d.rig.ours = IF done THEN FALSE ELSE m.rig.ours
    <3>1. FALSE \in BOOLEAN
      OBVIOUS
    <3> QED BY <3>1, DoPttIs
  <2> HIDE DEF d
  <2> QED BY <1>1, <2>1 DEF Quiet
<1> HIDE DEF d
<1>3. /\ Quiet(n, m, m1) /\ m1.w.requested = m.w.requested
      /\ (m1.rig.txTo => m.rig.txTo)
      /\ (off /\ o = Well => ~m1.rig.txTo)
      /\ (~off => m1 = m)
  <2>1. CASE off
    <3> DEFINE p == DoPostPtt(d, FALSE)
    <3>1. Quiet(n, d, p) /\ p.w.requested = d.w.requested /\ p.rig = d.rig
      BY <1>2, DoPostPttIs
    <3> HIDE DEF p
    <3> QED BY <1>1, <1>2, <2>1, <3>1 DEF Quiet, p
  <2>2. CASE ~off
    BY <2>2 DEF Quiet
  <2> HIDE DEF off
  <2> QED BY <2>1, <2>2
<1> HIDE DEF m1
<1>4. Quiet(n, m1, m2) /\ SamePtt(m1, m2)
  BY <1>1, <1>3, SetFrequencyIs DEF Quiet
<1> HIDE DEF m2
<1>5. /\ Quiet(n, m, m2) /\ m2.rig.open
      /\ m2.w.requested.ptt = m.w.requested.ptt
      /\ (m2.rig.txTo => m.rig.txTo)
      /\ (off /\ o = Well => ~m2.rig.txTo)
      /\ (~off => SamePtt(m, m2))
  BY <1>3, <1>4 DEF Quiet, SamePtt
<1>6. /\ Quiet(n, m2, e) /\ e.w.requested = m2.w.requested
      /\ (o.heard => e.w.actual.ptt)
  <2>1. m2 \in Machines(n) /\ TRUE \in BOOLEAN
    BY <1>5 DEF Quiet
  <2>2. /\ Quiet(n, m2, e) /\ e.w.requested = m2.w.requested
        /\ e.w.actual.ptt = IF o.heard /\ m2.rig.open THEN TRUE ELSE m2.w.pttOn
    BY <2>1, DoPttIs
  <2> HIDE DEF e
  <2> QED BY <1>1, <1>5, <2>2 DEF Quiet
<1> HIDE DEF e
<1>7. /\ Quiet(n, m, m3) /\ (m3.rig.txTo => m.rig.txTo \/ s.ptt)
      /\ (on /\ o.heard => m3.w.actual.ptt)
      /\ (~on => m3 = m2)
  BY <1>5, <1>6 DEF Quiet
<1> HIDE DEF m3
<1>8. /\ Quiet(n, m, m4) /\ m4.rig = m3.rig
      /\ (on /\ o.heard => m4.w.actual.ptt)
      /\ (~on => m4 = m2)
  <2>1. CASE on
    <3> DEFINE p == DoPostPtt(m3, TRUE)
    <3>1. Quiet(n, m3, p) /\ p.w.actual = m3.w.actual /\ p.rig = m3.rig
      BY <1>7, DoPostPttIs DEF Quiet
    <3> HIDE DEF p
    <3> QED BY <1>7, <2>1, <3>1 DEF Quiet, p
  <2>2. CASE ~on
    BY <1>7, <2>2
  <2> HIDE DEF on
  <2> QED BY <2>1, <2>2
<1> HIDE DEF m4
<1>0. CASE thrown
  <2> DEFINE u == UpdateComplete(untuned, TRUE)
             v == Offline(u, "failure", rel)
  <2>1. untuned \in Machines(n) /\ untuned.rig = m2.rig /\ untuned.w = m1.w
    BY <1>3, <1>5, MachineFields DEF Quiet
  <2> HIDE DEF untuned
  <2>2. u \in Machines(n) /\ u.rig = m2.rig /\ u.w.seq = m1.w.seq
    <3>1. u \in Machines(n) /\ u.rig = untuned.rig /\ u.w.seq = untuned.w.seq
      BY <2>1, UpdateCompleteIs
    <3> HIDE DEF u
    <3> QED BY <2>1, <3>1
  <2> HIDE DEF u
  <2>3. Stopped(n, u, v) /\ Ended(v)
    BY <2>2, OfflineIs
  <2>4. r = v
    BY <1>0 DEF SetOnline, v, u, untuned, m2, m1, d
  <2> HIDE DEF v, r
  <2>5. /\ v \in Machines(n) /\ v.w.actual.online \in BOOLEAN
        /\ v.w.requested.online \in BOOLEAN /\ v.rig.open \in BOOLEAN
    BY <2>3, MachineFields DEF Stopped, Transceivers, States, Rigs
  <2>6. Works(n, m, v)
    BY <2>3, <2>5 DEF Stopped, Works
  <2>7. v.w.seq = m.w.seq
    BY <1>3, <2>2, <2>3 DEF Stopped, Quiet
  <2>8. PttAsAsked(m, v, o, s.ptt)
    BY <1>0, <1>1, <1>5, <2>2, <2>3 DEF Stopped, PttAsAsked
  <2> QED BY <2>3, <2>4, <2>6, <2>7, <2>8 DEF r
<1> HIDE DEF thrown
<1>9. CASE ~thrown /\ on /\ ~o.heard
  <2> DEFINE u == UpdateComplete(lost, TRUE)
             v == Offline(u, "pttFailure", rel)
  <2>1. lost \in Machines(n) /\ lost.rig = m3.rig /\ lost.w = m2.w
    BY <1>5, <1>7, MachineFields DEF Quiet
  <2> HIDE DEF lost
  <2>2. u \in Machines(n) /\ u.rig = m3.rig /\ u.w.seq = m2.w.seq
    <3>1. u \in Machines(n) /\ u.rig = lost.rig /\ u.w.seq = lost.w.seq
      BY <2>1, UpdateCompleteIs
    <3> HIDE DEF u
    <3> QED BY <2>1, <3>1
  <2> HIDE DEF u
  <2>3. Stopped(n, u, v) /\ Ended(v)
    BY <2>2, OfflineIs
  <2>4. r = v
    BY <1>9 DEF SetOnline, v, u, thrown, lost, m4, m3, e, m2, m1, d
  <2> HIDE DEF v, r
  <2>5. /\ v \in Machines(n) /\ v.w.actual.online \in BOOLEAN
        /\ v.w.requested.online \in BOOLEAN /\ v.rig.open \in BOOLEAN
    BY <2>3, MachineFields DEF Stopped, Transceivers, States, Rigs
  <2>6. Works(n, m, v)
    BY <2>3, <2>5 DEF Stopped, Works
  <2>7. v.w.seq = m.w.seq
    BY <1>5, <2>2, <2>3 DEF Stopped, Quiet
  <2>8. PttAsAsked(m, v, o, s.ptt)
    BY <1>7, <2>2, <2>3 DEF Stopped, PttAsAsked, Keyed
  <2> QED BY <2>3, <2>4, <2>6, <2>7, <2>8 DEF r
<1>10. CASE ~thrown /\ ~(on /\ ~o.heard)
  <2> DEFINE u == UpdateComplete(m5, TRUE)
  <2>1. /\ m4 \in Machines(n) /\ m4.w \in Transceivers(n) /\ m4.w.requested \in States
        /\ m4.w.actual \in States /\ m4.w.actual.ptt \in BOOLEAN
    BY <1>8, MachineFields DEF Quiet, Transceivers, States
  <2>2. q \in States /\ q.online = m4.w.requested.online /\ q.ptt = m4.w.actual.ptt
    BY <2>1, PttField
  <2> HIDE DEF q
  <2>3. x \in Transceivers(n) /\ x.requested = q /\ x.actual = m4.w.actual /\ x.seq = m4.w.seq
    BY <2>1, <2>2 DEF Transceivers
  <2>4. [m4 EXCEPT !.w = x] \in Machines(n) /\ [m4 EXCEPT !.w = x].w = x
        /\ [m4 EXCEPT !.w = x].rig = m4.rig
    <3> HIDE DEF x
    <3> QED BY <2>1, <2>3, MachineFields
  <2> HIDE DEF x
  <2>5. /\ m5 \in Machines(n) /\ m5.rig = m4.rig /\ m5.w.seq = m.w.seq
        /\ m5.w.actual.online = TRUE /\ m5.w.requested.online = TRUE /\ m5.rig.open = TRUE
        /\ (on /\ o.heard => m5.w.requested.ptt)
        /\ (~on /\ ~off => m5 = m4)
    <3> HIDE DEF on, off
    <3>1. CASE on \/ off
      <4>1. m5 = [m4 EXCEPT !.w = x]
        BY <3>1
      <4> HIDE DEF m5
      <4> QED BY <1>1, <1>8, <2>2, <2>3, <2>4, <3>1, <4>1 DEF Quiet
    <3>2. CASE ~(on \/ off)
      <4>1. m5 = m4
        BY <3>2
      <4> HIDE DEF m5
      <4> QED BY <1>1, <1>8, <3>2, <4>1 DEF Quiet
    <3> QED BY <3>1, <3>2
  <2>6. r = UpdateComplete(m5, TRUE)
    BY <1>10 DEF SetOnline, thrown, m5, x, q, m4, m3, e, m2, m1, d
  <2> HIDE DEF m5, r
  <2>7. /\ Works(n, m, r) /\ Ended(r) /\ r.rig = m5.rig /\ r.w.seq = m5.w.seq
        /\ r.w.requested = m5.w.requested
    BY <2>5, <2>6, UpdatedIs
  <2>8. o = Well /\ Keyed(m) => Keyed(r)
    <3>1. CASE on
      BY <1>10, <2>5, <2>7, <3>1 DEF Keyed
    <3>2. CASE off
      <4>1. r.rig = m2.rig
        BY <1>8, <2>5, <2>7, <3>2
      <4> QED BY <1>5, <3>2, <4>1 DEF Keyed
    <3>3. CASE ~on /\ ~off
      <4>1. r.rig = m2.rig /\ r.w.requested = m2.w.requested
        BY <1>8, <2>5, <2>7, <3>3
      <4> QED BY <1>5, <3>3, <4>1 DEF Keyed, SamePtt, Quiet
    <3> QED BY <3>1, <3>2, <3>3
  <2>9. PttAsAsked(m, r, o, s.ptt)
    BY <1>7, <1>8, <2>5, <2>7, <2>8 DEF PttAsAsked
  <2> QED BY <2>5, <2>7, <2>9 DEF r
<1> QED BY <1>0, <1>9, <1>10

(* A request brings a session that is not online up, or one down.            *)
LEMMA SetIs ==
    ASSUME NEW n \in Nat, NEW m \in Machines(n), NEW s \in States, NEW opens \in BOOLEAN,
           NEW o \in Outcomes, NEW rel \in Outcomes,
           m.w.actual.online = m.w.requested.online, m.rig.open = m.w.requested.online
    PROVE  LET r == Set(m, s, n, opens, o, rel)
           IN Works(n, m, r) /\ r.w.seq = n /\ PttAsAsked(m, r, o, s.ptt)
<1> DEFINE x == [m.w EXCEPT !.seq = n]
           m0 == [m EXCEPT !.w = x]
           v == Shutdown(m0, rel)
           b == Startup(v, opens, o, rel)
           m1 == IF s.online = m.w.requested.online THEN m0
                 ELSE IF s.online THEN b ELSE v
           r == Set(m, s, n, opens, o, rel)
<1>1. /\ m.w \in Transceivers(n) /\ m.rig \in Rigs /\ m.w.seq \in 0 .. n
      /\ s.ptt \in BOOLEAN /\ m.rig.txTo \in BOOLEAN
  BY MachineFields DEF Transceivers, Rigs, States
<1>2. x \in Transceivers(n) /\ x.seq = n /\ x.requested = m.w.requested /\ x.actual = m.w.actual
  BY <1>1 DEF Transceivers
<1> HIDE DEF x
<1>3. m0 \in Machines(n) /\ m0.w = x /\ m0.rig = m.rig
  BY <1>2, MachineFields
<1>4. r = IF m1.w.requested.online THEN SetOnline(m1, s, o, rel) ELSE UpdateComplete(m1, TRUE)
  <2>1. ~(n < m.w.seq)
    BY <1>1
  <2> QED BY <2>1 DEF Set, x
<1> HIDE DEF m0
<1>5. Stopped(n, m0, v)
  BY <1>3, ShutdownIs
<1> HIDE DEF v
<1>6. Begun(n, v, b)
  BY <1>5, StartupIs DEF Stopped
<1> HIDE DEF b
<1>7. /\ m1 \in Machines(n) /\ m1.w.seq = n
      /\ m1.w.actual.online = m1.w.requested.online /\ m1.rig.open = m1.w.requested.online
      /\ (m1.rig.txTo => m.rig.txTo) /\ (Keyed(m) => Keyed(m1))
  <2>1. CASE s.online = m.w.requested.online
    <3>1. m1 = m0
      BY <2>1
    <3> HIDE DEF m1
    <3> QED BY <1>2, <1>3, <3>1 DEF Keyed
  <2>2. CASE s.online # m.w.requested.online /\ s.online
    <3>1. m1 = b
      BY <2>2
    <3> HIDE DEF m1
    <3> QED BY <1>2, <1>3, <1>5, <1>6, <3>1 DEF Keyed, Begun, Stopped
  <2>3. CASE s.online # m.w.requested.online /\ ~s.online
    <3>1. m1 = v
      BY <2>3
    <3> HIDE DEF m1
    <3>2. /\ v.w.actual.online = FALSE /\ v.w.requested.online = FALSE /\ v.rig.open = FALSE
      BY <1>5, MachineFields DEF Stopped, Transceivers, States, Rigs
    <3> QED BY <1>2, <1>3, <1>5, <3>1, <3>2 DEF Keyed, Stopped
  <2> QED BY <2>1, <2>2, <2>3
<1> HIDE DEF m1, r
<1>8. CASE m1.w.requested.online
  <2>1. r = SetOnline(m1, s, o, rel)
    BY <1>4, <1>8
  <2>2. Works(n, m1, r) /\ Ended(r) /\ r.w.seq = n /\ PttAsAsked(m1, r, o, s.ptt)
    <3>1. m1.w.requested.online /\ m1.w.actual.online /\ m1.rig.open
      BY <1>7, <1>8
    <3>2. Works(n, m1, r) /\ Ended(r) /\ r.w.seq = m1.w.seq /\ PttAsAsked(m1, r, o, s.ptt)
      BY <1>7, <2>1, <3>1, SetOnlineIs
    <3> QED BY <1>7, <3>2
  <2>3. PttAsAsked(m, r, o, s.ptt)
    BY <1>7, <2>2 DEF PttAsAsked
  <2>4. Works(n, m, r)
    BY <2>2 DEF Works
  <2> QED BY <2>2, <2>3, <2>4 DEF r
<1>9. CASE ~m1.w.requested.online
  <2>1. r = UpdateComplete(m1, TRUE)
    BY <1>4, <1>9
  <2>2. Works(n, m, r) /\ r.rig = m1.rig /\ r.w.seq = n /\ r.w.requested = m1.w.requested
    BY <1>7, <2>1, UpdatedIs
  <2>3. PttAsAsked(m, r, o, s.ptt)
    BY <1>7, <2>2 DEF PttAsAsked, Keyed
  <2> QED BY <2>2, <2>3 DEF r
<1> QED BY <1>8, <1>9

LEMMA DoPollIs ==
    ASSUME NEW n \in Nat, NEW m \in Machines(n), NEW got \in {"all", "dial"}
    PROVE  LET r == DoPoll(m, got)
           IN /\ Quiet(n, m, r) /\ r.w.requested.ptt = m.w.requested.ptt
              /\ r.rig = m.rig /\ r.w.failures = m.w.failures
<1> DEFINE on == m.rig.tx \/ m.rig.mic
           y == TrackDial(m.w, m.rig.dial)
           m1 == IF Receiving(m.w) THEN [m EXCEPT !.w = y] ELSE m
           a == [m1.w.actual EXCEPT !.ptt = on]
           x == [m1.w EXCEPT !.pttOn = on, !.actual = a]
<1>1. m.w \in Transceivers(n) /\ m.rig \in Rigs /\ m.rig.dial \in Dials /\ on \in BOOLEAN
  BY MachineFields DEF Rigs
<1>2. /\ y \in Transceivers(n) /\ y.seq = m.w.seq
      /\ y.actual.online = m.w.actual.online /\ y.requested.online = m.w.requested.online
      /\ y.requested.ptt = m.w.requested.ptt /\ y.failures = m.w.failures
  BY <1>1, TrackDialIs
<1> HIDE DEF y
<1>3. /\ Quiet(n, m, m1) /\ m1.w.requested.ptt = m.w.requested.ptt /\ m1.rig = m.rig
      /\ m1.w.failures = m.w.failures
  <2>1. CASE Receiving(m.w)
    <3> DEFINE k == [m EXCEPT !.w = y]
    <3>1. k \in Machines(n) /\ k.w = y /\ k.rig = m.rig /\ k.out = m.out
      BY <1>2, MachineFields
    <3> HIDE DEF k
    <3> QED BY <1>2, <2>1, <3>1 DEF Quiet, k
  <2>2. CASE ~Receiving(m.w)
    BY <2>2 DEF Quiet
  <2> QED BY <2>1, <2>2
<1>4. DoPoll(m, got) = IF got = "dial" THEN m1 ELSE With(m1, x, m1.rig)
  BY DEF DoPoll, TrackPtt, With, y
<1> HIDE DEF m1, on
<1>5. m1 \in Machines(n) /\ m1.w \in Transceivers(n) /\ m1.w.actual \in States /\ m1.rig \in Rigs
  BY <1>3, MachineFields DEF Quiet, Transceivers
<1>6. a \in States /\ a.online = m1.w.actual.online
  BY <1>1, <1>5, PttField
<1> HIDE DEF a
<1>7. /\ x \in Transceivers(n) /\ x.actual = a /\ x.requested = m1.w.requested
      /\ x.seq = m1.w.seq /\ x.failures = m1.w.failures
  BY <1>1, <1>5, <1>6 DEF Transceivers
<1> HIDE DEF x
<1> DEFINE k == With(m1, x, m1.rig)
<1>8. k \in Machines(n) /\ k.w = x /\ k.rig = m1.rig /\ k.out = m1.out
  BY <1>5, <1>7, WithFields
<1> HIDE DEF k
<1>9. CASE got = "dial"
  BY <1>3, <1>4, <1>9
<1>10. CASE got = "all"
  <2>1. DoPoll(m, got) = k
    BY <1>4, <1>10 DEF k
  <2> QED BY <1>3, <1>6, <1>7, <1>8, <2>1 DEF Quiet
<1> QED BY <1>9, <1>10

LEMMA HandleTimeoutIs ==
    ASSUME NEW n \in Nat, NEW m \in Machines(n), NEW got \in {"all", "dial", "none"},
           NEW rel \in Outcomes,
           m.w.actual.online = m.w.requested.online, m.rig.open = m.w.requested.online
    PROVE  LET r == HandleTimeout(m, got, rel)
           IN /\ Works(n, m, r) /\ r.w.seq = m.w.seq
              /\ r.rig.txTo => m.rig.txTo
              /\ Keyed(m) => Keyed(r)
<1> DEFINE m1 == IF got = "none" THEN m ELSE DoPoll(m, got)
           x == [m1.w EXCEPT !.failures = 0]
           since == IF Receiving(m.w) /\ m1.rig.since < PollsToStabilize THEN m1.rig.since + 1
                    ELSE PollsToStabilize
           g == [m1.rig EXCEPT !.since = since]
           read == With(m1, x, g)
           z == [read.w EXCEPT !.retries = 0, !.next = read.w.actual, !.signalled = read.w.actual]
           k == [read EXCEPT !.w = z]
           y == [read.w EXCEPT !.retries = IF read.w.retries > 0 THEN read.w.retries - 1 ELSE 0]
           j == [read EXCEPT !.w = y]
           f == [m1.w EXCEPT !.failures = m1.w.failures + 1]
           i == [m1 EXCEPT !.w = f]
           l == [m1 EXCEPT !.w = x]
           r == HandleTimeout(m, got, rel)
<1>1. /\ Quiet(n, m, m1) /\ m1.w.requested.ptt = m.w.requested.ptt
      /\ m1.rig = m.rig /\ m1.w.failures = m.w.failures
  <2>1. CASE got = "none"
    BY <2>1 DEF Quiet
  <2>2. CASE got # "none"
    BY <2>2, DoPollIs
  <2> QED BY <2>1, <2>2
<1>2. r = IF got = "all"
          THEN IF Signals(read.w) THEN UpdateComplete(k, TRUE) ELSE j
          ELSE IF m.w.failures + 1 < Tolerated THEN i ELSE Offline(l, "failure", rel)
  BY DEF HandleTimeout, Stable, Polled, With
<1> HIDE DEF m1
<1>3. /\ m1 \in Machines(n) /\ m1.w \in Transceivers(n) /\ m1.rig \in Rigs
      /\ m1.w.failures \in 0 .. Tolerated - 1
  BY <1>1, MachineFields DEF Quiet, Transceivers
<1>4. /\ x \in Transceivers(n) /\ x.actual = m1.w.actual /\ x.requested = m1.w.requested
      /\ x.seq = m1.w.seq
  <2>1. 0 \in 0 .. Tolerated - 1
    BY CatAssumption
  <2> QED BY <1>3, <2>1 DEF Transceivers
<1> HIDE DEF x
<1>5. CASE got = "all"
  <2>1. since \in 0 .. PollsToStabilize
    BY <1>3 DEF Rigs, PollsToStabilize
  <2> HIDE DEF since
  <2>2. g \in Rigs /\ g.open = m1.rig.open /\ g.txTo = m1.rig.txTo /\ g.ours = m1.rig.ours
    BY <1>3, <2>1 DEF Rigs
  <2> HIDE DEF g
  <2>3. read \in Machines(n) /\ read.w = x /\ read.rig = g /\ read.out = m1.out
    BY <1>3, <1>4, <2>2, WithFields
  <2> HIDE DEF read
  <2>4. read.w \in Transceivers(n) /\ read.w.actual \in States
    BY <2>3, MachineFields DEF Transceivers
  <2>5. CASE Signals(read.w)
    <3>1. 0 \in 0 .. PollsToStabilize
      BY DEF PollsToStabilize
    <3>2. /\ z \in Transceivers(n) /\ z.actual = x.actual /\ z.requested = x.requested
          /\ z.seq = x.seq
      BY <2>3, <2>4, <3>1 DEF Transceivers
    <3> HIDE DEF z
    <3>3. k \in Machines(n) /\ k.w = z /\ k.rig = g
      BY <2>3, <3>2, MachineFields
    <3>4. r = UpdateComplete(k, TRUE)
      BY <1>2, <1>5, <2>5
    <3> HIDE DEF k, r
    <3>5. Works(n, m, r) /\ r.rig = k.rig /\ r.w.seq = k.w.seq /\ r.w.requested = k.w.requested
      <4>1. k \in Machines(n) /\ k.w.actual.online = k.w.requested.online
            /\ k.rig.open = k.w.requested.online
        BY <1>1, <1>4, <2>2, <3>2, <3>3 DEF Quiet
      <4> QED BY <3>4, <4>1, UpdatedIs
    <3> QED BY <1>1, <1>4, <2>2, <3>2, <3>3, <3>5 DEF Quiet, Keyed, r
  <2>6. CASE ~Signals(read.w)
    <3>1. (IF read.w.retries > 0 THEN read.w.retries - 1 ELSE 0) \in 0 .. PollsToStabilize
      BY <2>4 DEF Transceivers, PollsToStabilize
    <3>2. /\ y \in Transceivers(n) /\ y.actual = x.actual /\ y.requested = x.requested
          /\ y.seq = x.seq
      BY <2>3, <2>4, <3>1 DEF Transceivers
    <3> HIDE DEF y
    <3>3. j \in Machines(n) /\ j.w = y /\ j.rig = g /\ j.out = m1.out
      BY <2>3, <3>2, MachineFields
    <3>4. r = j
      BY <1>2, <1>5, <2>6
    <3> HIDE DEF j, r
    <3>5. Works(n, m, r)
      BY <1>1, <1>4, <2>2, <3>2, <3>3, <3>4 DEF Quiet, Works
    <3> QED BY <1>1, <1>4, <2>2, <3>2, <3>3, <3>4, <3>5 DEF Quiet, Keyed, r
  <2> QED BY <2>5, <2>6
<1>6. CASE got # "all" /\ m.w.failures + 1 < Tolerated
  <2>1. m1.w.failures + 1 \in 0 .. Tolerated - 1
    BY <1>1, <1>3, <1>6, CatAssumption
  <2>2. /\ f \in Transceivers(n) /\ f.actual = m1.w.actual /\ f.requested = m1.w.requested
        /\ f.seq = m1.w.seq
    BY <1>3, <2>1 DEF Transceivers
  <2> HIDE DEF f
  <2>3. i \in Machines(n) /\ i.w = f /\ i.rig = m1.rig /\ i.out = m1.out
    BY <1>3, <2>2, MachineFields
  <2>4. r = i
    BY <1>2, <1>6
  <2> HIDE DEF i, r
  <2>5. Works(n, m, r)
    BY <1>1, <2>2, <2>3, <2>4 DEF Quiet, Works
  <2> QED BY <1>1, <2>2, <2>3, <2>4, <2>5 DEF Quiet, Keyed, r
<1>7. CASE got # "all" /\ ~(m.w.failures + 1 < Tolerated)
  <2>1. l \in Machines(n) /\ l.w = x /\ l.rig = m1.rig
    BY <1>3, <1>4, MachineFields
  <2>2. r = Offline(l, "failure", rel)
    BY <1>2, <1>7
  <2> HIDE DEF l, r
  <2>3. Stopped(n, l, r) /\ Ended(r)
    BY <2>1, <2>2, OfflineIs
  <2>4. r.w.actual.online = FALSE /\ r.w.requested.online = FALSE /\ r.rig.open = FALSE
    BY <2>3, MachineFields DEF Stopped, Transceivers, States, Rigs
  <2>5. Works(n, m, r)
    BY <2>3, <2>4 DEF Stopped, Works
  <2>6. r.w.seq = m.w.seq /\ (r.rig.txTo => m.rig.txTo)
    BY <1>1, <1>4, <2>1, <2>3 DEF Stopped, Quiet
  <2> QED BY <2>4, <2>5, <2>6 DEF Keyed, r
<1> QED BY <1>5, <1>6, <1>7

LEMMA PollTransmitTelemetryIs ==
    ASSUME NEW n \in Nat, NEW m \in Machines(n), m.w.bursts > 0,
           m.w.actual.online = m.w.requested.online, m.rig.open = m.w.requested.online
    PROVE  LET r == PollTransmitTelemetry(m)
           IN /\ Works(n, m, r) /\ r.w.seq = m.w.seq
              /\ r.rig.txTo => m.rig.txTo
              /\ Keyed(m) => Keyed(r)
<1> DEFINE x == [m.w EXCEPT !.bursts = m.w.bursts - 1]
           m1 == [m EXCEPT !.w = x]
           r == PollTransmitTelemetry(m)
<1>1. m.w \in Transceivers(n) /\ m.w.bursts - 1 \in 0 .. Bursts
  <2>1. m.w \in Transceivers(n)
    BY MachineFields
  <2>2. m.w.bursts \in 0 .. Bursts
    BY <2>1 DEF Transceivers
  <2> QED BY <2>1, <2>2, CatAssumption
<1>2. /\ x \in Transceivers(n) /\ x.actual = m.w.actual /\ x.requested = m.w.requested
      /\ x.seq = m.w.seq
  BY <1>1 DEF Transceivers
<1> HIDE DEF x
<1>3. m1 \in Machines(n) /\ m1.w = x /\ m1.rig = m.rig
  BY <1>2, MachineFields
<1>4. r = UpdateComplete(m1, TRUE)
  BY DEF PollTransmitTelemetry, x
<1> HIDE DEF m1, r
<1>5. Works(n, m, r) /\ r.rig = m1.rig /\ r.w.seq = m1.w.seq /\ r.w.requested = m1.w.requested
  BY <1>2, <1>3, <1>4, UpdatedIs
<1> QED BY <1>2, <1>3, <1>5 DEF Keyed, r

-----------------------------------------------------------------------------
(* The inductive invariant                                                   *)

LEMMA SeqWider ==
    ASSUME NEW S, NEW T, S \subseteq T, NEW q \in Seq(S)
    PROVE  q \in Seq(T)
  OBVIOUS

LEMMA CallsWider ==
    ASSUME NEW i \in Nat, NEW k \in Nat, i <= k, NEW q \in Seq(Calls(i))
    PROVE  q \in Seq(Calls(k))
<1>1. 0 .. i \subseteq 0 .. k
  OBVIOUS
<1>2. Calls(i) \subseteq Calls(k)
  BY <1>1 DEF Calls
<1> QED BY <1>2, SeqWider

LEMMA TransceiversMove ==
    ASSUME NEW i \in Nat, NEW k \in Nat, NEW x \in Transceivers(i), x.seq \in 0 .. k
    PROVE  x \in Transceivers(k)
  BY DEF Transceivers

(* The budget only shrinks, so a miss is never forgotten.                    *)
Shrunk == budget' \in Budgets /\ budget'.misses <= budget.misses

LEMMA SpendShrinks ==
    ASSUME budget \in Budgets, NEW what \in {"requests", "connects", "turns"}, Spend(what)
    PROVE  Shrunk
  BY CatAssumption DEF Budgets, Spend, Shrunk

LEMMA UnmissedBefore ==
    ASSUME IInv, Shrunk, budget'.misses = Misses
    PROVE  budget.misses = Misses /\ KeyedIsRemembered
<1>1. budget.misses \in 0 .. Misses /\ budget'.misses \in 0 .. Misses
  BY DEF IInv, Scalars, Shrunk, Budgets
<1>2. budget.misses = Misses
  BY <1>1, CatAssumption DEF Shrunk
<1> QED BY <1>2 DEF IInv, KeyedUntilMissed

LEMMA InitIInv == Init => IInv
<1> SUFFICES ASSUME Init PROVE IInv
  OBVIOUS
<1>1. Scalars
  <2>1. Requests \in 0 .. Requests /\ Connects \in 0 .. Connects /\ Misses \in 0 .. Misses
        /\ Turns \in 0 .. Turns /\ 0 \in 0 .. MaxRetries
    BY CatAssumption
  <2>2. budget \in Budgets
    BY <2>1 DEF Init, Budgets
  <2>3. view \in [frequency : Dials \cup {0}, ptt : BOOLEAN]
    BY DEF Init
  <2> QED BY <2>1, <2>2, <2>3, IdleIs DEF Init, Scalars
<1>2. rig \in Rigs /\ rig.open = FALSE
  <2>1. PollsToStabilize \in 0 .. PollsToStabilize
    BY DEF PollsToStabilize
  <2> QED BY <2>1 DEF Init, Rigs
<1>3. /\ NewTransceiver \in Transceivers(0) /\ NewTransceiver.seq = 0
      /\ ~NewTransceiver.actual.online /\ ~NewTransceiver.requested.online
      /\ NewTransceiver.actual.online = NewTransceiver.requested.online
  <2>1. 0 \in 0 .. 0 /\ 0 \in 0 .. PollsToStabilize /\ 0 \in 0 .. Tolerated - 1 /\ 0 \in 0 .. Bursts
    BY CatAssumption DEF PollsToStabilize
  <2> QED BY <2>1, IdleIs DEF NewTransceiver, Transceivers
<1>4. Types
  BY <1>2, <1>3 DEF Init, Types
<1>5. OneThread
  BY DEF Init, OneThread
<1>6. InOrder /\ Newest /\ Posted /\ Told
  BY DEF Init, InOrder, Newest, Sent, Posted, Told
<1>7. Online /\ KeyedUntilMissed
  BY <1>2, <1>3 DEF Init, Online, KeyedUntilMissed, KeyedIsRemembered
<1> QED BY <1>1, <1>4, <1>5, <1>6, <1>7 DEF IInv

(* The queues, the worker and what is asked of it are left alone.            *)
LEMMA AsideKeeps ==
    ASSUME IInv, Scalars', Shrunk, connecting' => connecting,
           UNCHANGED <<desired, seqNum, present, connected, disconnecting,
                       calls, reports, thread, w, rig>>
    PROVE  IInv'
<1>1. Types'
  BY DEF IInv, Types
<1>2. OneThread' /\ InOrder' /\ Newest' /\ Online' /\ Told' /\ Posted'
  BY DEF IInv, OneThread, NoStop, InOrder, Newest, Sent, Online, Told, Posted
<1>3. KeyedUntilMissed'
  BY UnmissedBefore DEF KeyedUntilMissed, KeyedIsRemembered
<1> QED BY <1>1, <1>2, <1>3 DEF IInv

\* What is appended to the calls, and what stays where it was.
LEMMA AppendIs ==
    ASSUME NEW S, NEW q \in Seq(S), NEW e \in S
    PROVE  /\ Append(q, e) \in Seq(S)
           /\ DOMAIN Append(q, e) = 1 .. Len(q) + 1 /\ DOMAIN q = 1 .. Len(q)
           /\ Len(Append(q, e)) = Len(q) + 1 /\ Len(q) \in Nat
           /\ \A i \in 1 .. Len(q) : Append(q, e)[i] = q[i]
           /\ Append(q, e)[Len(q) + 1] = e
  OBVIOUS

LEMMA TailIs ==
    ASSUME NEW S, NEW q \in Seq(S), q # <<>>
    PROVE  /\ Tail(q) \in Seq(S) /\ Head(q) = q[1] /\ q[1] \in S
           /\ Len(q) \in Nat \ {0} /\ Len(Tail(q)) = Len(q) - 1
           /\ DOMAIN q = 1 .. Len(q) /\ DOMAIN Tail(q) = 1 .. Len(q) - 1
           /\ \A i \in 1 .. Len(q) - 1 : Tail(q)[i] = q[i + 1]
           /\ Tail(q) = <<>> <=> Len(q) = 1
<1>1. Len(q) \in Nat \ {0} /\ DOMAIN q = 1 .. Len(q) /\ Tail(q) \in Seq(S) /\ Head(q) = q[1]
  OBVIOUS
<1>2. q[1] \in S
  BY <1>1
<1>3. Len(Tail(q)) = Len(q) - 1
  BY <1>1
<1>4. DOMAIN Tail(q) = 1 .. Len(q) - 1
  BY <1>1, <1>3
<1>5. \A i \in 1 .. Len(q) - 1 : Tail(q)[i] = q[i + 1]
  BY <1>1
<1>6. Tail(q) = <<>> <=> Len(q) = 1
  <2>1. \A x \in Seq(S) : x = <<>> <=> Len(x) = 0
    OBVIOUS
  <2>2. Tail(q) = <<>> <=> Len(Tail(q)) = 0
    BY <1>1, <2>1
  <2> QED BY <1>1, <1>3, <2>2
<1> QED BY <1>1, <1>2, <1>3, <1>4, <1>5, <1>6

LEMMA StopSessionKeeps ==
    ASSUME IInv, NEW again \in BOOLEAN, present, ~disconnecting, StopSession(again),
           Scalars', Shrunk, UNCHANGED <<seqNum, thread, w, rig, reports>>
    PROVE  IInv'
<1> DEFINE e == [NoCall EXCEPT !.by = "stop"]
<1>1. e \in Calls(seqNum) /\ e.by = "stop"
  BY IdleIs DEF NoCall, Calls, IInv, Types
<1>2. thread = "running" /\ calls \in Seq(Calls(seqNum)) /\ calls' = Append(calls, e)
  BY DEF IInv, Types, OneThread, StopSession, Post
<1> HIDE DEF e
<1>3. /\ calls' \in Seq(Calls(seqNum))
      /\ DOMAIN calls' = 1 .. Len(calls) + 1 /\ DOMAIN calls = 1 .. Len(calls)
      /\ Len(calls) \in Nat
      /\ \A i \in 1 .. Len(calls) : calls'[i] = calls[i]
      /\ calls'[Len(calls) + 1] = e
  BY <1>1, <1>2, AppendIs
<1>4. Types'
  BY <1>3 DEF IInv, Types
<1>5. present' /\ disconnecting'
  BY DEF StopSession
<1>6. OneThread'
  BY <1>2, <1>5 DEF IInv, OneThread
<1>7. Newest' /\ Online'
  BY <1>5 DEF IInv, Newest, Online
<1>8. Told'
  BY <1>1, <1>3 DEF Told, NoStop
<1>9. InOrder' /\ Posted'
  BY <1>1, <1>3 DEF IInv, InOrder, Posted
<1>10. KeyedUntilMissed'
  BY UnmissedBefore DEF KeyedUntilMissed, KeyedIsRemembered
<1> QED BY <1>4, <1>6, <1>7, <1>8, <1>9, <1>10 DEF IInv

LEMMA NewSessionKeeps ==
    ASSUME IInv, ~present, NewSession, Scalars', Shrunk, UNCHANGED reports
    PROVE  IInv'
<1> DEFINE e == [NoCall EXCEPT !.seq = seqNum + 1]
<1>1. seqNum + 1 \in Nat /\ 0 \in 0 .. seqNum + 1 /\ seqNum + 1 \in 0 .. seqNum + 1
  BY DEF IInv, Types
<1>2. e \in Calls(seqNum + 1) /\ e.by = "start" /\ e.seq = seqNum + 1
  BY <1>1, IdleIs DEF NoCall, Calls
<1>3. /\ calls' = <<e>> /\ seqNum' = seqNum + 1 /\ thread' = "running" /\ w' = NewTransceiver
      /\ present' /\ rig' = rig /\ reports' = <<>> /\ thread = "none"
      /\ ~connected' /\ connected' \in BOOLEAN
      /\ ~disconnecting'
  BY DEF NewSession, IInv, OneThread, Scalars
<1> HIDE DEF e
<1>4. /\ w' \in Transceivers(seqNum + 1) /\ w'.seq = 0
      /\ w'.actual.online = FALSE /\ w'.requested.online = FALSE
  <2>1. 0 \in 0 .. PollsToStabilize /\ 0 \in 0 .. Tolerated - 1 /\ 0 \in 0 .. Bursts
    BY CatAssumption DEF PollsToStabilize
  <2>2. Idle.online = FALSE
    BY DEF Idle
  <2> QED BY <1>1, <1>3, <2>1, <2>2, IdleIs DEF NewTransceiver, Transceivers
<1>5. rig.open = FALSE /\ rig \in Rigs
  BY <1>3 DEF IInv, Online, Types, Rigs
<1>6. Types'
  BY <1>1, <1>2, <1>3, <1>4, <1>5 DEF Types
<1>7. DOMAIN calls' = {1} /\ calls'[1] = e
  BY <1>3
<1>8. OneThread'
  BY <1>2, <1>3, <1>7 DEF OneThread, NoStop
<1>9. InOrder' /\ Posted'
  BY <1>1, <1>2, <1>4, <1>7 DEF InOrder, Posted, IInv, Types
<1>10. Newest'
  BY <1>2, <1>7 DEF Newest, Sent
<1>11. Online' /\ KeyedUntilMissed'
  BY <1>3, <1>4, <1>5 DEF Online, KeyedUntilMissed, KeyedIsRemembered
<1>12. Told'
  BY <1>3, <1>4 DEF Told
<1> QED BY <1>6, <1>8, <1>9, <1>10, <1>11, <1>12 DEF IInv

LEMMA RequestKeeps ==
    ASSUME IInv, NEW by \in {"frequency", "ptt", "restore"}, NEW state \in States,
           Request(by, state), by = "frequency" => ~state.ptt, by = "restore" => Inherits,
           Scalars', UNCHANGED <<session, reports, worker>>
    PROVE  IInv'
<1> DEFINE e == [by |-> by, state |-> state, seq |-> seqNum + 1]
<1>1. /\ Shrunk /\ desired' = state /\ present /\ seqNum' = seqNum + 1 /\ seqNum \in Nat
      /\ calls' = IF thread = "none" THEN calls ELSE Append(calls, e)
  BY SpendShrinks DEF Request, SendState, Post, IInv, OneThread, Scalars, Types
<1>2. /\ e \in Calls(seqNum + 1) /\ e.by = by /\ e.state = state /\ e.seq = seqNum + 1
  BY <1>1 DEF Calls
<1> HIDE DEF e
<1>3. calls \in Seq(Calls(seqNum)) /\ calls \in Seq(Calls(seqNum + 1))
  BY <1>1, CallsWider DEF IInv, Types
<1>4. w \in Transceivers(seqNum + 1) /\ w.seq \in 0 .. seqNum
  <2>1. w \in Transceivers(seqNum) /\ w.seq \in 0 .. seqNum
    BY DEF IInv, Types, Transceivers
  <2>2. w.seq \in 0 .. seqNum + 1
    BY <1>1, <2>1
  <2> QED BY <1>1, <2>1, <2>2, TransceiversMove
<1>5. KeyedUntilMissed'
  BY <1>1, UnmissedBefore DEF KeyedUntilMissed, KeyedIsRemembered, worker
<1>6. Online'
  BY DEF IInv, Online, worker
<1>7. CASE thread = "none"
  <2>1. calls' = calls /\ calls = <<>>
    BY <1>1, <1>7 DEF IInv, OneThread
  <2>2. Types'
    <3>1. w' = w /\ rig' = rig /\ thread' = thread /\ reports' = reports
      BY DEF worker
    <3>2. /\ thread \in {"none", "running", "quitting"} /\ rig \in Rigs
          /\ reports \in Seq(ReportsTo(w.seq))
      BY DEF IInv, Types
    <3>3. seqNum' \in Nat
      BY <1>1
    <3>4. calls' \in Seq(Calls(seqNum'))
      BY <2>1
    <3>5. w' \in Transceivers(seqNum')
      <4>1. seqNum' = seqNum + 1
        BY <1>1
      <4> QED BY <1>4, <3>1, <4>1
    <3> QED BY <3>1, <3>2, <3>3, <3>4, <3>5 DEF Types
  <2>3. OneThread' /\ Told'
    BY <1>7, <2>1 DEF IInv, OneThread, Told, NoStop, worker, session
  <2>4. InOrder' /\ Posted' /\ Newest'
    BY <2>1 DEF InOrder, Posted, Newest, Sent
  <2> QED BY <1>5, <1>6, <2>2, <2>3, <2>4 DEF IInv
<1>8. CASE thread # "none"
  <2>1. /\ calls' \in Seq(Calls(seqNum + 1))
        /\ DOMAIN calls' = 1 .. Len(calls) + 1 /\ DOMAIN calls = 1 .. Len(calls)
        /\ Len(calls) \in Nat
        /\ \A i \in 1 .. Len(calls) : calls'[i] = calls[i]
        /\ calls'[Len(calls) + 1] = e
    BY <1>1, <1>2, <1>3, <1>8, AppendIs
  <2>2. Types'
    BY <1>1, <1>4, <2>1 DEF IInv, Types, worker
  <2>3. NoStop' <=> NoStop
    BY <1>2, <2>1 DEF NoStop
  <2>4. OneThread' /\ Told'
    BY <1>8, <2>3 DEF IInv, OneThread, Told, worker, session
  <2>5. \A i \in DOMAIN calls : calls[i].seq \in 0 .. seqNum
    <3>1. \A i \in DOMAIN calls : calls[i] \in Calls(seqNum)
      BY <1>3
    <3> QED BY <3>1 DEF Calls
  <2>6. InOrder'
    <3>1. \A i \in DOMAIN calls' : calls'[i].by # "stop" => w'.seq < calls'[i].seq
      BY <1>1, <1>2, <1>4, <2>1 DEF IInv, InOrder, worker
    <3>2. ASSUME NEW i \in DOMAIN calls', NEW j \in DOMAIN calls',
                 i < j, calls'[i].by # "stop", calls'[j].by # "stop"
          PROVE  calls'[i].seq < calls'[j].seq
      <4>1. i \in 1 .. Len(calls)
        BY <2>1, <3>2
      <4>2. CASE j = Len(calls) + 1
        BY <1>1, <1>2, <2>1, <2>5, <4>1, <4>2
      <4>3. CASE j \in 1 .. Len(calls)
        BY <2>1, <3>2, <4>1, <4>3 DEF IInv, InOrder
      <4> QED BY <2>1, <4>2, <4>3
    <3> QED BY <3>1, <3>2 DEF InOrder
  <2>7. Posted'
    BY <1>2, <2>1 DEF IInv, Posted
  <2>8. Newest'
    <3>1. Len(calls) + 1 \in Sent' /\ \A j \in Sent' : j <= Len(calls) + 1
      BY <1>2, <2>1 DEF Sent
    <3> QED BY <1>1, <1>2, <2>1, <3>1 DEF Newest
  <2> QED BY <1>5, <1>6, <2>2, <2>4, <2>6, <2>7, <2>8 DEF IInv
<1> QED BY <1>7, <1>8

(* What the worker has reported is taken from the head of the queue.         *)
LEMMA ReportsShift ==
    ASSUME IInv, reports # <<>>, reports' = Tail(reports), thread' = thread, w' = w
    PROVE  /\ reports' \in Seq(ReportsTo(w.seq)) /\ Head(reports) = reports[1]
           /\ reports[1] \in ReportsTo(w.seq)
           /\ Len(reports) \in Nat \ {0} /\ Len(reports') = Len(reports) - 1
           /\ DOMAIN reports = 1 .. Len(reports) /\ DOMAIN reports' = 1 .. Len(reports) - 1
           /\ \A i \in 1 .. Len(reports) - 1 : reports'[i] = reports[i + 1]
           /\ reports' = <<>> <=> Len(reports) = 1
           /\ present
  BY TailIs DEF IInv, Types, OneThread

LEMMA ReportKeeps ==
    ASSUME IInv, reports # <<>>, reports' = Tail(reports), Head(reports).kind # "finished",
           Scalars', Shrunk,
           UNCHANGED <<seqNum, present, disconnecting, calls, thread, w, rig>>,
           connected' = Tells(Head(reports)), connecting' => connecting,
           Sent # {} => desired'.frequency = desired.frequency /\ desired'.ptt = desired.ptt
    PROVE  IInv'
<1>1. /\ reports' \in Seq(ReportsTo(w.seq)) /\ Head(reports) = reports[1]
      /\ Len(reports) \in Nat \ {0} /\ Len(reports') = Len(reports) - 1
      /\ DOMAIN reports = 1 .. Len(reports) /\ DOMAIN reports' = 1 .. Len(reports) - 1
      /\ \A i \in 1 .. Len(reports) - 1 : reports'[i] = reports[i + 1]
      /\ reports' = <<>> <=> Len(reports) = 1
      /\ present
  BY ReportsShift
<1>2. Types'
  BY <1>1 DEF IInv, Types
<1>3. Len(reports) > 1 => reports'[Len(reports')] = reports[Len(reports)]
  BY <1>1
<1>4. OneThread'
  <2>1. ASSUME NEW i \in DOMAIN reports', reports'[i].kind = "finished"
        PROVE  thread = "none" /\ i = Len(reports')
    <3>1. i + 1 \in DOMAIN reports /\ reports[i + 1].kind = "finished"
      BY <1>1, <2>1
    <3>2. thread = "none" /\ i + 1 = Len(reports)
      BY <3>1 DEF IInv, OneThread
    <3> QED BY <1>1, <3>2
  <2>2. thread = "none" => reports' # <<>> /\ reports'[Len(reports')].kind = "finished"
    BY <1>1, <1>3 DEF IInv, OneThread
  <2> QED BY <1>1, <2>1, <2>2 DEF IInv, OneThread, NoStop
<1>5. InOrder' /\ Posted' /\ Online'
  BY DEF IInv, InOrder, Posted, Online
<1>6. Newest'
  BY DEF IInv, Newest, Sent
<1>7. Told'
  <2>1. CASE Len(reports) = 1
    BY <1>1, <2>1 DEF IInv, Told, NoStop
  <2>2. CASE Len(reports) # 1
    <3>1. reports' # <<>> /\ reports # <<>> /\ reports'[Len(reports')] = reports[Len(reports)]
      BY <1>1, <1>3, <2>2
    <3> QED BY <3>1 DEF IInv, Told, NoStop
  <2> QED BY <2>1, <2>2
<1>8. KeyedUntilMissed'
  BY UnmissedBefore DEF KeyedUntilMissed, KeyedIsRemembered
<1> QED BY <1>2, <1>4, <1>5, <1>6, <1>7, <1>8 DEF IInv

LEMMA RecoveryTypes ==
    ASSUME Scalars, ScheduleTransientReconnect \/ UNCHANGED recovery
    PROVE  retryCount' \in 0 .. MaxRetries /\ retryPending' \in BOOLEAN
<1>1. retryCount \in 0 .. MaxRetries /\ retryPending \in BOOLEAN
  BY DEF Scalars
<1>2. CASE UNCHANGED recovery
  BY <1>1, <1>2 DEF recovery
<1>3. CASE retryPending' = retryPending /\ retryCount' = 0
  BY <1>1, <1>3, CatAssumption
<1>4. CASE ~(retryCount >= MaxRetries) /\ retryCount' = retryCount + 1 /\ retryPending' = TRUE
  BY <1>1, <1>4, CatAssumption
<1> QED BY <1>2, <1>3, <1>4 DEF ScheduleTransientReconnect

LEMMA ReceiveKeeps == IInv /\ Receive => IInv'
<1> SUFFICES ASSUME IInv, Receive PROVE IInv'
  OBVIOUS
<1> DEFINE r == Head(reports)
<1>0. reports # <<>> /\ reports' = Tail(reports) /\ w' = w /\ rig' = rig /\ thread' = thread
      /\ asked' = asked /\ seqNum' = seqNum /\ blocked' = blocked /\ calls' = calls
      /\ budget' = budget
  BY DEF Receive, worker
<1>1. /\ r = reports[1] /\ r \in ReportsTo(w.seq) /\ present
      /\ Len(reports) \in Nat \ {0} /\ 1 \in DOMAIN reports
      /\ reports' = <<>> <=> Len(reports) = 1
  BY <1>0, ReportsShift
<1>2. /\ r.state \in States /\ r.seq \in 0 .. w.seq /\ r.kind \in Kinds
      /\ r.state.online \in BOOLEAN /\ r.state.frequency \in Dials \cup {0}
      /\ r.state.ptt \in BOOLEAN
  <2>1. r.state \in States /\ r.seq \in 0 .. w.seq /\ r.kind \in Kinds
    BY <1>1 DEF ReportsTo
  <2> QED BY <2>1 DEF States
<1>3. Shrunk
  BY <1>0 DEF Shrunk, IInv, Scalars, Budgets
<1>4. Scalars
  BY DEF IInv
<1>5. CASE r.kind = "update"
  <2>1. HandleUpdate(r)
    BY <1>5 DEF Receive
  <2> HIDE DEF r
  <2>2. Sent # {} => r.seq < seqNum
    <3>1. ASSUME NEW i \in DOMAIN calls, calls[i].by # "stop" PROVE r.seq < seqNum
      <4>1. calls[i] \in Calls(seqNum)
        BY DEF IInv, Types
      <4>2. calls[i].seq \in 0 .. seqNum /\ w.seq < calls[i].seq /\ w.seq \in 0 .. seqNum
            /\ seqNum \in Nat
        BY <3>1, <4>1 DEF IInv, InOrder, Calls, Types, Transceivers
      <4> QED BY <1>2, <4>2
    <3> QED BY <3>1 DEF Sent
  <2>3. view' \in [frequency : Dials \cup {0}, ptt : BOOLEAN]
    BY <1>2, <1>4, <2>1 DEF HandleUpdate, Scalars
  <2>4. retryCount' \in 0 .. MaxRetries
    BY <1>4, <2>1, CatAssumption DEF HandleUpdate, Scalars
  <2>5. connecting' \in BOOLEAN /\ connected' \in BOOLEAN /\ retryPending' \in BOOLEAN
        /\ desired' \in States /\ connected' = r.state.online
        /\ (connecting' => connecting)
        /\ (Sent # {} => desired' = desired)
    BY <1>2, <1>4, <2>1, <2>2 DEF HandleUpdate, Scalars
  <2>6. Scalars'
    BY <1>0, <1>4, <2>1, <2>3, <2>4, <2>5 DEF HandleUpdate, Scalars
  <2>7. connected' = Tells(r)
    BY <1>2, <1>5, <2>5 DEF Tells
  <2>8. present' = present /\ disconnecting' = disconnecting
    BY <2>1 DEF HandleUpdate
  <2>9. r.kind # "finished"
    BY <1>5
  <2> QED BY <1>0, <1>3, <2>5, <2>6, <2>7, <2>8, <2>9, ReportKeeps DEF r
<1>6. CASE r.kind = "finished"
  <2>1. HandleFinished
    BY <1>6 DEF Receive
  <2>2. thread = "none" /\ Len(reports) = 1 /\ calls = <<>>
    BY <1>1, <1>6 DEF IInv, OneThread
  <2>3. reports' = <<>> /\ calls' = <<>> /\ thread' = "none"
    BY <1>0, <1>1, <2>2
  <2>4. Scalars'
    <3>1. due' \subseteq {"always", "ifFree"}
      BY <1>4, <2>1 DEF HandleFinished, Scalars
    <3> QED BY <1>0, <1>4, <2>1, <3>1, IdleIs DEF HandleFinished, Scalars, recovery
  <2>5. Types'
    BY <1>0, <2>3 DEF IInv, Types
  <2>6. OneThread' /\ InOrder' /\ Newest' /\ Posted' /\ Told'
    BY <2>1, <2>3 DEF HandleFinished, OneThread, InOrder, Newest, Sent, Posted, Told
  <2>7. Online' /\ KeyedUntilMissed'
    BY <1>0 DEF IInv, Online, KeyedUntilMissed, KeyedIsRemembered
  <2> QED BY <2>4, <2>5, <2>6, <2>7 DEF IInv
<1>7. CASE r.kind \notin {"update", "finished"}
  <2>1. HandleFailure(r.kind)
    BY <1>7 DEF Receive
  <2> HIDE DEF r
  <2>2. retryCount' \in 0 .. MaxRetries /\ retryPending' \in BOOLEAN
    <3>1. ScheduleTransientReconnect \/ UNCHANGED recovery
      BY <2>1 DEF HandleFailure
    <3> QED BY <1>4, <3>1, RecoveryTypes
  <2>3. desired' \in States /\ desired'.frequency = desired.frequency /\ desired'.ptt = desired.ptt
    BY <1>4, <2>1, OnlineField DEF HandleFailure, Scalars
  <2>4. Scalars'
    BY <1>0, <1>4, <2>1, <2>2, <2>3 DEF HandleFailure, Scalars
  <2>5. connected' = Tells(r) /\ ~connecting' /\ present' = present
        /\ disconnecting' = disconnecting /\ r.kind # "finished"
    BY <1>7, <2>1 DEF HandleFailure, Tells
  <2> QED BY <1>0, <1>3, <2>3, <2>4, <2>5, ReportKeeps DEF r
<1> QED BY <1>5, <1>6, <1>7

LEMMA FinishKeeps == IInv /\ Finish => IInv'
<1> SUFFICES ASSUME IInv, Finish PROVE IInv'
  OBVIOUS
<1> DEFINE e == Report("finished", Idle, 0)
<1>1. /\ thread = "quitting" /\ thread' = "none" /\ calls' = <<>> /\ w' = w
      /\ reports' = Append(reports, e) /\ rig' = [rig EXCEPT !.open = FALSE]
      /\ UNCHANGED <<desired, seqNum, present, connecting, connected, disconnecting,
                     reconnectAfter, due, asked, view, blocked, guard, retryCount,
                     retryPending, budget>>
  BY DEF Finish, session, guarding, recovery
<1>2. e \in ReportsTo(w.seq) /\ e.kind = "finished"
  <2>1. 0 \in 0 .. w.seq
    BY DEF IInv, Types, Transceivers
  <2> QED BY <2>1, IdleIs DEF ReportsTo, Report, Kinds
<1> HIDE DEF e
<1>3. present /\ disconnecting
  BY <1>1 DEF IInv, OneThread
<1>4. /\ reports' \in Seq(ReportsTo(w.seq))
      /\ DOMAIN reports' = 1 .. Len(reports) + 1 /\ DOMAIN reports = 1 .. Len(reports)
      /\ Len(reports') = Len(reports) + 1 /\ Len(reports) \in Nat
      /\ \A i \in 1 .. Len(reports) : reports'[i] = reports[i]
      /\ reports'[Len(reports) + 1] = e
  BY <1>1, <1>2, AppendIs DEF IInv, Types
<1>5. rig' \in Rigs /\ ~rig'.open
  BY <1>1 DEF IInv, Types, Rigs
<1>6. Types' /\ Scalars'
  <2>1. calls' \in Seq(Calls(seqNum'))
    BY <1>1
  <2> QED BY <1>1, <1>4, <1>5, <2>1 DEF IInv, Types, Scalars
<1>7. OneThread'
  <2>1. \A i \in 1 .. Len(reports) : reports[i].kind # "finished"
    BY <1>1, <1>4 DEF IInv, OneThread
  <2>2. reports' # <<>>
    BY <1>4
  <2> QED BY <1>1, <1>2, <1>3, <1>4, <2>1, <2>2 DEF OneThread
<1>8. InOrder' /\ Newest' /\ Posted' /\ Told'
  BY <1>1 DEF InOrder, Newest, Sent, Posted, Told
<1>9. Online' /\ KeyedUntilMissed'
  BY <1>1, <1>5 DEF IInv, Online, KeyedUntilMissed, KeyedIsRemembered
<1> QED BY <1>6, <1>7, <1>8, <1>9 DEF IInv

(* connectRig, whoever calls it.                                             *)
LEMMA ConnectRigKeeps ==
    ASSUME IInv, NEW there \in BOOLEAN, NEW stale \in BOOLEAN, ConnectRig(there, stale),
           Shrunk, asked' \in BOOLEAN, due' \subseteq {"always", "ifFree"},
           UNCHANGED <<view, reports>>
    PROVE  IInv'
<1>0. Scalars /\ budget' \in Budgets
  BY DEF IInv, Shrunk
<1>1. CASE disconnecting
  <2>1. /\ reconnectAfter' = TRUE
        /\ UNCHANGED <<desired, seqNum, present, connecting, connected, disconnecting,
                       guarding, recovery, calls, worker>>
    BY <1>1 DEF ConnectRig
  <2>2. Scalars'
    BY <1>0, <2>1 DEF Scalars, guarding, recovery
  <2> QED BY <2>1, <2>2, AsideKeeps DEF worker
<1>2. CASE ~disconnecting /\ ~present /\ there
  <2>1. NewSession
    BY <1>2 DEF ConnectRig
  <2>2. desired' \in States
    BY <2>1, IdleIs, OnlineField DEF NewSession
  <2>3. Scalars'
    BY <1>0, <2>1, <2>2 DEF Scalars, NewSession, recovery
  <2> QED BY <1>2, <2>1, <2>3, NewSessionKeeps
<1>3. CASE ~disconnecting /\ ~present /\ ~there
  <2>1. /\ ScheduleTransientReconnect
        /\ UNCHANGED <<desired, seqNum, present, connecting, connected, disconnecting,
                       reconnectAfter, guarding, calls, worker>>
    BY <1>3 DEF ConnectRig
  <2>2. retryCount' \in 0 .. MaxRetries /\ retryPending' \in BOOLEAN
    BY <1>0, <2>1, RecoveryTypes
  <2>3. Scalars'
    BY <1>0, <2>1, <2>2 DEF Scalars, guarding
  <2> QED BY <2>1, <2>3, AsideKeeps DEF worker
<1>4. CASE ~disconnecting /\ present /\ connecting /\ ~connected /\ ~stale
  <2>1. UNCHANGED <<desired, seqNum, present, connecting, connected, disconnecting,
                    reconnectAfter, guarding, recovery, calls, worker>>
    BY <1>4 DEF ConnectRig
  <2>2. Scalars'
    BY <1>0, <2>1 DEF Scalars, guarding, recovery
  <2> QED BY <2>1, <2>2, AsideKeeps DEF worker
<1>5. CASE ~disconnecting /\ present /\ ~(connecting /\ ~connected /\ ~stale)
  <2>1. StopSession(TRUE) /\ UNCHANGED <<seqNum, blocked, retryCount, worker>>
    BY <1>5 DEF ConnectRig
  <2>2. Scalars'
    BY <1>0, <2>1, IdleIs DEF Scalars, StopSession
  <2> QED BY <1>5, <2>1, <2>2, StopSessionKeeps DEF worker
<1> QED BY <1>1, <1>2, <1>3, <1>4, <1>5

LEMMA MissShrinks ==
    ASSUME IInv, NEW there \in BOOLEAN, PortLookedFor(there), NEW k \in {0, 1},
           k <= budget.connects,
           budget' = [budget EXCEPT !.connects = @ - k, !.misses = @ - Missed(there)]
    PROVE  Shrunk
<1>1. /\ budget.requests \in 0 .. Requests /\ budget.connects \in 0 .. Connects
      /\ budget.misses \in 0 .. Misses /\ budget.turns \in 0 .. Turns
      /\ budget \in [requests : 0 .. Requests, connects : 0 .. Connects,
                     misses : 0 .. Misses, turns : 0 .. Turns]
  BY DEF IInv, Scalars, Budgets
<1>2. Missed(there) \in {0, 1} /\ Missed(there) <= budget.misses
  BY <1>1, CatAssumption DEF PortLookedFor, Missed
<1>3. /\ budget.connects - k \in 0 .. Connects /\ budget.misses - Missed(there) \in 0 .. Misses
      /\ budget.misses - Missed(there) <= budget.misses
  BY <1>1, <1>2, CatAssumption
<1> QED BY <1>1, <1>3 DEF Shrunk, Budgets

LEMMA ConnectKeeps ==
    ASSUME IInv, NEW there \in BOOLEAN, NEW stale \in BOOLEAN, Connect(there, stale)
    PROVE  IInv'
<1>1. 1 <= budget.connects
  BY CatAssumption DEF Connect, IInv, Scalars, Budgets
<1>2. Shrunk
  BY <1>1, MissShrinks DEF Connect
<1>3. due' \subseteq {"always", "ifFree"}
  BY DEF Connect, IInv, Scalars
<1> QED BY <1>2, <1>3, ConnectRigKeeps DEF Connect

LEMMA ReconnectKeeps ==
    ASSUME IInv, NEW how \in {"always", "ifFree"}, NEW there \in BOOLEAN, Reconnect(how, there)
    PROVE  IInv'
<1>1. Shrunk
  <2>1. 0 <= budget.connects /\ budget.connects - 0 = budget.connects
    BY CatAssumption DEF IInv, Scalars, Budgets
  <2>2. budget' = [budget EXCEPT !.connects = @ - 0, !.misses = @ - Missed(there)]
    BY <2>1 DEF Reconnect, IInv, Scalars, Budgets
  <2> QED BY <2>1, <2>2, MissShrinks DEF Reconnect
<1>2. due' \subseteq {"always", "ifFree"} /\ asked' \in BOOLEAN /\ UNCHANGED <<view, reports>>
  BY DEF Reconnect, IInv, Scalars
<1>3. CASE how = "ifFree" /\ present
  <2>1. UNCHANGED <<desired, seqNum, present, connecting, connected, disconnecting,
                    reconnectAfter, guarding, recovery, calls, worker>>
    BY <1>3 DEF Reconnect
  <2>2. Scalars'
    BY <1>1, <1>2, <2>1 DEF IInv, Scalars, Shrunk, guarding, recovery
  <2> QED BY <1>1, <1>2, <2>1, <2>2, AsideKeeps DEF worker
<1>4. CASE ~(how = "ifFree" /\ present)
  <2>1. ConnectRig(there, FALSE) /\ FALSE \in BOOLEAN
    BY <1>4 DEF Reconnect
  <2> QED BY <1>1, <1>2, <2>1, ConnectRigKeeps
<1> QED BY <1>3, <1>4

LEMMA DisconnectRigInternalKeeps ==
    ASSUME IInv, NEW again \in BOOLEAN, DisconnectRigInternal(again), Shrunk, asked' \in BOOLEAN,
           UNCHANGED <<seqNum, view, blocked, retryCount, reports, worker>>
    PROVE  IInv'
<1>0. Scalars /\ budget' \in Budgets
  BY DEF IInv, Shrunk
<1>1. CASE present /\ ~disconnecting
  <2>1. StopSession(again) /\ UNCHANGED due
    BY <1>1 DEF DisconnectRigInternal
  <2>2. Scalars'
    BY <1>0, <2>1, IdleIs DEF Scalars, StopSession
  <2> QED BY <1>1, <2>1, <2>2, StopSessionKeeps DEF worker
<1>2. CASE ~(present /\ ~disconnecting)
  <2>1. /\ retryPending' = FALSE
        /\ reconnectAfter' = (again /\ disconnecting)
        /\ connecting' = (connecting /\ disconnecting)
        /\ due' = IF again /\ ~disconnecting THEN due \cup {"always"} ELSE due
        /\ UNCHANGED <<present, guard, connected, desired, disconnecting, calls>>
    BY <1>2 DEF DisconnectRigInternal
  <2>2. due' \subseteq {"always", "ifFree"}
    BY <1>0, <2>1 DEF Scalars
  <2>3. Scalars'
    BY <1>0, <2>1, <2>2 DEF Scalars
  <2> QED BY <2>1, <2>3, AsideKeeps DEF worker
<1> QED BY <1>1, <1>2

LEMMA DisconnectKeeps == IInv /\ Disconnect => IInv'
<1> SUFFICES ASSUME IInv, Disconnect PROVE IInv'
  OBVIOUS
<1>1. Shrunk
  BY SpendShrinks DEF Disconnect, IInv, Scalars
<1>2. DisconnectRigInternal(FALSE) /\ FALSE \in BOOLEAN /\ asked' \in BOOLEAN
  BY DEF Disconnect
<1> QED BY <1>1, <1>2, DisconnectRigInternalKeeps DEF Disconnect

LEMMA RetryTimerKeeps == IInv /\ RetryTimer => IInv'
<1> SUFFICES ASSUME IInv, RetryTimer PROVE IInv'
  OBVIOUS
<1>1. Shrunk
  BY DEF RetryTimer, Shrunk, IInv, Scalars, Budgets
<1>2. DisconnectRigInternal(TRUE) /\ TRUE \in BOOLEAN /\ asked' \in BOOLEAN
  BY DEF RetryTimer, IInv, Scalars
<1> QED BY <1>1, <1>2, DisconnectRigInternalKeeps DEF RetryTimer

LEMMA GuardTimerKeeps == IInv /\ GuardTimer => IInv'
<1> SUFFICES ASSUME IInv, GuardTimer PROVE IInv'
  OBVIOUS
<1>1. Shrunk
  BY DEF GuardTimer, Shrunk, IInv, Scalars, Budgets
<1>2. Scalars'
  BY DEF GuardTimer, IInv, Scalars, session, recovery
<1> QED BY <1>1, <1>2, AsideKeeps DEF GuardTimer, session, worker

\* What a request leaves of the scalars.
LEMMA RequestScalars ==
    ASSUME IInv, NEW by \in {"frequency", "ptt", "restore"}, NEW state \in States,
           Request(by, state), UNCHANGED <<session, guarding, recovery>>,
           view' \in [frequency : Dials \cup {0}, ptt : BOOLEAN]
    PROVE  Scalars'
<1>1. Shrunk
  BY SpendShrinks DEF Request, IInv, Scalars
<1> QED BY <1>1 DEF Request, IInv, Scalars, Shrunk, session, guarding, recovery

LEMMA RequestsKeep ==
    ASSUME IInv, NEW f \in Dials, NEW on \in BOOLEAN,
           SetRigFrequency(f) \/ RestoreRx(f) \/ SetRigPtt(on)
    PROVE  IInv'
<1>1. desired \in States /\ view \in [frequency : Dials \cup {0}, ptt : BOOLEAN]
  BY DEF IInv, Scalars
<1>2. CASE SetRigFrequency(f)
  <2> DEFINE s == [desired EXCEPT !.frequency = f, !.ptt = FALSE]
  <2>1. s \in States /\ ~s.ptt
    BY <1>1 DEF States
  <2>2. Request("frequency", s) /\ UNCHANGED <<session, view, guarding, recovery, reports, worker>>
    BY <1>2 DEF SetRigFrequency
  <2> HIDE DEF s
  <2>3. Scalars'
    BY <1>1, <2>1, <2>2, RequestScalars
  <2> QED BY <2>1, <2>2, <2>3, RequestKeeps
<1>3. CASE RestoreRx(f)
  <2> DEFINE s == [desired EXCEPT !.frequency = f]
  <2>1. s \in States
    BY <1>1 DEF States
  <2>2. /\ Request("restore", s) /\ Inherits
        /\ UNCHANGED <<session, guarding, recovery, reports, worker>>
        /\ view' = [view EXCEPT !.frequency = f]
    BY <1>3 DEF RestoreRx
  <2> HIDE DEF s
  <2>3. view' \in [frequency : Dials \cup {0}, ptt : BOOLEAN]
    BY <1>1, <2>2
  <2>4. Scalars'
    BY <2>1, <2>2, <2>3, RequestScalars
  <2> QED BY <2>1, <2>2, <2>4, RequestKeeps
<1>4. CASE SetRigPtt(on)
  <2> DEFINE s == [desired EXCEPT !.ptt = on]
  <2>1. s \in States
    BY <1>1 DEF States
  <2>2. Request("ptt", s) /\ UNCHANGED <<session, view, guarding, recovery, reports, worker>>
    BY <1>4 DEF SetRigPtt
  <2> HIDE DEF s
  <2>3. Scalars'
    BY <1>1, <2>1, <2>2, RequestScalars
  <2> QED BY <2>1, <2>2, <2>3, RequestKeeps
<1> QED BY <1>2, <1>3, <1>4

-----------------------------------------------------------------------------
(* The radio                                                                 *)

LEMMA RadioKeeps ==
    ASSUME IInv, NEW r \in Rigs, RigStep(r), Shrunk,
           r.open = rig.open, r.ours = rig.ours, r.txTo => rig.txTo
    PROVE  IInv'
<1>1. /\ rig' = r
      /\ UNCHANGED <<desired, seqNum, present, connecting, connected, disconnecting,
                     reconnectAfter, due, asked, view, blocked, guard, retryCount,
                     retryPending, calls, reports, thread, w>>
  BY DEF RigStep, session, guarding, recovery
<1>2. Scalars' /\ Types'
  BY <1>1 DEF IInv, Scalars, Types, Shrunk
<1>3. OneThread' /\ InOrder' /\ Newest' /\ Told' /\ Posted'
  BY <1>1 DEF IInv, OneThread, NoStop, InOrder, Newest, Sent, Told, Posted
<1>4. Online'
  BY <1>1 DEF IInv, Online
<1>5. KeyedUntilMissed'
  BY <1>1, UnmissedBefore DEF KeyedUntilMissed, KeyedIsRemembered
<1> QED BY <1>2, <1>3, <1>4, <1>5 DEF IInv

LEMMA RadioActionsKeep == IInv /\ Radio => IInv'
<1> SUFFICES ASSUME IInv, Radio PROVE IInv'
  OBVIOUS
<1>1. rig \in Rigs /\ budget \in Budgets
  BY DEF IInv, Types, Scalars
<1>2. CASE Obey
  <2>1. Shrunk
    BY <1>1, <1>2 DEF Obey, Shrunk, Budgets
  <2> DEFINE r == [rig EXCEPT !.dial = rig.dialTo, !.tx = rig.txTo]
  <2>2. r \in Rigs /\ r.open = rig.open /\ r.ours = rig.ours /\ r.txTo = rig.txTo
    BY <1>1 DEF Rigs
  <2>3. RigStep(r)
    BY <1>2 DEF Obey
  <2> HIDE DEF r
  <2> QED BY <2>1, <2>2, <2>3, RadioKeeps
<1>3. ASSUME NEW f \in Dials, Turn(f) PROVE IInv'
  <2>1. Shrunk
    BY <1>1, <1>3, SpendShrinks DEF Turn
  <2> DEFINE r == [rig EXCEPT !.dial = f, !.dialTo = f]
  <2>2. r \in Rigs /\ r.open = rig.open /\ r.ours = rig.ours /\ r.txTo = rig.txTo
    BY <1>1 DEF Rigs
  <2>3. RigStep(r)
    BY <1>3 DEF Turn
  <2> HIDE DEF r
  <2> QED BY <2>1, <2>2, <2>3, RadioKeeps
<1>4. CASE Microphone
  <2>1. Shrunk
    BY <1>1, <1>4, SpendShrinks DEF Microphone
  <2> DEFINE r == [rig EXCEPT !.mic = ~@]
  <2>2. r \in Rigs /\ r.open = rig.open /\ r.ours = rig.ours /\ r.txTo = rig.txTo
    BY <1>1 DEF Rigs
  <2>3. RigStep(r)
    BY <1>4 DEF Microphone
  <2> HIDE DEF r
  <2> QED BY <2>1, <2>2, <2>3, RadioKeeps
<1>5. CASE TimeOut
  <2>1. Shrunk
    BY <1>1, <1>5, SpendShrinks DEF TimeOut
  <2> DEFINE r == [rig EXCEPT !.tx = FALSE, !.txTo = FALSE]
  <2>2. r \in Rigs /\ r.open = rig.open /\ r.ours = rig.ours /\ ~r.txTo
    BY <1>1 DEF Rigs
  <2>3. RigStep(r)
    BY <1>5 DEF TimeOut
  <2> HIDE DEF r
  <2> QED BY <2>1, <2>2, <2>3, RadioKeeps
<1> QED BY <1>2, <1>3, <1>4, <1>5 DEF Radio

-----------------------------------------------------------------------------
(* The worker                                                                *)

LEMMA ConcatIs ==
    ASSUME NEW S, NEW q \in Seq(S), NEW r \in Seq(S)
    PROVE  /\ q \o r \in Seq(S) /\ Len(q \o r) = Len(q) + Len(r)
           /\ Len(q) \in Nat /\ Len(r) \in Nat
           /\ \A i \in 1 .. Len(q) + Len(r) :
                 (q \o r)[i] = IF i <= Len(q) THEN q[i] ELSE r[i - Len(q)]
           /\ DOMAIN q = 1 .. Len(q) /\ DOMAIN r = 1 .. Len(r)
           /\ DOMAIN (q \o r) = 1 .. Len(q) + Len(r)
  OBVIOUS

(* The first call is taken from the queue.                                   *)
LEMMA CallsShift ==
    ASSUME IInv, calls # <<>>, calls' = Tail(calls), UNCHANGED <<seqNum, desired, disconnecting>>
    PROVE  /\ Head(calls) = calls[1] /\ 1 \in DOMAIN calls /\ calls[1] \in Calls(seqNum)
           /\ calls' \in Seq(Calls(seqNum'))
           /\ \A i \in DOMAIN calls' : i + 1 \in DOMAIN calls /\ calls'[i] = calls[i + 1]
           /\ NoStop => NoStop'
           /\ calls[1].by # "stop" /\ NoStop' => NoStop
           /\ Newest' /\ Posted'
<1>1. /\ calls' \in Seq(Calls(seqNum)) /\ Head(calls) = calls[1] /\ calls[1] \in Calls(seqNum)
      /\ Len(calls) \in Nat \ {0} /\ Len(calls') = Len(calls) - 1
      /\ DOMAIN calls = 1 .. Len(calls) /\ DOMAIN calls' = 1 .. Len(calls) - 1
      /\ \A i \in 1 .. Len(calls) - 1 : calls'[i] = calls[i + 1]
  BY TailIs DEF IInv, Types
<1>2. \A i \in DOMAIN calls' : i + 1 \in DOMAIN calls /\ calls'[i] = calls[i + 1]
  BY <1>1
<1>3. \A i \in DOMAIN calls : i = 1 \/ (i - 1 \in DOMAIN calls' /\ calls[i] = calls'[i - 1])
  BY <1>1
<1>4. NoStop => NoStop'
  BY <1>2 DEF NoStop
<1>5. calls[1].by # "stop" /\ NoStop' => NoStop
  BY <1>3 DEF NoStop
<1>6. Posted'
  BY <1>2 DEF IInv, Posted
<1>7. Newest'
  <2>1. SUFFICES ASSUME NEW k \in Sent', ~disconnecting
                 PROVE  \E i \in Sent' : /\ \A j \in Sent' : j <= i
                                         /\ desired.frequency = calls'[i].state.frequency
                                         /\ desired.ptt = calls'[i].state.ptt
    BY DEF Newest
  <2>2. \A j \in Sent' : j + 1 \in Sent /\ j \in Nat \ {0}
    BY <1>1, <1>2 DEF Sent
  <2>3. PICK i \in Sent : /\ \A j \in Sent : j <= i
                          /\ desired.frequency = calls[i].state.frequency
                          /\ desired.ptt = calls[i].state.ptt
    BY <2>1, <2>2 DEF IInv, Newest
  <2>4. i \in DOMAIN calls /\ i \in Nat /\ k + 1 <= i /\ k \in Nat \ {0}
    BY <1>1, <2>2, <2>3 DEF Sent
  <2>5. i - 1 \in DOMAIN calls' /\ calls[i] = calls'[i - 1]
    BY <1>3, <2>4
  <2>6. i - 1 \in Sent'
    BY <2>3, <2>5 DEF Sent
  <2>7. \A j \in Sent' : j <= i - 1
    BY <2>2, <2>3, <2>4
  <2> QED BY <2>3, <2>5, <2>6, <2>7
<1> QED BY <1>1, <1>2, <1>4, <1>5, <1>6, <1>7

LEMMA MachineIs ==
    ASSUME IInv, NEW n \in Nat, w.seq <= n
    PROVE  /\ Machine \in Machines(n) /\ Machine.w = w /\ Machine.rig = rig /\ Machine.out = <<>>
           /\ seqNum \in Nat /\ w.seq \in Nat /\ w.seq <= seqNum
           /\ Machine.w.actual.online = Machine.w.requested.online
<1>1. w \in Transceivers(seqNum) /\ seqNum \in Nat /\ rig \in Rigs
  BY DEF IInv, Types
<1>2. w.seq \in 0 .. seqNum
  BY <1>1 DEF Transceivers
<1>3. w.seq \in 0 .. n
  BY <1>2
<1>4. w \in Transceivers(n)
  BY <1>1, <1>3, TransceiversMove
<1>5. w.actual.online = w.requested.online
  BY DEF IInv, Online
<1> QED BY <1>1, <1>2, <1>4, <1>5 DEF Machine, Machines

(* A turn of the worker's loop that leaves r, with a call run or without.    *)
Turned(r) ==
    /\ Become(r)
    /\ \/ /\ r.w.seq = w.seq /\ thread' = thread /\ calls' = calls
       \/ /\ calls # <<>> /\ calls' = Tail(calls) /\ Head(calls).by # "stop"
          /\ r.w.seq = Head(calls).seq /\ thread' = thread
       \/ /\ calls # <<>> /\ calls' = Tail(calls) /\ Head(calls).by = "stop"
          /\ r.w.seq = w.seq /\ thread' = "quitting"
    /\ UNCHANGED <<desired, seqNum, session, view, guarding, recovery>>

LEMMA TurnedCalls ==
    ASSUME IInv, NEW r, Turned(r), thread # "none", r.w.seq \in Nat
    PROVE  /\ calls' \in Seq(Calls(seqNum')) /\ Newest' /\ Posted' /\ InOrder'
           /\ w.seq <= r.w.seq /\ r.w.seq <= seqNum
           /\ NoStop => NoStop'
           /\ thread' = "running" /\ NoStop' => thread = "running" /\ NoStop
           /\ present /\ ~disconnecting => thread' = "running"
<1>0. /\ w' = r.w /\ UNCHANGED <<seqNum, desired, disconnecting, present>>
      /\ w.seq \in Nat /\ seqNum \in Nat /\ w.seq <= seqNum
      /\ calls \in Seq(Calls(seqNum))
      /\ thread \in {"running", "quitting"}
  <2>1. w.seq \in 0 .. seqNum /\ seqNum \in Nat
    BY DEF IInv, Types, Transceivers
  <2> QED BY <2>1 DEF Turned, Become, session, IInv, Types
<1>1. CASE r.w.seq = w.seq /\ thread' = thread /\ calls' = calls
  <2>1. InOrder' /\ Newest' /\ Posted' /\ NoStop' = NoStop
    BY <1>0, <1>1 DEF IInv, InOrder, Newest, Sent, Posted, NoStop
  <2>2. present /\ ~disconnecting => thread = "running"
    BY DEF IInv, OneThread
  <2>3. thread' = "running" /\ NoStop' => thread = "running" /\ NoStop
    BY <1>1, <2>1
  <2> QED BY <1>0, <1>1, <2>1, <2>2, <2>3
<1>2. CASE calls # <<>> /\ calls' = Tail(calls)
  <2>1. /\ Head(calls) = calls[1] /\ 1 \in DOMAIN calls /\ calls[1] \in Calls(seqNum)
        /\ calls' \in Seq(Calls(seqNum'))
        /\ \A i \in DOMAIN calls' : i + 1 \in DOMAIN calls /\ calls'[i] = calls[i + 1]
        /\ NoStop => NoStop'
        /\ calls[1].by # "stop" /\ NoStop' => NoStop
        /\ Newest' /\ Posted'
    BY <1>0, <1>2, CallsShift
  <2>2. calls[1].seq \in 0 .. seqNum
    BY <2>1 DEF Calls
  <2>3. w.seq <= r.w.seq /\ r.w.seq <= seqNum
    <3>1. calls[1].by # "stop" => w.seq < calls[1].seq
      BY <2>1 DEF IInv, InOrder
    <3> QED BY <1>0, <1>2, <2>1, <2>2, <3>1 DEF Turned
  <2>4. \A i \in DOMAIN calls' : i \in Nat \ {0}
    BY <2>1
  <2>5. InOrder'
    <3>1. ASSUME NEW i \in DOMAIN calls', calls'[i].by # "stop" PROVE r.w.seq < calls'[i].seq
      <4>1. CASE r.w.seq = w.seq
        BY <2>1, <3>1, <4>1 DEF IInv, InOrder
      <4>2. CASE calls[1].by # "stop" /\ r.w.seq = calls[1].seq
        <5>1. i + 1 \in DOMAIN calls /\ 1 < i + 1 /\ calls'[i] = calls[i + 1]
          BY <2>1, <2>4
        <5> QED BY <2>1, <3>1, <4>2, <5>1 DEF IInv, InOrder
      <4> QED BY <1>2, <2>1, <4>1, <4>2 DEF Turned
    <3>2. ASSUME NEW i \in DOMAIN calls', NEW j \in DOMAIN calls',
                 i < j, calls'[i].by # "stop", calls'[j].by # "stop"
          PROVE  calls'[i].seq < calls'[j].seq
      <4>1. /\ i + 1 \in DOMAIN calls /\ j + 1 \in DOMAIN calls /\ i + 1 < j + 1
            /\ calls'[i] = calls[i + 1] /\ calls'[j] = calls[j + 1]
        BY <2>1, <2>4, <3>2
      <4> QED BY <3>2, <4>1 DEF IInv, InOrder
    <3> QED BY <1>0, <3>1, <3>2 DEF InOrder
  <2>6. present /\ ~disconnecting => thread = "running" /\ calls[1].by # "stop"
    BY <2>1 DEF IInv, OneThread, NoStop
  <2>7. thread' = "running" => thread = "running" /\ calls[1].by # "stop"
    <3>1. calls[1].by = "stop" => thread' = "quitting" \/ (thread' = thread /\ calls' = calls)
      BY <2>1 DEF Turned
    <3>2. calls' # calls
      <4>1. Len(calls) \in Nat \ {0} /\ Len(calls') = Len(calls) - 1
        BY <1>0, <1>2, TailIs
      <4> QED BY <4>1
    <3>3. thread' \in {thread, "quitting"}
      BY DEF Turned
    <3> QED BY <1>0, <3>1, <3>2, <3>3
  <2>8. present /\ ~disconnecting => thread' = "running"
    <3>1. calls[1].by # "stop" => thread' = thread
      BY <2>1 DEF Turned
    <3> QED BY <2>6, <3>1
  <2> QED BY <1>0, <2>1, <2>3, <2>5, <2>7, <2>8
<1> QED BY <1>1, <1>2 DEF Turned

LEMMA TurnedKeeps ==
    ASSUME IInv, NEW n \in Nat, NEW r \in Machines(n), n = r.w.seq, Turned(r),
           thread # "none", Shrunk,
           r.w.actual.online = r.w.requested.online, r.rig.open = r.w.requested.online,
           thread' = "running" =>
              Ended(r) \/ (r.out = <<>> /\ r.w.requested.online = w.requested.online),
           Keyed(Machine) /\ budget'.misses = Misses => Keyed(r)
    PROVE  IInv'
<1>0. /\ w' = r.w /\ rig' = r.rig /\ reports' = reports \o r.out
      /\ UNCHANGED <<desired, seqNum, present, connecting, connected, disconnecting,
                     reconnectAfter, due, asked, view, blocked, guard, retryCount, retryPending>>
  BY DEF Turned, Become, session, guarding, recovery
<1>1. /\ calls' \in Seq(Calls(seqNum')) /\ Newest' /\ Posted' /\ InOrder'
      /\ w.seq <= n /\ n <= seqNum
      /\ NoStop => NoStop'
      /\ thread' = "running" /\ NoStop' => thread = "running" /\ NoStop
      /\ present /\ ~disconnecting => thread' = "running"
  BY TurnedCalls
<1>2. r.w \in Transceivers(n) /\ r.rig \in Rigs /\ r.out \in Seq(WorkerReports(n))
  BY MachineFields
<1>3. w.seq \in Nat /\ seqNum \in Nat /\ thread \in {"running", "quitting"}
  BY DEF IInv, Types, Transceivers
<1>4. thread' \in {thread, "quitting"}
  BY DEF Turned
<1>5. Scalars'
  BY <1>0 DEF IInv, Scalars, Shrunk
<1>6. reports \in Seq(ReportsTo(n)) /\ r.out \in Seq(ReportsTo(n))
  <2>1. 0 .. w.seq \subseteq 0 .. n
    BY <1>1, <1>3
  <2>2. ReportsTo(w.seq) \subseteq ReportsTo(n) /\ WorkerReports(n) \subseteq ReportsTo(n)
    BY <2>1 DEF ReportsTo, WorkerReports
  <2>3. reports \in Seq(ReportsTo(w.seq))
    BY DEF IInv, Types
  <2> QED BY <1>2, <2>2, <2>3, SeqWider
<1>7. /\ reports' \in Seq(ReportsTo(n)) /\ Len(reports') = Len(reports) + Len(r.out)
      /\ Len(reports) \in Nat /\ Len(r.out) \in Nat
      /\ \A i \in 1 .. Len(reports) + Len(r.out) :
            reports'[i] = IF i <= Len(reports) THEN reports[i] ELSE r.out[i - Len(reports)]
      /\ DOMAIN reports = 1 .. Len(reports) /\ DOMAIN r.out = 1 .. Len(r.out)
      /\ DOMAIN reports' = 1 .. Len(reports) + Len(r.out)
  BY <1>0, <1>6, ConcatIs
<1>8. Types'
  <2>1. r.w \in Transceivers(seqNum)
    <3>1. r.w.seq \in 0 .. seqNum
      BY <1>1, <1>3
    <3> QED BY <1>2, <1>3, <3>1, TransceiversMove
  <2> QED BY <1>0, <1>1, <1>2, <1>3, <1>4, <1>7, <2>1 DEF Types
<1>9. OneThread'
  <2>1. present
    BY <1>3 DEF IInv, OneThread
  <2>2. \A i \in DOMAIN reports : reports[i].kind # "finished"
    BY <1>3 DEF IInv, OneThread
  <2>3. \A i \in DOMAIN r.out : r.out[i].kind # "finished"
    <3>1. \A i \in DOMAIN r.out : r.out[i] \in WorkerReports(n)
      BY <1>2
    <3> QED BY <3>1 DEF WorkerReports
  <2>4. \A i \in DOMAIN reports' : reports'[i].kind # "finished"
    <3> SUFFICES ASSUME NEW i \in DOMAIN reports' PROVE reports'[i].kind # "finished"
      OBVIOUS
    <3>1. CASE i <= Len(reports)
      BY <1>7, <2>2, <3>1
    <3>2. CASE ~(i <= Len(reports))
      <4>1. i - Len(reports) \in DOMAIN r.out /\ reports'[i] = r.out[i - Len(reports)]
        BY <1>7, <3>2
      <4> QED BY <2>3, <4>1
    <3> QED BY <3>1, <3>2
  <2>5. present /\ ~disconnecting => NoStop
    BY DEF IInv, OneThread
  <2>6. thread' # "none"
    BY <1>3, <1>4
  <2> QED BY <1>0, <1>1, <2>1, <2>4, <2>5, <2>6 DEF OneThread
<1>10. Online'
  <2>1. thread' # "none"
    BY <1>3, <1>4
  <2> QED BY <1>0, <2>1 DEF Online
<1>11. Told'
  <2>1. SUFFICES ASSUME thread' = "running", NoStop'
                 PROVE  IF reports' = <<>> THEN connected = r.w.requested.online
                        ELSE Tells(reports'[Len(reports')]) = r.w.requested.online
    BY <1>0 DEF Told
  <2>2. IF reports = <<>> THEN connected = w.requested.online
        ELSE Tells(reports[Len(reports)]) = w.requested.online
    BY <1>1, <2>1 DEF IInv, Told
  <2>3. CASE r.out = <<>> /\ r.w.requested.online = w.requested.online
    <3>1. reports' = reports
      BY <1>0, <1>6, <2>3
    <3> QED BY <2>2, <2>3, <3>1
  <2>4. CASE Ended(r)
    <3>1. r.out # <<>> /\ Tells(r.out[Len(r.out)]) = r.w.requested.online
      <4>1. r.w.requested.online \in BOOLEAN
        BY <1>2 DEF Transceivers, States
      <4>2. r.out # <<>> /\ (Tells(r.out[Len(r.out)]) <=> r.w.requested.online)
        BY <2>4 DEF Ended
      <4>3. Len(r.out) \in DOMAIN r.out
        BY <1>2, <4>2
      <4>4. Tells(r.out[Len(r.out)]) \in BOOLEAN
        BY <1>2, <4>3 DEF Tells, WorkerReports, States
      <4> QED BY <4>1, <4>2, <4>4
    <3>2. Len(r.out) # 0
      BY <1>2, <3>1
    <3>3. reports' # <<>> /\ reports'[Len(reports')] = r.out[Len(r.out)]
      BY <1>7, <3>2
    <3> QED BY <3>1, <3>3
  <2> QED BY <2>1, <2>3, <2>4
<1>12. KeyedUntilMissed'
  <2>1. SUFFICES ASSUME budget'.misses = Misses PROVE KeyedIsRemembered'
    BY DEF KeyedUntilMissed
  <2>2. KeyedIsRemembered
    BY <2>1, UnmissedBefore
  <2>3. Keyed(Machine)
    BY <2>2 DEF Keyed, Machine, KeyedIsRemembered
  <2>4. Keyed(r)
    BY <2>1, <2>3
  <2> QED BY <1>0, <2>4 DEF Keyed, KeyedIsRemembered
<1> QED BY <1>1, <1>5, <1>8, <1>9, <1>10, <1>11, <1>12 DEF IInv

LEMMA OpenWhileOnline ==
    ASSUME IInv, thread # "none"
    PROVE  Machine.rig.open = Machine.w.requested.online
  BY DEF IInv, Online, Machine

(* What losing an answer costs.                                              *)
LEMMA CostIs ==
    ASSUME NEW o \in Outcomes
    PROVE  Cost(o) \in {0, 1} /\ (Cost(o) = 0 => o = Well)
  BY DEF Cost, Outcomes, Well

LEMMA CostShrinks ==
    ASSUME IInv, NEW cost \in Nat, cost <= budget.misses,
           budget' = [budget EXCEPT !.misses = @ - cost]
    PROVE  Shrunk /\ (budget'.misses = Misses => cost = 0)
<1>1. /\ budget.misses \in 0 .. Misses
      /\ budget \in [requests : 0 .. Requests, connects : 0 .. Connects,
                     misses : 0 .. Misses, turns : 0 .. Turns]
  BY DEF IInv, Scalars, Budgets
<1>2. /\ budget.misses - cost \in 0 .. Misses /\ budget.misses - cost <= budget.misses
      /\ budget.misses - cost = Misses => cost = 0
  BY <1>1, CatAssumption
<1>3. budget' \in Budgets /\ budget'.misses = budget.misses - cost
  BY <1>1, <1>2 DEF Budgets
<1> QED BY <1>2, <1>3 DEF Shrunk

LEMMA RunCost ==
    ASSUME IInv, NEW opens \in BOOLEAN, NEW o \in Outcomes, NEW rel \in Outcomes,
           RunCall(opens, o, rel)
    PROVE  Shrunk /\ (budget'.misses = Misses => o = Well)
<1> DEFINE cost == Cost(o) + Cost(rel) + (IF opens THEN 0 ELSE 1)
<1>1. Cost(o) \in {0, 1} /\ Cost(rel) \in {0, 1} /\ (Cost(o) = 0 => o = Well)
  BY CostIs
<1>2. cost \in Nat /\ (cost = 0 => o = Well)
  BY <1>1
<1>3. cost <= budget.misses /\ budget' = [budget EXCEPT !.misses = @ - cost]
  BY DEF RunCall
<1> HIDE DEF cost
<1> QED BY <1>2, <1>3, CostShrinks

(* A call that is not a stop, run.                                           *)
Ran(r, call, o) ==
    /\ r \in Machines(call.seq) /\ r.w.seq = call.seq
    /\ Works(call.seq, Machine, r)
    /\ o = Well /\ Keyed(Machine) => Keyed(r)
    /\ r.rig.txTo => rig.txTo \/ (call.by # "start" /\ call.state.ptt)

LEMMA RunIs ==
    ASSUME IInv, thread # "none", NEW n \in Nat, NEW call \in Calls(n),
           call.by # "stop", w.seq < call.seq,
           NEW opens \in BOOLEAN, NEW o \in Outcomes, NEW rel \in Outcomes
    PROVE  Ran(Run(call, opens, o, rel), call, o)
<1> DEFINE k == call.seq
           r == Run(call, opens, o, rel)
<1>1. k \in Nat /\ call.state \in States
  BY DEF Calls
<1>2. w.seq <= k
  <2>1. w.seq \in Nat
    BY DEF IInv, Types, Transceivers
  <2> QED BY <1>1, <2>1
<1>3. /\ Machine \in Machines(k) /\ Machine.rig = rig
      /\ Machine.w.actual.online = Machine.w.requested.online
      /\ Machine.rig.open = Machine.w.requested.online
  BY <1>1, <1>2, MachineIs, OpenWhileOnline
<1>4. CASE call.by = "start"
  <2>1. r = Start(Machine, k, opens, o, rel)
    BY <1>4 DEF Run
  <2> HIDE DEF r, k
  <2>2. Works(k, Machine, r) /\ r.w.seq = k /\ Keyed(r) /\ (r.rig.txTo => Machine.rig.txTo)
    BY <1>1, <1>3, <2>1, StartIs
  <2> QED BY <1>3, <2>2 DEF Ran, Works, r, k
<1>5. CASE call.by # "start"
  <2>1. r = Set(Machine, call.state, k, opens, o, rel)
    BY <1>5 DEF Run
  <2> HIDE DEF r, k
  <2>2. Works(k, Machine, r) /\ r.w.seq = k /\ PttAsAsked(Machine, r, o, call.state.ptt)
    BY <1>1, <1>3, <2>1, SetIs
  <2> QED BY <1>3, <1>5, <2>2 DEF Ran, Works, PttAsAsked, r, k
<1> QED BY <1>4, <1>5

LEMMA RunCallKeeps ==
    ASSUME IInv, NEW opens \in BOOLEAN, NEW o \in Outcomes, NEW rel \in Outcomes,
           RunCall(opens, o, rel)
    PROVE  IInv' /\ (rig'.txTo => rig.txTo \/ (Head(calls).state.ptt
                                                /\ Head(calls).by \notin {"start", "stop"}))
<1> DEFINE call == Head(calls)
           r == Run(call, opens, o, rel)
<1>1. /\ thread # "none" /\ calls # <<>> /\ calls' = Tail(calls) /\ Become(r)
      /\ thread' = IF call.by = "stop" THEN "quitting" ELSE thread
      /\ UNCHANGED <<desired, seqNum, session, view, guarding, recovery>>
  BY DEF RunCall
<1>2. Shrunk /\ (budget'.misses = Misses => o = Well)
  BY RunCost
<1>3. call = calls[1] /\ call \in Calls(seqNum) /\ 1 \in DOMAIN calls /\ seqNum \in Nat
  BY <1>1, TailIs DEF IInv, Types
<1>4. rig' = r.rig
  BY <1>1 DEF Become
<1>5. CASE call.by = "stop"
  <2> DEFINE n == w.seq
  <2>1. n \in Nat
    BY DEF IInv, Types, Transceivers
  <2>2. r = Shutdown(Machine, rel)
    BY <1>5 DEF Run
  <2> HIDE DEF n, r, call
  <2>3. Machine \in Machines(n) /\ Machine.w = w /\ Machine.rig = rig /\ n <= n
    BY <2>1, MachineIs DEF n
  <2>4. Stopped(n, Machine, r)
    BY <2>1, <2>2, <2>3, ShutdownIs
  <2>5. r \in Machines(n) /\ n = r.w.seq /\ ~r.rig.open /\ (r.rig.txTo => rig.txTo)
        /\ ~r.w.actual.online /\ ~r.w.requested.online
    BY <2>3, <2>4 DEF Stopped, n
  <2>6. r.w.actual.online = r.w.requested.online /\ r.rig.open = r.w.requested.online
    <3>1. r.w \in Transceivers(n) /\ r.rig \in Rigs
      BY <2>5, MachineFields
    <3>2. /\ r.w.actual.online \in BOOLEAN /\ r.w.requested.online \in BOOLEAN
          /\ r.rig.open \in BOOLEAN
      BY <3>1 DEF Transceivers, Rigs, States
    <3> QED BY <2>5, <3>2
  <2>7. Turned(r) /\ thread' = "quitting" /\ Keyed(r)
    BY <1>1, <1>5, <2>5 DEF Turned, Keyed, n, call
  <2>8. IInv'
    BY <1>1, <1>2, <2>1, <2>5, <2>6, <2>7, TurnedKeeps
  <2> QED BY <1>4, <2>5, <2>8
<1>6. CASE call.by # "stop"
  <2> DEFINE n == call.seq
  <2>1. n \in Nat /\ w.seq < n
    <3>1. w.seq < calls[1].seq
      BY <1>3, <1>6 DEF IInv, InOrder
    <3> QED BY <1>3, <3>1 DEF Calls
  <2>2. Ran(r, call, o)
    <3> HIDE DEF call
    <3> QED BY <1>1, <1>3, <1>6, <2>1, RunIs
  <2> HIDE DEF n, r, call
  <2>3. /\ r \in Machines(n) /\ n = r.w.seq /\ Works(n, Machine, r)
        /\ o = Well /\ Keyed(Machine) => Keyed(r)
        /\ r.rig.txTo => rig.txTo \/ (call.by # "start" /\ call.state.ptt)
    BY <2>2 DEF Ran, n
  <2>4. Turned(r)
    BY <1>1, <1>6, <2>3 DEF Turned, call, n
  <2>5. /\ r.w.actual.online = r.w.requested.online /\ r.rig.open = r.w.requested.online
        /\ Ended(r) \/ (r.out = <<>> /\ r.w.requested.online = w.requested.online)
    BY <2>3 DEF Works, Machine
  <2>6. IInv'
    BY <1>1, <1>2, <2>1, <2>3, <2>4, <2>5, TurnedKeeps
  <2> QED BY <1>4, <1>6, <2>3, <2>6 DEF call
<1> QED BY <1>5, <1>6

LEMMA PollKeeps ==
    ASSUME IInv, NEW got \in {"all", "dial", "none"}, NEW rel \in Outcomes, Poll(got, rel)
    PROVE  IInv' /\ (rig'.txTo => rig.txTo)
<1> DEFINE r == HandleTimeout(Machine, got, rel)
           n == w.seq
<1>1. /\ thread = "running" /\ Become(r)
      /\ UNCHANGED <<desired, seqNum, session, view, guarding, recovery, calls, thread>>
  BY DEF Poll
<1>2. Shrunk
  <2> DEFINE cost == Cost(rel) + (IF got = "all" THEN 0 ELSE 1)
  <2>1. Cost(rel) \in {0, 1}
    BY CostIs
  <2>2. cost \in Nat
    BY <2>1
  <2>3. cost <= budget.misses /\ budget' = [budget EXCEPT !.misses = @ - cost]
    BY DEF Poll
  <2> HIDE DEF cost
  <2> QED BY <2>2, <2>3, CostShrinks
<1>3. n \in Nat /\ n <= n
  BY DEF IInv, Types, Transceivers
<1>4. /\ Machine \in Machines(n) /\ Machine.w = w /\ Machine.rig = rig /\ Machine.out = <<>>
      /\ Machine.w.actual.online = Machine.w.requested.online
      /\ Machine.rig.open = Machine.w.requested.online
  <2>1. thread # "none"
    BY <1>1
  <2> QED BY <1>3, <2>1, MachineIs, OpenWhileOnline
<1>5. /\ Works(n, Machine, r) /\ r.w.seq = Machine.w.seq
      /\ r.rig.txTo => Machine.rig.txTo
      /\ Keyed(Machine) => Keyed(r)
  <2> HIDE DEF n
  <2> QED BY <1>3, <1>4, HandleTimeoutIs
<1> HIDE DEF r
<1>6. /\ r \in Machines(n) /\ n = r.w.seq
      /\ r.w.actual.online = r.w.requested.online /\ r.rig.open = r.w.requested.online
      /\ Ended(r) \/ (r.out = <<>> /\ r.w.requested.online = w.requested.online)
      /\ rig' = r.rig
  BY <1>1, <1>4, <1>5 DEF Works, Become
<1>7. Turned(r)
  BY <1>1, <1>6 DEF Turned
<1>8. IInv'
  <2> HIDE DEF n
  <2> QED BY <1>1, <1>2, <1>3, <1>5, <1>6, <1>7, TurnedKeeps
<1> QED BY <1>4, <1>5, <1>6, <1>8

LEMMA BurstKeeps == IInv /\ Burst => IInv' /\ (rig'.txTo => rig.txTo)
<1> SUFFICES ASSUME IInv, Burst PROVE IInv' /\ (rig'.txTo => rig.txTo)
  OBVIOUS
<1> DEFINE r == PollTransmitTelemetry(Machine)
           n == w.seq
<1>1. /\ thread = "running" /\ Become(r) /\ w.bursts > 0
      /\ UNCHANGED <<desired, seqNum, session, view, guarding, recovery, calls, thread, budget>>
  BY DEF Burst
<1>2. Shrunk
  BY <1>1 DEF Shrunk, IInv, Scalars, Budgets
<1>3. n \in Nat /\ n <= n
  BY DEF IInv, Types, Transceivers
<1>4. /\ Machine \in Machines(n) /\ Machine.w = w /\ Machine.rig = rig /\ Machine.out = <<>>
      /\ Machine.w.actual.online = Machine.w.requested.online
      /\ Machine.rig.open = Machine.w.requested.online
  <2>1. thread # "none"
    BY <1>1
  <2> QED BY <1>3, <2>1, MachineIs, OpenWhileOnline
<1>5. /\ Works(n, Machine, r) /\ r.w.seq = Machine.w.seq
      /\ r.rig.txTo => Machine.rig.txTo
      /\ Keyed(Machine) => Keyed(r)
  <2> HIDE DEF n
  <2> QED BY <1>1, <1>3, <1>4, PollTransmitTelemetryIs
<1> HIDE DEF r
<1>6. /\ r \in Machines(n) /\ n = r.w.seq
      /\ r.w.actual.online = r.w.requested.online /\ r.rig.open = r.w.requested.online
      /\ Ended(r) \/ (r.out = <<>> /\ r.w.requested.online = w.requested.online)
      /\ rig' = r.rig
  BY <1>1, <1>4, <1>5 DEF Works, Become
<1>7. Turned(r)
  BY <1>1, <1>6 DEF Turned
<1>8. IInv'
  <2> HIDE DEF n
  <2> QED BY <1>1, <1>2, <1>3, <1>5, <1>6, <1>7, TurnedKeeps
<1> QED BY <1>4, <1>5, <1>6, <1>8

-----------------------------------------------------------------------------
(* The theorems                                                              *)

LEMMA NextKeeps == IInv /\ [Next]_vars => IInv'
<1> SUFFICES ASSUME IInv, [Next]_vars PROVE IInv'
  OBVIOUS
<1>1. CASE Gui
  <2>1. ASSUME NEW there \in BOOLEAN, NEW stale \in BOOLEAN, Connect(there, stale) PROVE IInv'
    BY <2>1, ConnectKeeps
  <2>2. ASSUME NEW how \in {"always", "ifFree"}, NEW there \in BOOLEAN, Reconnect(how, there)
        PROVE  IInv'
    BY <2>2, ReconnectKeeps
  <2>3. ASSUME NEW f \in Dials, SetRigFrequency(f) \/ RestoreRx(f) PROVE IInv'
    BY <2>3, RequestsKeep
  <2>4. ASSUME NEW on \in BOOLEAN, SetRigPtt(on) PROVE IInv'
    <3>1. PICK f \in Dials : TRUE
      BY CatAssumption
    <3> QED BY <2>4, <3>1, RequestsKeep
  <2> QED BY <1>1, <2>1, <2>2, <2>3, <2>4, DisconnectKeeps, RetryTimerKeeps, GuardTimerKeeps,
             ReceiveKeeps DEF Gui
<1>2. CASE Worker
  <2>1. ASSUME NEW opens \in BOOLEAN, NEW o \in Outcomes, NEW rel \in Outcomes,
               RunCall(opens, o, rel)
        PROVE  IInv'
    BY <2>1, RunCallKeeps
  <2>2. ASSUME NEW got \in {"all", "dial", "none"}, NEW rel \in Outcomes, Poll(got, rel)
        PROVE  IInv'
    BY <2>2, PollKeeps
  <2> QED BY <1>2, <2>1, <2>2, FinishKeeps, BurstKeeps DEF Worker
<1>3. CASE Radio
  BY <1>3, RadioActionsKeep
<1>4. CASE UNCHANGED vars
  <2>1. Shrunk /\ Scalars'
    BY <1>4 DEF vars, session, guarding, recovery, Shrunk, IInv, Scalars, Budgets
  <2> QED BY <1>4, <2>1, AsideKeeps DEF vars, session, worker
<1> QED BY <1>1, <1>2, <1>3, <1>4 DEF Next

LEMMA Inductive == Spec => []IInv
  BY InitIInv, NextKeeps, PTL DEF Spec

LEMMA TypesHold == IInv => TypeOK
<1> SUFFICES ASSUME IInv PROVE TypeOK
  OBVIOUS
<1>1. /\ desired \in States /\ seqNum \in Nat
      /\ {present, connecting, connected, disconnecting, reconnectAfter, asked,
          blocked, guard, retryPending} \subseteq BOOLEAN
      /\ due \subseteq {"always", "ifFree"}
      /\ view \in [frequency : Dials \cup {0}, ptt : BOOLEAN]
      /\ retryCount \in 0 .. MaxRetries
      /\ thread \in {"none", "running", "quitting"}
      /\ w \in Transceivers(seqNum) /\ rig \in Rigs
  BY DEF IInv, Scalars, Types
<1>2. \A i \in DOMAIN calls : calls[i] \in Calls(seqNum)
  BY DEF IInv, Types
<1>3. \A i \in DOMAIN reports : reports[i] \in ReportsTo(seqNum)
  <2>1. w.seq \in 0 .. seqNum
    BY <1>1 DEF Transceivers
  <2>2. ReportsTo(w.seq) \subseteq ReportsTo(seqNum)
    BY <1>1, <2>1 DEF ReportsTo
  <2>3. reports \in Seq(ReportsTo(w.seq))
    BY DEF IInv, Types
  <2> QED BY <2>2, <2>3
<1>4. /\ \A i \in DOMAIN calls :
            calls[i] \in [by : {"start", "stop", "frequency", "ptt", "restore"},
                          state : States, seq : 0 .. seqNum]
      /\ \A i \in DOMAIN reports :
            reports[i] \in [kind : {"update", "failure", "pttFailure", "finished"},
                            state : States, seq : 0 .. seqNum]
  BY <1>2, <1>3 DEF Calls, ReportsTo, Kinds
<1>5. /\ w \in [requested : States, actual : States, last : States, next : States,
                signalled : States, seq : 0 .. seqNum, retries : 0 .. PollsToStabilize,
                failures : 0 .. Tolerated - 1, polling : BOOLEAN, fast : BOOLEAN,
                pttOn : BOOLEAN, bursts : 0 .. Bursts]
      /\ rig \in [open : BOOLEAN, dial : Dials, dialTo : Dials, tx : BOOLEAN, txTo : BOOLEAN,
                  mic : BOOLEAN, ours : BOOLEAN, since : 0 .. PollsToStabilize]
  BY <1>1 DEF Transceivers, Rigs
<1> HIDE DEF IInv
<1> QED BY <1>1, <1>4, <1>5 DEF TypeOK

LEMMA AgreementHolds == IInv => AgreeWhenQuiet
<1> SUFFICES ASSUME IInv, calls = <<>>, reports = <<>>, thread # "quitting"
             PROVE  connected <=> thread = "running" /\ w.requested.online
  BY DEF AgreeWhenQuiet
<1>1. NoStop
  BY DEF NoStop
<1>2. CASE thread = "running"
  BY <1>1, <1>2 DEF IInv, Told
<1>3. CASE thread = "none"
  BY <1>3 DEF IInv, OneThread
<1> QED BY <1>2, <1>3 DEF IInv, Types

LEMMA SurvivalHolds == IInv => RequestsSurvive
<1> SUFFICES ASSUME IInv, Sent # {}, ~disconnecting
             PROVE  LET newest == calls[CHOOSE i \in Sent : \A j \in Sent : j <= i].state
                    IN desired.frequency = newest.frequency /\ desired.ptt = newest.ptt
  BY DEF RequestsSurvive, Sent
<1>1. PICK i \in Sent : /\ \A j \in Sent : j <= i
                        /\ desired.frequency = calls[i].state.frequency
                        /\ desired.ptt = calls[i].state.ptt
  BY DEF IInv, Newest
<1>2. \A k \in Sent : (\A j \in Sent : j <= k) => k = i
  <2>1. \A k \in Sent : k \in Nat
    BY DEF Sent, IInv, Types
  <2> QED BY <1>1, <2>1
<1>3. (CHOOSE k \in Sent : \A j \in Sent : j <= k) = i
  BY <1>1, <1>2
<1> QED BY <1>1, <1>3

(* Whatever becomes of the commands, the ports and the sessions, the         *)
(* variables have their types (of the sequence numbers: none in a queue or   *)
(* in the worker is ahead of the manager's), and whenever both queues are    *)
(* empty the manager says connected just when a worker runs and is online.   *)
THEOREM LinkIsSound == Spec => []LinkInv
<1>1. IInv => LinkInv
  BY TypesHold, AgreementHolds DEF LinkInv
<1> QED BY <1>1, Inductive, PTL

(* Whatever becomes of the commands, no report of what the radio did before  *)
(* changes the state the next request is made of.                            *)
THEOREM RequestsAlwaysSurvive == Spec => []RequestsSurvive
  BY Inductive, SurvivalHolds, PTL

(* As long as no command, poll or opening has failed, a PTT keyed in this    *)
(* session is still requested for the worker; a failed release is what can   *)
(* make the worker forget it.                                                *)
THEOREM KeyedIsRememberedUntilAMiss == Spec => [](budget.misses = Misses => KeyedIsRemembered)
<1>1. IInv => (budget.misses = Misses => KeyedIsRemembered)
  BY DEF IInv, KeyedUntilMissed
<1> QED BY <1>1, Inductive, PTL

(* With a radio that never fails, what the manager and the worker know of    *)
(* what was asked of the radio is sound.                                     *)
THEOREM RequestsAreSound ==
    ASSUME Misses = 0
    PROVE  Spec => []RequestInv
<1>1. IInv => RequestInv
  <2>1. IInv => budget.misses = Misses
    BY DEF IInv, Scalars, Budgets
  <2> QED BY <2>1, SurvivalHolds DEF RequestInv, IInv, KeyedUntilMissed
<1> QED BY <1>1, Inductive, PTL

LEMMA GuiLeavesTheRadio == Gui => rig' = rig
<1>1. ASSUME NEW there \in BOOLEAN, NEW stale \in BOOLEAN, ConnectRig(there, stale)
      PROVE  rig' = rig
  BY <1>1 DEF ConnectRig, NewSession, worker
<1>2. \A there, stale \in BOOLEAN : Connect(there, stale) => rig' = rig
  BY <1>1 DEF Connect
<1>3. \A how \in {"always", "ifFree"}, there \in BOOLEAN : Reconnect(how, there) => rig' = rig
  BY <1>1 DEF Reconnect, worker
<1>4. Disconnect \/ RetryTimer \/ GuardTimer \/ Receive => rig' = rig
  BY DEF Disconnect, RetryTimer, GuardTimer, Receive, worker
<1>5. \A f \in Dials, on \in BOOLEAN : SetRigFrequency(f) \/ RestoreRx(f) \/ SetRigPtt(on) => rig' = rig
  BY DEF SetRigFrequency, RestoreRx, SetRigPtt, worker
<1>6. \E f \in Dials : TRUE
  BY CatAssumption
<1> QED BY <1>2, <1>3, <1>4, <1>5, <1>6 DEF Gui

LEMMA KeyedByRequest ==
    ASSUME IInv, [Next]_vars, ~rig.txTo, rig'.txTo
    PROVE  /\ calls # <<>> /\ Head(calls).state.ptt
           /\ Head(calls).by \in IF Inherits THEN {"ptt", "restore"} ELSE {"ptt"}
<1>1. ASSUME NEW opens \in BOOLEAN, NEW o \in Outcomes, NEW rel \in Outcomes,
             RunCall(opens, o, rel)
      PROVE  /\ calls # <<>> /\ Head(calls).state.ptt
             /\ Head(calls).by \in IF Inherits THEN {"ptt", "restore"} ELSE {"ptt"}
  <2>1. calls # <<>> /\ Head(calls).state.ptt /\ Head(calls).by \notin {"start", "stop"}
    BY <1>1, RunCallKeeps DEF RunCall
  <2>2. Head(calls) = calls[1] /\ 1 \in DOMAIN calls /\ calls[1] \in Calls(seqNum)
    BY <2>1, TailIs DEF IInv, Types
  <2>3. calls[1].by \in {"start", "stop", "frequency", "ptt", "restore"}
    BY <2>2 DEF Calls
  <2>4. calls[1].by # "frequency" /\ (calls[1].by = "restore" => Inherits)
    BY <2>1, <2>2 DEF IInv, Posted
  <2> QED BY <2>1, <2>2, <2>3, <2>4
<1>2. rig \in Rigs
  BY DEF IInv, Types
<1>3. ~Gui /\ ~Burst /\ ~UNCHANGED vars
  BY GuiLeavesTheRadio, BurstKeeps DEF vars, worker
<1>4. ~\E got \in {"all", "dial", "none"}, rel \in Outcomes : Poll(got, rel)
  BY PollKeeps
<1>5. ~Finish
  BY <1>2 DEF Finish, Rigs
<1>6. ~Radio
  <2>1. \A f \in Dials : ~Turn(f)
    BY <1>2 DEF Turn, RigStep, Rigs
  <2> QED BY <1>2, <2>1 DEF Radio, Obey, Microphone, TimeOut, RigStep, Rigs
<1> QED BY <1>1, <1>3, <1>4, <1>5, <1>6 DEF Next, Worker

(* Whatever becomes of the commands, the radio is keyed for a request to     *)
(* transmit and for no other, if restoreSatelliteHalfDuplexRx, which sends   *)
(* the PTT reported last, is not used.                                       *)
THEOREM KeyedOnlyWhenAsked ==
    ASSUME ~Inherits
    PROVE  Spec => KeysOnlyWhenAsked
<1>1. IInv /\ [Next]_vars =>
         [~rig.txTo /\ rig'.txTo => Head(calls).by = "ptt" /\ Head(calls).state.ptt]_vars
  BY KeyedByRequest
<1> QED BY <1>1, Inductive, PTL DEF Spec, KeysOnlyWhenAsked

LEMMA ConnectingBegins ==
    ASSUME IInv, [Next]_vars, ~connecting, connecting'
    PROVE  thread = "none"
<1>1. ASSUME NEW there \in BOOLEAN, NEW stale \in BOOLEAN, ConnectRig(there, stale)
      PROVE  thread = "none"
  <2>1. ~present
    BY <1>1 DEF ConnectRig, StopSession
  <2> QED BY <2>1 DEF IInv, OneThread
<1>2. \A there, stale \in BOOLEAN : Connect(there, stale) => thread = "none"
  BY <1>1 DEF Connect
<1>3. \A how \in {"always", "ifFree"}, there \in BOOLEAN : Reconnect(how, there) => thread = "none"
  <2>1. FALSE \in BOOLEAN
    OBVIOUS
  <2> QED BY <1>1, <2>1 DEF Reconnect
<1>4. \A again \in BOOLEAN : ~DisconnectRigInternal(again)
  BY DEF DisconnectRigInternal, StopSession
<1>5. ~Disconnect /\ ~RetryTimer /\ ~GuardTimer
  BY <1>4 DEF Disconnect, RetryTimer, GuardTimer, session
<1>6. ~Receive
  BY DEF Receive, HandleUpdate, HandleFinished, HandleFailure
<1>7. \A f \in Dials, on \in BOOLEAN : ~SetRigFrequency(f) /\ ~RestoreRx(f) /\ ~SetRigPtt(on)
  BY DEF SetRigFrequency, RestoreRx, SetRigPtt, session
<1>8. \E f \in Dials : TRUE
  BY CatAssumption
<1>9. Gui => thread = "none"
  BY <1>2, <1>3, <1>5, <1>6, <1>7, <1>8 DEF Gui
<1>10. ~Worker
  BY DEF Worker, RunCall, Finish, Poll, Burst, session
<1>11. ~Radio /\ ~UNCHANGED vars
  BY DEF Radio, Obey, Turn, Microphone, TimeOut, RigStep, vars, session
<1> QED BY <1>9, <1>10, <1>11 DEF Next

(* However the user, the timers, the reports and the ends of the threads     *)
(* fall together, a session begins only when the thread of the one before    *)
(* has ended.                                                                *)
THEOREM OneSessionAtATime == Spec => OneAfterTheOther
<1>1. IInv /\ [Next]_vars => [~connecting /\ connecting' => thread = "none"]_vars
  BY ConnectingBegins
<1> QED BY <1>1, Inductive, PTL DEF Spec, OneAfterTheOther

-----------------------------------------------------------------------------
(* What the polls tell, while every command and every poll is answered.      *)

(* No change is awaited: what is known has been signalled.                   *)
Caught(x) == x.retries = 0 => x.actual = x.next /\ x.signalled = x.next /\ x.last = x.next

(* The polls granted to a new frequency outlast those in which the radio may *)
(* not have got there.                                                       *)
Awaited(x, r) ==
    r.since < PollsToStabilize =>
       /\ x.retries > 0 => x.retries + r.since >= PollsToStabilize
       /\ r.dial # r.dialTo => x.next.frequency = r.dialTo /\ x.retries > 0

Steady(m) ==
    /\ m.w.polling /\ m.w.requested.online /\ m.w.actual.online /\ m.rig.open
    /\ Caught(m.w) /\ Awaited(m.w, m.rig)

LEMMA WellIs == /\ Well \in Outcomes
                /\ Well.heard = TRUE /\ Well.obeyed = TRUE /\ Well.fatal = FALSE
  BY DEF Well, Outcomes

\* What a transceiver expects, and for how many polls.
LEMMA ExpectedIs ==
    ASSUME NEW n, NEW x \in Transceivers(n), NEW s \in States
    PROVE  LET y == Expect(x, s)
           IN /\ y \in Transceivers(n) /\ y.actual = x.actual /\ y.requested = x.requested
              /\ y.polling = x.polling /\ y.signalled = x.signalled /\ y.last = x.last
              /\ y.next = s
              /\ y.retries = IF s = x.next THEN x.retries ELSE PollsToStabilize
<1> DEFINE v == [x EXCEPT !.next = s]
           z == [v EXCEPT !.retries = PollsToStabilize]
<1>1. /\ v \in Transceivers(n) /\ v.actual = x.actual /\ v.requested = x.requested
      /\ v.polling = x.polling /\ v.signalled = x.signalled /\ v.last = x.last
      /\ v.next = s
  BY DEF Transceivers
<1>2. Expect(x, s) = IF s = x.next THEN x ELSE z
  BY DEF Expect
<1> HIDE DEF v
<1>3. z \in Transceivers(n)
  BY <1>1 DEF Transceivers, PollsToStabilize
<1>4. /\ z.actual = v.actual /\ z.requested = v.requested
      /\ z.polling = v.polling /\ z.signalled = v.signalled /\ z.last = v.last
      /\ z.next = v.next /\ z.retries = PollsToStabilize
  BY <1>1 DEF Transceivers
<1> HIDE DEF z
<1> QED BY <1>1, <1>2, <1>3, <1>4

LEMMA PttSteady ==
    ASSUME NEW n, NEW m \in Machines(n), Steady(m), NEW on \in BOOLEAN
    PROVE  LET r == DoPostPtt(DoPtt(m, on, Well), on)
           IN r \in Machines(n) /\ Steady(r) /\ r.out = m.out
<1> DEFINE a == [m.w.actual EXCEPT !.ptt = on]
           d == DoPtt(m, on, Well)
           bursts == IF on THEN Bursts ELSE m.w.bursts
           x == [m.w EXCEPT !.pttOn = on, !.actual = a, !.bursts = bursts]
           q == [m.rig EXCEPT !.txTo = on, !.ours = on]
           s == [d.w.next EXCEPT !.ptt = on]
           y == Expect(d.w, s)
           fast == IF d.w.next.ptt # on /\ d.w.polling THEN on ELSE y.fast
           z == [y EXCEPT !.fast = fast]
           r == DoPostPtt(d, on)
<1>1. m.w \in Transceivers(n) /\ m.rig \in Rigs /\ m.rig.open = TRUE
  BY MachineFields DEF Steady, Rigs
<1>2. m.w.actual \in States /\ m.w.next \in States
  BY <1>1 DEF Transceivers
<1>3. a \in States /\ a.online = m.w.actual.online
  BY <1>2, PttField
<1>4. q \in Rigs /\ q.open = m.rig.open /\ q.since = m.rig.since
      /\ q.dial = m.rig.dial /\ q.dialTo = m.rig.dialTo
  BY <1>1 DEF Rigs
<1> HIDE DEF a
<1>5. /\ x \in Transceivers(n) /\ x.actual = a /\ x.requested = m.w.requested
      /\ x.polling = m.w.polling /\ x.signalled = m.w.signalled /\ x.last = m.w.last
      /\ x.next = m.w.next /\ x.retries = m.w.retries
  <2>1. bursts \in 0 .. Bursts
    BY <1>1, CatAssumption DEF Transceivers
  <2> HIDE DEF bursts
  <2>2. x \in Transceivers(n)
    BY <1>1, <1>3, <2>1 DEF Transceivers
  <2> QED BY <1>1, <1>3, <2>2 DEF Transceivers
<1>6. d = With(m, x, q)
  <2>1. x = TrackPtt(m.w, on, on)
    BY DEF TrackPtt, a, bursts
  <2>2. q = Order(m.rig, on)
    BY DEF Order
  <2> HIDE DEF x, q
  <2> QED BY <1>1, <2>1, <2>2, WellIs DEF DoPtt, With
<1> HIDE DEF x, q, d
<1>7. d \in Machines(n) /\ d.w = x /\ d.rig = q /\ d.out = m.out
  BY <1>4, <1>5, <1>6, WithFields
<1>8. s \in States /\ (s = m.w.next => m.w.next.ptt = on)
  BY <1>2, <1>5, <1>7, PttField
<1>9. m.w.actual = m.w.next /\ s = m.w.next => a = m.w.next
  BY <1>5, <1>7 DEF a
<1> HIDE DEF s
<1>10. /\ y \in Transceivers(n) /\ y.actual = x.actual /\ y.requested = x.requested
       /\ y.polling = x.polling /\ y.signalled = x.signalled /\ y.last = x.last
       /\ y.next = s
       /\ y.retries = IF s = x.next THEN x.retries ELSE PollsToStabilize
  BY <1>5, <1>7, <1>8, ExpectedIs
<1> HIDE DEF y
<1>11. /\ z \in Transceivers(n) /\ z.actual = y.actual /\ z.requested = y.requested
       /\ z.polling = y.polling /\ z.signalled = y.signalled /\ z.last = y.last
       /\ z.next = y.next /\ z.retries = y.retries
  BY <1>10 DEF Transceivers
<1>12. r = [d EXCEPT !.w = z]
  <2>1. z = ExpectPtt(d.w, on)
    BY DEF ExpectPtt, s, y
  <2> HIDE DEF z
  <2> QED BY <2>1 DEF DoPostPtt
<1> HIDE DEF z, r
<1>13. r \in Machines(n) /\ r.w = z /\ r.rig = q /\ r.out = m.out
  BY <1>7, <1>11, <1>12, MachineFields
<1>14. s.frequency = m.w.next.frequency
  BY <1>2, <1>5, <1>7 DEF s, States
<1>15. Caught(r.w)
  BY <1>5, <1>9, <1>10, <1>11, <1>13 DEF Caught, Steady, PollsToStabilize
<1>16. Awaited(r.w, r.rig)
  <2>1. m.rig.since \in 0 .. PollsToStabilize /\ m.w.retries \in 0 .. PollsToStabilize
    BY <1>1 DEF Rigs, Transceivers
  <2> QED BY <1>4, <1>5, <1>10, <1>11, <1>13, <1>14, <2>1
          DEF Awaited, Steady, PollsToStabilize
<1>17. Steady(r)
  BY <1>3, <1>4, <1>5, <1>10, <1>11, <1>13, <1>15, <1>16 DEF Steady
<1> QED BY <1>13, <1>17 DEF r, d

\* A command that changes the dial: it is expected, or was already.
LEMMA DialSteady ==
    ASSUME NEW n, NEW m \in Machines(n), Steady(m), NEW f \in Dials,
           f # m.w.actual.frequency
    PROVE  LET r == DoPostFrequency(DoFrequency(m, f, Well), f)
           IN /\ r \in Machines(n) /\ Steady(r) /\ r.out = m.out
<1> DEFINE a == [m.w.actual EXCEPT !.frequency = f]
           h == [m.w.requested EXCEPT !.frequency = f]
           x == [m.w EXCEPT !.actual = a, !.requested = h]
           since == IF m.w.next.frequency # f THEN 0 ELSE m.rig.since
           q == [m.rig EXCEPT !.since = since, !.dialTo = f]
           d == DoFrequency(m, f, Well)
           s == [d.w.next EXCEPT !.frequency = f]
           y == Expect(d.w, s)
           r == DoPostFrequency(d, f)
<1>1. m.w \in Transceivers(n) /\ m.rig \in Rigs
  BY MachineFields
<1>2. m.w.actual \in States /\ m.w.next \in States /\ m.w.requested \in States
  BY <1>1 DEF Transceivers
<1>3. /\ a \in States /\ a.online = m.w.actual.online
      /\ h \in States /\ h.online = m.w.requested.online
  BY <1>2, FrequencyField
<1> HIDE DEF a, h
<1>4. /\ x \in Transceivers(n) /\ x.actual = a /\ x.requested = h
      /\ x.polling = m.w.polling /\ x.signalled = m.w.signalled /\ x.last = m.w.last
      /\ x.next = m.w.next /\ x.retries = m.w.retries
  BY <1>1, <1>3 DEF Transceivers
<1>5. since \in 0 .. PollsToStabilize
  BY <1>1 DEF Rigs, PollsToStabilize
<1> HIDE DEF since
<1>6. q \in Rigs /\ q.open = m.rig.open /\ q.since = since
      /\ q.dial = m.rig.dial /\ q.dialTo = f
  BY <1>1, <1>5 DEF Rigs
<1>7. d = With(m, x, q)
  <2>1. x = TrackDial(m.w, f)
    BY DEF TrackDial, a, h
  <2>2. q = Tune(m.rig, f, Well, m.w.next.frequency # f)
    BY WellIs DEF Tune, since
  <2> HIDE DEF x, q
  <2> QED BY <2>1, <2>2, WellIs DEF DoFrequency, With
<1> HIDE DEF x, q, d
<1>8. d \in Machines(n) /\ d.w = x /\ d.rig = q /\ d.out = m.out
  BY <1>4, <1>6, <1>7, WithFields
<1>9. s \in States /\ s.frequency = f
  BY <1>2, <1>4, <1>8, FrequencyField
<1>10. s = m.w.next <=> m.w.next.frequency = f
  BY <1>2, <1>4, <1>8, <1>9 DEF States
<1> HIDE DEF s
<1>11. /\ y \in Transceivers(n) /\ y.actual = x.actual /\ y.requested = x.requested
       /\ y.polling = x.polling /\ y.signalled = x.signalled /\ y.last = x.last
       /\ y.next = s
       /\ y.retries = IF s = x.next THEN x.retries ELSE PollsToStabilize
  BY <1>4, <1>8, <1>9, ExpectedIs
<1>12. r = [d EXCEPT !.w = y]
  BY DEF DoPostFrequency, ExpectDial, s
<1> HIDE DEF y, r
<1>13. r \in Machines(n) /\ r.w = y /\ r.rig = q /\ r.out = m.out
  BY <1>8, <1>11, <1>12, MachineFields
<1>14. y.retries > 0 /\ m.w.retries \in Nat /\ m.rig.since \in Nat
  <2>1. m.w.retries \in 0 .. PollsToStabilize /\ m.rig.since \in 0 .. PollsToStabilize
    BY <1>1 DEF Transceivers, Rigs
  <2>2. m.w.retries = 0 => m.w.next.frequency # f
    BY DEF Steady, Caught
  <2> QED BY <1>4, <1>10, <1>11, <2>1, <2>2 DEF PollsToStabilize
<1>15. Caught(r.w)
  BY <1>13, <1>14 DEF Caught
<1>16. Awaited(r.w, r.rig)
  BY <1>4, <1>6, <1>9, <1>10, <1>11, <1>13, <1>14
     DEF Awaited, Steady, PollsToStabilize, since
<1>17. Steady(r)
  BY <1>3, <1>4, <1>6, <1>11, <1>13, <1>15, <1>16 DEF Steady
<1> QED BY <1>13, <1>17 DEF r, d

LEMMA SetFrequencySteady ==
    ASSUME NEW n \in Nat, NEW m \in Machines(n), Steady(m), NEW f \in Dials \cup {0}
    PROVE  LET r == SetFrequency(m, f, Well)
           IN r \in Machines(n) /\ Steady(r) /\ r.out = m.out
<1> DEFINE Asking(k, g) == [k EXCEPT !.w = [k.w EXCEPT !.requested =
                              [k.w.requested EXCEPT !.frequency = g]]]
           m1 == DoPostFrequency(DoFrequency(m, f, Well), f)
<1>1. ASSUME NEW k \in Machines(n), Steady(k), NEW g \in Dials \cup {0}
      PROVE  Asking(k, g) \in Machines(n) /\ Steady(Asking(k, g)) /\ Asking(k, g).out = k.out
  <2> DEFINE h == [k.w.requested EXCEPT !.frequency = g]
             x == [k.w EXCEPT !.requested = h]
  <2>1. k.w \in Transceivers(n) /\ k.w.requested \in States
    BY <1>1, MachineFields DEF Transceivers
  <2>2. h \in States /\ h.online = k.w.requested.online
    BY <1>1, <2>1 DEF States
  <2> HIDE DEF h
  <2>3. /\ x \in Transceivers(n) /\ x.requested = h /\ x.actual = k.w.actual
        /\ x.polling = k.w.polling /\ x.signalled = k.w.signalled /\ x.last = k.w.last
        /\ x.next = k.w.next /\ x.retries = k.w.retries
    BY <2>1, <2>2 DEF Transceivers
  <2>4. Asking(k, g) = [k EXCEPT !.w = x]
    BY DEF h
  <2> HIDE DEF x, Asking
  <2>5. /\ Asking(k, g) \in Machines(n) /\ Asking(k, g).w = x
        /\ Asking(k, g).rig = k.rig /\ Asking(k, g).out = k.out
    BY <1>1, <2>3, <2>4, MachineFields
  <2> QED BY <1>1, <2>2, <2>3, <2>5 DEF Steady, Caught, Awaited
<1>2. CASE f = 0 \/ (f # m.w.actual.frequency /\ f = m.w.requested.frequency)
  <2>1. SetFrequency(m, f, Well) = m
    BY <1>2 DEF SetFrequency
  <2> QED BY <2>1
<1>3. CASE f # 0 /\ f = m.w.actual.frequency
  <2>1. SetFrequency(m, f, Well) = Asking(m, f)
    BY <1>3 DEF SetFrequency
  <2> HIDE DEF Asking
  <2> QED BY <1>1, <2>1
<1>4. CASE f # 0 /\ f # m.w.actual.frequency /\ f # m.w.requested.frequency
  <2> DEFINE g == m1.w.actual.frequency
  <2>1. SetFrequency(m, f, Well) = Asking(m1, g)
    BY <1>4 DEF SetFrequency
  <2>2. f \in Dials
    BY <1>4
  <2> HIDE DEF Asking
  <2>3. m1 \in Machines(n) /\ Steady(m1) /\ m1.out = m.out
    BY <1>4, <2>2, DialSteady
  <2> HIDE DEF m1
  <2>4. g \in Dials \cup {0}
    <3>1. m1.w \in Transceivers(n)
      BY <2>3, MachineFields
    <3> QED BY <3>1 DEF Transceivers, States
  <2> HIDE DEF g
  <2> QED BY <1>1, <2>1, <2>3, <2>4
<1> QED BY <1>2, <1>3, <1>4

\* A forced report tells what is known.
LEMMA ForcedIs ==
    ASSUME NEW n, NEW m \in Machines(n)
    PROVE  LET r == UpdateComplete(m, TRUE)
           IN /\ r \in Machines(n) /\ r.rig = m.rig
              /\ r.w.actual = m.w.actual /\ r.w.last = m.w.actual
              /\ r.w.requested = m.w.requested /\ r.w.polling = m.w.polling
              /\ r.w.signalled = m.w.signalled /\ r.w.next = m.w.next
              /\ r.w.retries = m.w.retries
              /\ r.out = Append(m.out, Report("update", m.w.actual, m.w.seq))
<1> DEFINE e == Report("update", m.w.actual, m.w.seq)
           q == Append(m.out, e)
           x == [m.w EXCEPT !.last = m.w.actual]
           m1 == [m EXCEPT !.out = q]
           r == [m1 EXCEPT !.w = x]
<1>1. m.w \in Transceivers(n) /\ m.w.actual \in States /\ m.out \in Seq(WorkerReports(n))
  BY MachineFields DEF Transceivers
<1>2. m.w.seq \in 0 .. n
  BY <1>1 DEF Transceivers
<1>3. /\ x \in Transceivers(n) /\ x.actual = m.w.actual /\ x.last = m.w.actual
      /\ x.requested = m.w.requested /\ x.polling = m.w.polling
      /\ x.signalled = m.w.signalled /\ x.next = m.w.next /\ x.retries = m.w.retries
  BY <1>1 DEF Transceivers
<1>4. e \in WorkerReports(n)
  BY <1>1, <1>2 DEF WorkerReports, Kinds, Report
<1> HIDE DEF e, x
<1>5. q \in Seq(WorkerReports(n))
  BY <1>1, <1>4
<1> HIDE DEF q
<1>6. m1 \in Machines(n) /\ m1.out = q /\ m1.rig = m.rig
  BY <1>5, MachineFields
<1> HIDE DEF m1
<1>7. r \in Machines(n) /\ r.out = q /\ r.rig = m.rig /\ r.w = x
  BY <1>3, <1>6, MachineFields
<1>8. UpdateComplete(m, TRUE) = r
  BY <1>6, MachineFields DEF UpdateComplete, m1, q, e, x
<1> HIDE DEF r
<1> QED BY <1>3, <1>7, <1>8 DEF q, e

LEMMA UpdateSteady ==
    ASSUME NEW n, NEW m \in Machines(n), Steady(m)
    PROVE  Steady(UpdateComplete(m, TRUE))
  BY ForcedIs DEF Steady, Caught, Awaited

(* All that is signalled is that the session is there.                       *)
AllTell(r) == \A i \in DOMAIN r.out : Tells(r.out[i])

LEMMA OneTells ==
    ASSUME NEW m, m.out = <<>>, NEW r, NEW s \in States, s.online, NEW k,
           r.out = Append(m.out, Report("update", s, k))
    PROVE  AllTell(r) /\ r.out = <<Report("update", s, k)>>
<1> DEFINE e == Report("update", s, k)
<1>1. e.kind = "update" /\ e.state = s
  BY DEF Report
<1> HIDE DEF e
<1>2. r.out = <<e>>
  BY DEF e
<1>3. Tells(e)
  BY <1>1 DEF Tells
<1> QED BY <1>2, <1>3 DEF AllTell, e

LEMMA SetOnlineSteady ==
    ASSUME NEW n \in Nat, NEW m \in Machines(n), Steady(m), m.out = <<>>,
           NEW s \in States, NEW rel
    PROVE  LET r == SetOnline(m, s, Well, rel)
           IN Steady(r) /\ AllTell(r)
<1> DEFINE off == ~s.ptt /\ m.w.requested.ptt
           on == s.ptt /\ ~m.w.requested.ptt
           a == DoPostPtt(DoPtt(m, FALSE, Well), FALSE)
           m1 == IF off THEN a ELSE m
           m2 == SetFrequency(m1, s.frequency, Well)
           b == DoPostPtt(DoPtt(m2, TRUE, Well), TRUE)
           m4 == IF on THEN b ELSE m2
           x == [m4.w EXCEPT !.requested = [m4.w.requested EXCEPT !.ptt = m4.w.actual.ptt]]
           m5 == IF on \/ off THEN [m4 EXCEPT !.w = x] ELSE m4
           r == SetOnline(m, s, Well, rel)
<1>1. s.frequency \in Dials \cup {0}
  BY DEF States
<1>2. a \in Machines(n) /\ Steady(a) /\ a.out = <<>>
  BY PttSteady
<1>3. r = UpdateComplete(m5, TRUE)
  BY WellIs DEF SetOnline
<1> HIDE DEF a
<1>4. m1 \in Machines(n) /\ Steady(m1) /\ m1.out = <<>>
  BY <1>2
<1> HIDE DEF m1
<1>5. m2 \in Machines(n) /\ Steady(m2) /\ m2.out = <<>>
  BY <1>1, <1>4, SetFrequencySteady
<1> HIDE DEF m2
<1>6. b \in Machines(n) /\ Steady(b) /\ b.out = <<>>
  BY <1>5, PttSteady
<1> HIDE DEF b
<1>7. m4 \in Machines(n) /\ Steady(m4) /\ m4.out = <<>>
  BY <1>5, <1>6
<1> HIDE DEF m4, r
<1>8. m5 \in Machines(n) /\ Steady(m5) /\ m5.out = <<>>
  <2> DEFINE h == [m4.w.requested EXCEPT !.ptt = m4.w.actual.ptt]
             k == [m4 EXCEPT !.w = x]
  <2>1. /\ m4.w \in Transceivers(n) /\ m4.w.requested \in States
        /\ m4.w.actual.ptt \in BOOLEAN
    BY <1>7, MachineFields DEF Transceivers, States
  <2>2. h \in States /\ h.online = m4.w.requested.online
    BY <2>1, PttField
  <2> HIDE DEF h
  <2>3. /\ x \in Transceivers(n) /\ x.requested = h /\ x.actual = m4.w.actual
        /\ x.polling = m4.w.polling /\ x.signalled = m4.w.signalled /\ x.last = m4.w.last
        /\ x.next = m4.w.next /\ x.retries = m4.w.retries
    BY <2>1, <2>2 DEF Transceivers, h
  <2> HIDE DEF x
  <2>4. k \in Machines(n) /\ k.w = x /\ k.rig = m4.rig /\ k.out = m4.out
    BY <1>7, <2>3, MachineFields
  <2> HIDE DEF k
  <2>5. Steady(k)
    BY <1>7, <2>2, <2>3, <2>4 DEF Steady, Caught, Awaited
  <2> QED BY <1>7, <2>4, <2>5 DEF k
<1> HIDE DEF m5
<1>9. /\ Steady(r) /\ r.out = Append(m5.out, Report("update", m5.w.actual, m5.w.seq))
  BY <1>3, <1>8, ForcedIs, UpdateSteady
<1>10. m5.w.actual \in States /\ m5.w.actual.online
  BY <1>8, MachineFields DEF Transceivers, Steady
<1>11. AllTell(r)
  <2> DEFINE t == m5.w.actual
             k == m5.w.seq
  <2>1. /\ m5.out = <<>> /\ t \in States /\ t.online
        /\ r.out = Append(m5.out, Report("update", t, k))
    BY <1>8, <1>9, <1>10
  <2> HIDE DEF t, k
  <2> QED BY <2>1, OneTells, Zenon
<1> QED BY <1>9, <1>11 DEF r

LEMMA SetSteady ==
    ASSUME NEW n \in Nat, NEW m \in Machines(n), Steady(m), m.out = <<>>,
           NEW s \in States, s.online, NEW rel
    PROVE  LET r == Set(m, s, n, TRUE, Well, rel)
           IN Steady(r) /\ AllTell(r)
<1> DEFINE x == [m.w EXCEPT !.seq = n]
           m0 == [m EXCEPT !.w = x]
<1>1. /\ m.w \in Transceivers(n) /\ m.w.seq \in 0 .. n
      /\ m.w.requested.online \in BOOLEAN /\ s.online \in BOOLEAN
  BY MachineFields DEF Transceivers, States
<1>2. /\ x \in Transceivers(n) /\ x.requested = m.w.requested /\ x.actual = m.w.actual
      /\ x.polling = m.w.polling /\ x.signalled = m.w.signalled /\ x.last = m.w.last
      /\ x.next = m.w.next /\ x.retries = m.w.retries
  BY <1>1 DEF Transceivers
<1> HIDE DEF x
<1>3. m0 \in Machines(n) /\ m0.w = x /\ m0.rig = m.rig /\ m0.out = m.out
  BY <1>2, MachineFields
<1>4. Set(m, s, n, TRUE, Well, rel) = SetOnline(m0, s, Well, rel)
  <2>1. ~(n < m.w.seq) /\ s.online = m.w.requested.online
    BY <1>1 DEF Steady
  <2>2. m0.w.requested.online
    BY <1>2, <1>3 DEF Steady
  <2>3. m0 = [m EXCEPT !.w.seq = n]
    BY DEF x
  <2> HIDE DEF m0
  <2> QED BY <2>1, <2>2, <2>3 DEF Set
<1> HIDE DEF m0
<1>5. Steady(m0)
  BY <1>2, <1>3 DEF Steady, Caught, Awaited
<1> QED BY <1>3, <1>4, <1>5, SetOnlineSteady

\* A transceiver just made, brought up: it expects to be online.
LEMMA StartSteady ==
    ASSUME NEW n \in Nat, NEW m \in Machines(n), m.w = NewTransceiver, m.out = <<>>,
           NEW rel
    PROVE  LET r == Start(m, n, TRUE, Well, rel)
           IN Steady(r) /\ AllTell(r)
<1> DEFINE up == [Idle EXCEPT !.online = TRUE]
           tuned == [up EXCEPT !.frequency = m.rig.dial]
           on == m.rig.tx \/ m.rig.mic
           heard == [tuned EXCEPT !.ptt = on]
           x0 == [m.w EXCEPT !.seq = n]
           m0 == [m EXCEPT !.w = x0]
           x1 == Halted(x0)
           m1 == With(m0, x1, Closed(m.rig))
           x2 == BroughtUp(x1)
           m2 == [m1 EXCEPT !.w = x2]
           x3 == Started(x2, m.rig.dial, on)
           q == Opened(Closed(m.rig), Well)
           m3 == With(m2, x3, q)
           r == Start(m, n, TRUE, Well, rel)
<1>1. m.rig \in Rigs /\ m.rig.dial \in Dials /\ on \in BOOLEAN
  BY MachineFields DEF Rigs
<1> HIDE DEF on
<1>2. /\ up \in States /\ up.online /\ ~up.ptt
      /\ tuned \in States /\ tuned.online /\ ~tuned.ptt
      /\ heard \in States /\ heard.online
  <2>1. up \in States /\ up.online /\ ~up.ptt
    BY IdleIs, OnlineField
  <2> HIDE DEF up
  <2>2. tuned \in States /\ tuned.online /\ ~tuned.ptt
    BY <1>1, <2>1, FrequencyField
  <2> HIDE DEF tuned
  <2>3. heard \in States /\ heard.online
    BY <1>1, <2>2, PttField
  <2> QED BY <2>1, <2>2, <2>3
<1>3. /\ m.w \in Transceivers(n) /\ m.w.requested = Idle /\ m.w.actual = Idle
      /\ m.w.last = Idle /\ m.w.next = Idle /\ m.w.retries = 0
  BY MachineFields DEF NewTransceiver
<1>4. /\ x0 \in Transceivers(n) /\ x0.requested = Idle /\ x0.actual = Idle
      /\ x0.last = Idle /\ x0.next = Idle /\ x0.retries = 0
  BY <1>3 DEF Transceivers
<1>5. /\ x1 \in Transceivers(n) /\ x1.requested = Idle /\ x1.actual = Idle
      /\ x1.last = Idle /\ x1.next = Idle /\ x1.retries = 0
  <2> HIDE DEF x0
  <2> QED BY <1>4, IdleIs DEF Transceivers, Halted
<1>6. m0 \in Machines(n) /\ m0.w = x0 /\ m0.rig = m.rig /\ m0.out = <<>>
  <2> HIDE DEF x0
  <2> QED BY <1>4, MachineFields
<1> HIDE DEF x1, x0
<1>7. /\ Closed(m.rig) \in Rigs /\ Closed(m.rig).dial = m.rig.dial
      /\ q \in Rigs /\ q.open /\ q.since = PollsToStabilize
  <2> DEFINE c == Closed(m.rig)
  <2>1. c \in Rigs /\ c.dial = m.rig.dial
    BY <1>1 DEF Rigs, Closed
  <2> HIDE DEF c
  <2> DEFINE o == [c EXCEPT !.open = TRUE, !.ours = FALSE, !.txTo = FALSE]
             p == [o EXCEPT !.since = PollsToStabilize]
  <2>2. o \in Rigs /\ o.open
    BY <2>1 DEF Rigs
  <2>3. q = p
    BY WellIs DEF Opened, c
  <2> HIDE DEF o
  <2>4. p \in Rigs /\ p.open /\ p.since = PollsToStabilize
    BY <2>2 DEF Rigs, PollsToStabilize
  <2> QED BY <2>1, <2>3, <2>4 DEF c
<1>8. m1 \in Machines(n) /\ m1.w = x1 /\ m1.rig = Closed(m.rig) /\ m1.out = <<>>
  <2> HIDE DEF m0
  <2> QED BY <1>5, <1>6, <1>7, WithFields
<1>9. Shutdown(m0, rel) = m1
  <2>1. ~m0.w.requested.online
    BY <1>4, <1>6, IdleIs
  <2>2. [m0 EXCEPT !.w = Halted(@), !.rig = Closed(@)] = m1
    <3> HIDE DEF m0
    <3> QED BY <1>6 DEF With, x1
  <2>3. UpdateComplete(m1, FALSE) = m1
    <3> HIDE DEF m1
    <3> QED BY <1>5, <1>8 DEF UpdateComplete
  <2> HIDE DEF m0, m1
  <2> QED BY <2>1, <2>2, <2>3 DEF Shutdown
<1>10. m0 = [m EXCEPT !.w.seq = n]
  BY DEF x0
<1> HIDE DEF m0, m1
<1>11. /\ x2 \in Transceivers(n) /\ x2.requested = up /\ x2.actual = up
       /\ x2.next = Idle /\ x2.retries = 0
  BY <1>2, <1>5 DEF Transceivers, BroughtUp
<1> HIDE DEF x2
<1>12. m2 \in Machines(n) /\ m2.w = x2 /\ m2.rig = Closed(m.rig) /\ m2.out = <<>>
  BY <1>8, <1>11, MachineFields
<1> HIDE DEF m2
<1>13. /\ x3 \in Transceivers(n) /\ x3.requested = tuned /\ x3.actual = heard
       /\ x3.polling /\ x3.retries = PollsToStabilize
  <2> DEFINE t == TrackDial(x2, m.rig.dial)
             j == [t EXCEPT !.pttOn = on, !.actual = heard, !.polling = TRUE]
             l == [j EXCEPT !.next = up]
             k == [l EXCEPT !.retries = PollsToStabilize]
  <2>1. /\ t \in Transceivers(n) /\ t.requested = tuned /\ t.actual = tuned
        /\ t.next = Idle
    <3> HIDE DEF tuned
    <3> QED BY <1>2, <1>11 DEF Transceivers, TrackDial, tuned
  <2>2. x3 = k
    <3> HIDE DEF up, tuned
    <3>1. [t.actual EXCEPT !.ptt = on] = heard
      BY <2>1
    <3>2. ~x2.next.online /\ [t.next EXCEPT !.online = TRUE] = up
      BY <1>11, <2>1, IdleIs DEF up
    <3> HIDE DEF t
    <3> HIDE DEF heard
    <3> QED BY <3>1, <3>2, <2>1 DEF Started, t
  <2> HIDE DEF t, up, tuned, heard, x3
  <2>3. j \in Transceivers(n) /\ j.requested = tuned /\ j.actual = heard /\ j.polling
    BY <1>1, <1>2, <2>1 DEF Transceivers
  <2> HIDE DEF j
  <2>4. l \in Transceivers(n) /\ l.requested = tuned /\ l.actual = heard /\ l.polling
    BY <1>2, <2>3 DEF Transceivers
  <2> HIDE DEF l
  <2>5. k \in Transceivers(n)
    BY <2>4 DEF Transceivers, PollsToStabilize
  <2>6. /\ k.requested = tuned /\ k.actual = heard /\ k.polling
        /\ k.retries = PollsToStabilize
    BY <2>4 DEF Transceivers
  <2> HIDE DEF k
  <2> QED BY <2>2, <2>5, <2>6
<1> HIDE DEF x3, q
<1>14. m3 \in Machines(n) /\ m3.w = x3 /\ m3.rig = q /\ m3.out = <<>>
  BY <1>7, <1>12, <1>13, WithFields
<1>15. r = UpdateComplete(m3, TRUE)
  <2>1. Startup(m1, TRUE, Well, rel) = DoStart(m2, Well)
    BY <1>8 DEF Startup, m2, x2
  <2>2. DoStart(m2, Well) = m3
    BY <1>7, <1>12 DEF DoStart, With, x3, q, on, Closed
  <2> QED BY <1>9, <1>10, <2>1, <2>2 DEF Start
<1> HIDE DEF m3, r, up, tuned, heard
<1>16. Steady(m3)
  BY <1>2, <1>7, <1>13, <1>14 DEF Steady, Caught, Awaited, PollsToStabilize
<1>17. Steady(r) /\ r.out = Append(m3.out, Report("update", heard, m3.w.seq))
  BY <1>13, <1>14, <1>15, <1>16, ForcedIs, UpdateSteady
<1>18. AllTell(r)
  <2> DEFINE k == m3.w.seq
  <2>1. /\ m3.out = <<>> /\ heard \in States /\ heard.online
        /\ r.out = Append(m3.out, Report("update", heard, k))
    BY <1>2, <1>14, <1>17
  <2> HIDE DEF k
  <2> QED BY <2>1, OneTells, Zenon
<1> QED BY <1>17, <1>18 DEF r

(* A poll answered.  It reports another dial than the one commanded only     *)
(* when the polls granted to that are over.                                  *)
LEMMA PollSteady ==
    ASSUME NEW n \in Nat, NEW m \in Machines(n), Steady(m), m.out = <<>>, NEW rel
    PROVE  LET r == HandleTimeout(m, "all", rel)
           IN /\ Steady(r) /\ AllTell(r)
              /\ r.rig.since < PollsToStabilize /\ r.rig.dial # r.rig.dialTo => r.out = <<>>
<1> DEFINE p == DoPoll(m, "all")
           x == [p.w EXCEPT !.failures = 0]
           q == Polled(m.rig, Receiving(m.w))
           read == With(p, x, q)
           st == [x EXCEPT !.retries = 0, !.next = x.actual, !.signalled = x.actual]
           told == [read EXCEPT !.w = st]
           wait == [x EXCEPT !.retries = IF x.retries > 0 THEN x.retries - 1 ELSE 0]
           left == [read EXCEPT !.w = wait]
           r == HandleTimeout(m, "all", rel)
<1>1. m.w \in Transceivers(n) /\ m.rig \in Rigs
  BY MachineFields
<1>2. /\ p \in Machines(n) /\ p.rig = m.rig /\ p.out = m.out
      /\ p.w.actual.online = m.w.actual.online
      /\ p.w.requested.online = m.w.requested.online
  BY DoPollIs DEF Quiet
<1>3. /\ p.w.polling = m.w.polling /\ p.w.signalled = m.w.signalled
      /\ p.w.last = m.w.last /\ p.w.next = m.w.next /\ p.w.retries = m.w.retries
      /\ Receiving(m.w) => p.w.actual.frequency = m.rig.dial
  <2> DEFINE on == m.rig.tx \/ m.rig.mic
             t == TrackDial(m.w, m.rig.dial)
             v == IF Receiving(m.w) THEN t ELSE m.w
             z == TrackPtt(v, on, FALSE)
             k == [m EXCEPT !.w = t]
             m1 == IF Receiving(m.w) THEN k ELSE m
  <2>1. /\ t \in Transceivers(n) /\ t.polling = m.w.polling /\ t.signalled = m.w.signalled
        /\ t.last = m.w.last /\ t.next = m.w.next /\ t.retries = m.w.retries
        /\ t.actual.frequency = m.rig.dial
    <3>1. m.rig.dial \in Dials
      BY <1>1 DEF Rigs
    <3>2. t \in Transceivers(n)
      BY <1>1, <3>1, TrackDialIs
    <3>3. m.w.actual \in States
      BY <1>1 DEF Transceivers
    <3>4. [m.w.actual EXCEPT !.frequency = m.rig.dial].frequency = m.rig.dial
      BY <3>3 DEF States
    <3>5. /\ t.polling = m.w.polling /\ t.signalled = m.w.signalled
          /\ t.last = m.w.last /\ t.next = m.w.next /\ t.retries = m.w.retries
          /\ t.actual = [m.w.actual EXCEPT !.frequency = m.rig.dial]
      BY <1>1 DEF TrackDial, Transceivers
    <3> QED BY <3>2, <3>4, <3>5
  <2> HIDE DEF t
  <2>2. k \in Machines(n) /\ k.w = t
    BY <2>1, MachineFields
  <2>3. /\ v \in Transceivers(n) /\ v.polling = m.w.polling /\ v.signalled = m.w.signalled
        /\ v.last = m.w.last /\ v.next = m.w.next /\ v.retries = m.w.retries
        /\ Receiving(m.w) => v.actual.frequency = m.rig.dial
    BY <1>1, <2>1
  <2>4. p.w = z
    <3>1. m1 \in Machines(n) /\ m1.w = v
      BY <2>2
    <3>2. p = [m1 EXCEPT !.w = TrackPtt(@, on, FALSE)]
      BY DEF DoPoll, t
    <3> HIDE DEF m1, v, on, p
    <3> QED BY <3>1, <3>2 DEF Machines
  <2> HIDE DEF v, on
  <2>5. v.actual \in States
    BY <2>3 DEF Transceivers
  <2>6. [v.actual EXCEPT !.ptt = on].frequency = v.actual.frequency
    BY <2>5 DEF States
  <2>7. /\ z.polling = v.polling /\ z.signalled = v.signalled
        /\ z.last = v.last /\ z.next = v.next /\ z.retries = v.retries
        /\ z.actual = [v.actual EXCEPT !.ptt = on]
    BY <2>3 DEF TrackPtt, Transceivers
  <2> HIDE DEF z, p
  <2> QED BY <2>3, <2>4, <2>6, <2>7
<1> HIDE DEF p
<1>4. /\ x \in Transceivers(n) /\ x.requested = p.w.requested /\ x.actual = p.w.actual
      /\ x.polling = p.w.polling /\ x.signalled = p.w.signalled /\ x.last = p.w.last
      /\ x.next = p.w.next /\ x.retries = p.w.retries
  <2> DEFINE zero == 0
  <2>1. p.w \in Transceivers(n)
    BY <1>2, MachineFields
  <2>2. zero \in 0 .. Tolerated - 1
    BY CatAssumption
  <2>3. x = [p.w EXCEPT !.failures = zero]
    OBVIOUS
  <2> HIDE DEF zero, x
  <2>4. x \in Transceivers(n)
    BY <2>1, <2>2, <2>3 DEF Transceivers
  <2> QED BY <2>1, <2>3, <2>4 DEF Transceivers
<1>5. /\ q \in Rigs /\ q.open = m.rig.open /\ q.dial = m.rig.dial /\ q.dialTo = m.rig.dialTo
      /\ q.since = IF Receiving(m.w) /\ m.rig.since < PollsToStabilize
                   THEN m.rig.since + 1 ELSE PollsToStabilize
  <2> DEFINE since == IF Receiving(m.w) /\ m.rig.since < PollsToStabilize
                      THEN m.rig.since + 1 ELSE PollsToStabilize
  <2>1. since \in 0 .. PollsToStabilize
    BY <1>1 DEF Rigs, PollsToStabilize
  <2>2. q = [m.rig EXCEPT !.since = since]
    BY DEF Polled
  <2> HIDE DEF since
  <2>3. /\ q \in Rigs /\ q.open = m.rig.open /\ q.dial = m.rig.dial
        /\ q.dialTo = m.rig.dialTo /\ q.since = since
    BY <1>1, <2>1, <2>2 DEF Rigs
  <2> QED BY <2>3 DEF since
<1> HIDE DEF x, q
<1>6. read \in Machines(n) /\ read.w = x /\ read.rig = q /\ read.out = <<>>
  BY <1>2, <1>4, <1>5, WithFields
<1>7. r = IF Signals(x) THEN UpdateComplete(told, TRUE) ELSE left
  <2>1. read = [p EXCEPT !.w = [@ EXCEPT !.failures = 0], !.rig = Polled(@, Receiving(m.w))]
    BY <1>2 DEF With, x, q
  <2>2. told = [read EXCEPT !.w = Stable(@)]
    BY <1>6 DEF Stable
  <2>3. left = [read EXCEPT !.w.retries = IF @ > 0 THEN @ - 1 ELSE 0]
    BY <1>6
  <2>4. LET s == [p EXCEPT !.w = [@ EXCEPT !.failures = 0], !.rig = Polled(@, Receiving(m.w))]
        IN r = IF Signals(s.w) THEN UpdateComplete([s EXCEPT !.w = Stable(@)], TRUE)
               ELSE [s EXCEPT !.w.retries = IF @ > 0 THEN @ - 1 ELSE 0]
    <3> DEFINE u == IF "all" = "none" THEN m ELSE DoPoll(m, "all")
               s == [u EXCEPT !.w = [@ EXCEPT !.failures = 0], !.rig = Polled(@, Receiving(m.w))]
               t == IF Signals(s.w) THEN UpdateComplete([s EXCEPT !.w = Stable(@)], TRUE)
                    ELSE [s EXCEPT !.w.retries = IF @ > 0 THEN @ - 1 ELSE 0]
               y == IF m.w.failures + 1 < Tolerated THEN [u EXCEPT !.w.failures = @ + 1]
                    ELSE Offline([u EXCEPT !.w.failures = 0], "failure", rel)
    <3>1. r = IF "all" = "all" THEN t ELSE y
      BY DEF HandleTimeout, r
    <3>2. r = t
      <4> HIDE DEF t, y, r
      <4> QED BY <3>1
    <3>3. u = p
      BY DEF p
    <3> HIDE DEF u, r
    <3> QED BY <3>2, <3>3
  <2> HIDE DEF told, left, read, r
  <2>5. r = IF Signals(read.w) THEN UpdateComplete([read EXCEPT !.w = Stable(@)], TRUE)
            ELSE [read EXCEPT !.w.retries = IF @ > 0 THEN @ - 1 ELSE 0]
    BY <2>1, <2>4
  <2> QED BY <1>6, <2>2, <2>3, <2>5
<1> HIDE DEF read, r
<1>8. /\ m.w.retries \in 0 .. PollsToStabilize /\ m.rig.since \in 0 .. PollsToStabilize
      /\ x.retries = m.w.retries
  BY <1>1, <1>3, <1>4 DEF Transceivers, Rigs
<1>9. q.since < PollsToStabilize /\ q.dial # q.dialTo => ~Signals(x)
  BY <1>3, <1>4, <1>5, <1>8 DEF Steady, Awaited, Signals, PollsToStabilize
<1>10. CASE Signals(x)
  <2>1. x.actual \in States
    BY <1>4 DEF Transceivers
  <2>2. /\ st \in Transceivers(n) /\ st.requested = x.requested /\ st.actual = x.actual
        /\ st.polling = x.polling /\ st.signalled = x.actual
        /\ st.next = x.actual /\ st.retries = 0
    <3> DEFINE v == [x EXCEPT !.retries = 0]
               u == [v EXCEPT !.next = x.actual]
    <3>1. /\ v \in Transceivers(n) /\ v.requested = x.requested /\ v.actual = x.actual
          /\ v.polling = x.polling /\ v.retries = 0
      BY <1>4 DEF Transceivers, PollsToStabilize
    <3>2. st = [u EXCEPT !.signalled = x.actual]
      OBVIOUS
    <3> HIDE DEF v, st
    <3>3. /\ u \in Transceivers(n) /\ u.requested = x.requested /\ u.actual = x.actual
          /\ u.polling = x.polling /\ u.retries = 0 /\ u.next = x.actual
      BY <2>1, <3>1 DEF Transceivers
    <3> HIDE DEF u
    <3> QED BY <2>1, <3>2, <3>3 DEF Transceivers
  <2> HIDE DEF st
  <2>3. told \in Machines(n) /\ told.w = st /\ told.rig = q /\ told.out = <<>>
    BY <1>6, <2>2, MachineFields
  <2> HIDE DEF told, left, wait
  <2>3a. r = UpdateComplete(told, TRUE)
    BY <1>7, <1>10
  <2>3b. /\ r.rig = told.rig /\ r.w.actual = told.w.actual /\ r.w.last = told.w.actual
         /\ r.w.requested = told.w.requested /\ r.w.polling = told.w.polling
         /\ r.w.signalled = told.w.signalled /\ r.w.next = told.w.next
         /\ r.w.retries = told.w.retries
         /\ r.out = Append(told.out, Report("update", told.w.actual, told.w.seq))
    <3>1. told \in Machines(n)
      BY <2>3
    <3> QED BY <2>3a, <3>1, ForcedIs, Zenon
  <2>4. /\ r.rig = q /\ r.w.actual = x.actual /\ r.w.last = x.actual
        /\ r.w.requested = x.requested /\ r.w.polling = x.polling
        /\ r.w.signalled = x.actual /\ r.w.next = x.actual /\ r.w.retries = 0
        /\ r.out = Append(told.out, Report("update", x.actual, told.w.seq))
    BY <2>2, <2>3, <2>3b
  <2>5. Steady(r)
    <3>1. Caught(r.w)
      BY <2>4 DEF Caught
    <3>2. ~(q.since < PollsToStabilize /\ q.dial # q.dialTo)
      BY <1>9, <1>10
    <3>3. Awaited(r.w, r.rig)
      BY <2>4, <3>2 DEF Awaited
    <3> QED BY <1>2, <1>3, <1>4, <1>5, <2>4, <3>1, <3>3 DEF Steady
  <2>6. x.actual.online
    BY <1>2, <1>4 DEF Steady
  <2>7. AllTell(r)
    <3> DEFINE a == x.actual
               k == told.w.seq
    <3>1. /\ told.out = <<>> /\ a \in States /\ a.online
          /\ r.out = Append(told.out, Report("update", a, k))
      BY <2>1, <2>3, <2>4, <2>6
    <3> HIDE DEF a, k
    <3> QED BY <3>1, OneTells, Zenon
  <2> QED BY <1>9, <1>10, <2>4, <2>5, <2>7 DEF r
<1>11. CASE ~Signals(x)
  <2> DEFINE k == IF x.retries > 0 THEN x.retries - 1 ELSE 0
  <2>1. k \in 0 .. PollsToStabilize
    BY <1>8 DEF PollsToStabilize
  <2>2. /\ wait \in Transceivers(n) /\ wait.requested = x.requested
        /\ wait.actual = x.actual /\ wait.polling = x.polling
        /\ wait.signalled = x.signalled /\ wait.last = x.last
        /\ wait.next = x.next /\ wait.retries = k
    <3> HIDE DEF k
    <3>1. wait = [x EXCEPT !.retries = k]
      BY DEF k
    <3> HIDE DEF wait
    <3> QED BY <1>4, <2>1, <3>1 DEF Transceivers
  <2> HIDE DEF wait
  <2>3. left \in Machines(n) /\ left.w = wait /\ left.rig = q /\ left.out = <<>>
    BY <1>6, <2>2, MachineFields
  <2>4. r = left
    BY <1>7, <1>11
  <2> HIDE DEF left
  <2>5. Caught(r.w)
    BY <1>3, <1>4, <1>8, <1>11, <2>2, <2>3, <2>4
       DEF Steady, Caught, Signals, PollsToStabilize
  <2>6. Awaited(r.w, r.rig)
    BY <1>3, <1>4, <1>5, <1>8, <1>11, <2>2, <2>3, <2>4
       DEF Steady, Awaited, Signals, PollsToStabilize
  <2>7. Steady(r)
    BY <1>2, <1>3, <1>4, <1>5, <2>2, <2>3, <2>4, <2>5, <2>6 DEF Steady
  <2>8. r.out = <<>> /\ AllTell(r)
    BY <2>3, <2>4 DEF AllTell
  <2> QED BY <2>7, <2>8 DEF r
<1> QED BY <1>10, <1>11

LEMMA BurstSteady ==
    ASSUME NEW n \in Nat, NEW m \in Machines(n), Steady(m), m.out = <<>>, m.w.bursts > 0
    PROVE  LET r == PollTransmitTelemetry(m)
           IN Steady(r) /\ AllTell(r)
<1> DEFINE x == [m.w EXCEPT !.bursts = m.w.bursts - 1]
           m1 == [m EXCEPT !.w = x]
           r == PollTransmitTelemetry(m)
<1>1. m.w \in Transceivers(n)
  BY MachineFields
<1>2. m.w.bursts - 1 \in 0 .. Bursts
  <2>1. m.w.bursts \in 0 .. Bursts
    BY <1>1 DEF Transceivers
  <2> QED BY <2>1, CatAssumption
<1>3. /\ x \in Transceivers(n) /\ x.requested = m.w.requested /\ x.actual = m.w.actual
      /\ x.polling = m.w.polling /\ x.signalled = m.w.signalled /\ x.last = m.w.last
      /\ x.next = m.w.next /\ x.retries = m.w.retries
  BY <1>1, <1>2 DEF Transceivers
<1> HIDE DEF x
<1>4. m1 \in Machines(n) /\ m1.w = x /\ m1.rig = m.rig /\ m1.out = <<>>
  BY <1>3, MachineFields
<1>5. r = UpdateComplete(m1, TRUE)
  BY DEF PollTransmitTelemetry, x
<1> HIDE DEF m1, r
<1>6. Steady(m1)
  BY <1>3, <1>4 DEF Steady, Caught, Awaited
<1>7. /\ Steady(r) /\ r.out = Append(m1.out, Report("update", m1.w.actual, m1.w.seq))
  BY <1>4, <1>5, <1>6, ForcedIs, UpdateSteady
<1>8. m1.w.actual \in States /\ m1.w.actual.online
  BY <1>4, <1>6, MachineFields DEF Transceivers, Steady
<1>9. AllTell(r)
  <2> DEFINE t == m1.w.actual
             k == m1.w.seq
  <2>1. /\ m1.out = <<>> /\ t \in States /\ t.online
        /\ r.out = Append(m1.out, Report("update", t, k))
    BY <1>4, <1>7, <1>8
  <2> HIDE DEF t, k
  <2> QED BY <2>1, OneTells, Zenon
<1> QED BY <1>7, <1>9 DEF r

-----------------------------------------------------------------------------
(* The manager, the worker and the queues, until something is missed.        *)

(* The start of the session is the first call, still to be run.              *)
Fresh == calls # <<>> /\ calls[1].by = "start"

StartsFirst == \A i \in DOMAIN calls : calls[i].by = "start" => i = 1

Alert == thread = "running" => IF Fresh THEN w = NewTransceiver ELSE Steady(Machine)

StopComes == thread = "running" /\ disconnecting => ~NoStop

AsksOnline ==
    thread = "running" =>
       \A i \in Sent : (\A j \in 1 .. i - 1 : calls[j].by # "stop") => calls[i].state.online

StaysOnline ==
    present /\ ~disconnecting => desired.online /\ \A i \in DOMAIN reports : Tells(reports[i])

PInv == StartsFirst /\ Alert /\ StopComes /\ AsksOnline /\ StaysOnline

LEMMA InitPInv == Init => PInv
  BY DEF Init, PInv, StartsFirst, Alert, StopComes, AsksOnline, StaysOnline

(* The queue of calls and the worker are left alone.                         *)
LEMMA AsideSteady ==
    ASSUME PInv, UNCHANGED <<calls, thread, w, rig>>, disconnecting' => disconnecting \/ thread = "none",
           StaysOnline'
    PROVE  PInv'
<1>1. StartsFirst' /\ AsksOnline'
  BY DEF PInv, StartsFirst, AsksOnline, Sent
<1>2. StopComes'
  BY DEF PInv, StopComes, NoStop
<1>3. Alert'
  <2>1. Fresh' = Fresh /\ Machine' = Machine
    BY DEF Fresh, Machine
  <2> QED BY <2>1 DEF PInv, Alert, Steady
<1> QED BY <1>1, <1>2, <1>3 DEF PInv

LEMMA StopSessionSteady ==
    ASSUME IInv, PInv, NEW again \in BOOLEAN, present, ~disconnecting, StopSession(again),
           UNCHANGED <<thread, w, rig>>
    PROVE  PInv'
<1> DEFINE e == [NoCall EXCEPT !.by = "stop"]
<1>1. e \in Calls(seqNum) /\ e.by = "stop"
  BY IdleIs DEF NoCall, Calls, IInv, Types
<1>2. /\ thread = "running" /\ calls \in Seq(Calls(seqNum)) /\ calls' = Append(calls, e)
      /\ disconnecting' /\ present'
  BY DEF IInv, Types, OneThread, StopSession, Post
<1> HIDE DEF e
<1>3. /\ DOMAIN calls' = 1 .. Len(calls) + 1 /\ DOMAIN calls = 1 .. Len(calls)
      /\ Len(calls) \in Nat /\ Len(calls') = Len(calls) + 1
      /\ \A i \in 1 .. Len(calls) : calls'[i] = calls[i]
      /\ calls'[Len(calls) + 1] = e
  BY <1>1, <1>2, AppendIs
<1>4. StartsFirst'
  BY <1>1, <1>3 DEF PInv, StartsFirst
<1>5. Alert'
  <2>1. calls' # <<>> /\ (calls = <<>> <=> Len(calls) = 0)
    BY <1>2, <1>3
  <2>2. Fresh' <=> Fresh
    BY <1>1, <1>3, <2>1 DEF Fresh
  <2>3. Machine' = Machine
    BY DEF Machine
  <2> QED BY <2>2, <2>3 DEF PInv, Alert, Steady
<1>6. StopComes'
  <2>1. Len(calls) + 1 \in DOMAIN calls'
    BY <1>3
  <2> QED BY <1>1, <1>3, <2>1 DEF StopComes, NoStop
<1>7. AsksOnline'
  <2> SUFFICES ASSUME NEW i \in Sent', \A j \in 1 .. i - 1 : calls'[j].by # "stop"
               PROVE  calls'[i].state.online
    BY DEF AsksOnline
  <2>1. i \in Sent /\ calls'[i] = calls[i] /\ i \in 1 .. Len(calls)
    BY <1>1, <1>3 DEF Sent
  <2>2. \A j \in 1 .. i - 1 : calls[j].by # "stop"
    BY <1>3, <2>1
  <2> QED BY <1>2, <2>1, <2>2 DEF PInv, AsksOnline
<1>8. StaysOnline'
  BY <1>2 DEF StaysOnline
<1> QED BY <1>4, <1>5, <1>6, <1>7, <1>8 DEF PInv

LEMMA NewSessionSteady ==
    ASSUME IInv, ~present, NewSession, UNCHANGED reports
    PROVE  PInv'
<1> DEFINE e == [NoCall EXCEPT !.seq = seqNum + 1]
<1>1. e.by = "start"
  BY DEF NoCall
<1>2. /\ calls' = <<e>> /\ w' = NewTransceiver /\ reports' = <<>> /\ ~disconnecting'
      /\ desired'.online
  BY IdleIs, OnlineField DEF NewSession, IInv, OneThread
<1> HIDE DEF e
<1>3. DOMAIN calls' = {1} /\ calls'[1] = e /\ calls' # <<>>
  BY <1>2
<1>4. StartsFirst' /\ AsksOnline'
  BY <1>1, <1>3 DEF StartsFirst, AsksOnline, Sent
<1>5. Fresh'
  BY <1>1, <1>3 DEF Fresh
<1>6. Alert'
  BY <1>2, <1>5 DEF Alert
<1>7. StopComes' /\ StaysOnline'
  BY <1>2 DEF StopComes, StaysOnline
<1> QED BY <1>4, <1>6, <1>7 DEF PInv

LEMMA RequestSteady ==
    ASSUME IInv, PInv, NEW by \in {"frequency", "ptt", "restore"}, NEW state \in States,
           Request(by, state), state.online = desired.online,
           UNCHANGED <<session, reports, worker>>
    PROVE  PInv'
<1> DEFINE e == [by |-> by, state |-> state, seq |-> seqNum + 1]
<1>1. /\ desired' = state /\ present /\ seqNum \in Nat
      /\ calls' = IF thread = "none" THEN calls ELSE Append(calls, e)
      /\ UNCHANGED <<thread, w, rig, reports, present, disconnecting>>
  BY DEF Request, SendState, Post, IInv, OneThread, Scalars, Types, session, worker
<1>2. e \in Calls(seqNum + 1) /\ e.by = by /\ e.state = state
  BY <1>1 DEF Calls
<1> HIDE DEF e
<1>3. StaysOnline'
  BY <1>1 DEF PInv, StaysOnline
<1>4. CASE thread = "none"
  BY <1>1, <1>3, <1>4, AsideSteady
<1>5. CASE thread # "none"
  <2>1. calls \in Seq(Calls(seqNum + 1)) /\ calls' = Append(calls, e)
    BY <1>1, <1>5, CallsWider DEF IInv, Types
  <2>2. /\ DOMAIN calls' = 1 .. Len(calls) + 1 /\ DOMAIN calls = 1 .. Len(calls)
        /\ Len(calls) \in Nat
        /\ \A i \in 1 .. Len(calls) : calls'[i] = calls[i]
        /\ calls'[Len(calls) + 1] = e
    BY <1>2, <2>1, AppendIs
  <2>3. StartsFirst'
    BY <1>2, <2>2 DEF PInv, StartsFirst
  <2>4. Alert'
    <3>1. calls' # <<>> /\ (calls = <<>> <=> Len(calls) = 0)
      BY <2>1, <2>2
    <3>2. Fresh' <=> Fresh
      BY <1>2, <2>2, <3>1 DEF Fresh
    <3>3. Machine' = Machine
      BY <1>1 DEF Machine
    <3> QED BY <1>1, <3>2, <3>3 DEF PInv, Alert, Steady
  <2>5. StopComes'
    BY <1>1, <2>2 DEF PInv, StopComes, NoStop
  <2>6. AsksOnline'
    <3> SUFFICES ASSUME thread = "running", NEW i \in Sent',
                        \A j \in 1 .. i - 1 : calls'[j].by # "stop"
                 PROVE  calls'[i].state.online
      BY <1>1 DEF AsksOnline
    <3>1. CASE i \in 1 .. Len(calls)
      <4>1. i \in Sent /\ \A j \in 1 .. i - 1 : calls[j].by # "stop"
        BY <2>2, <3>1 DEF Sent
      <4> QED BY <2>2, <3>1, <4>1 DEF PInv, AsksOnline
    <3>2. CASE i = Len(calls) + 1
      <4>1. NoStop
        BY <2>2, <3>2 DEF NoStop
      <4> QED BY <1>1, <1>2, <2>2, <3>2, <4>1 DEF PInv, StopComes, StaysOnline
    <3> QED BY <2>2, <3>1, <3>2 DEF Sent
  <2> QED BY <1>3, <2>3, <2>4, <2>5, <2>6 DEF PInv
<1> QED BY <1>4, <1>5

LEMMA RequestsSteady ==
    ASSUME IInv, PInv, NEW f \in Dials, NEW on \in BOOLEAN,
           SetRigFrequency(f) \/ RestoreRx(f) \/ SetRigPtt(on)
    PROVE  PInv'
<1>1. desired \in States
  BY DEF IInv, Scalars
<1>2. CASE SetRigFrequency(f)
  <2> DEFINE s == [desired EXCEPT !.frequency = f, !.ptt = FALSE]
  <2>1. s \in States /\ s.online = desired.online
    BY <1>1 DEF States
  <2>2. Request("frequency", s) /\ UNCHANGED <<session, reports, worker>>
    BY <1>2 DEF SetRigFrequency
  <2> HIDE DEF s
  <2> QED BY <2>1, <2>2, RequestSteady
<1>3. CASE RestoreRx(f)
  <2> DEFINE s == [desired EXCEPT !.frequency = f]
  <2>1. s \in States /\ s.online = desired.online
    BY <1>1 DEF States
  <2>2. Request("restore", s) /\ UNCHANGED <<session, reports, worker>>
    BY <1>3 DEF RestoreRx
  <2> HIDE DEF s
  <2> QED BY <2>1, <2>2, RequestSteady
<1>4. CASE SetRigPtt(on)
  <2> DEFINE s == [desired EXCEPT !.ptt = on]
  <2>1. s \in States /\ s.online = desired.online
    BY <1>1 DEF States
  <2>2. Request("ptt", s) /\ UNCHANGED <<session, reports, worker>>
    BY <1>4 DEF SetRigPtt
  <2> HIDE DEF s
  <2> QED BY <2>1, <2>2, RequestSteady
<1> QED BY <1>2, <1>3, <1>4

LEMMA ReceiveSteady == IInv /\ PInv /\ Receive => PInv'
<1> SUFFICES ASSUME IInv, PInv, Receive PROVE PInv'
  OBVIOUS
<1> DEFINE r == Head(reports)
<1>1. reports # <<>> /\ reports' = Tail(reports) /\ UNCHANGED <<calls, thread, w, rig>>
  BY DEF Receive, worker
<1>2. /\ r = reports[1] /\ 1 \in DOMAIN reports /\ present
      /\ \A i \in DOMAIN reports' : i + 1 \in DOMAIN reports /\ reports'[i] = reports[i + 1]
  BY <1>1, ReportsShift
<1>3. (disconnecting' => disconnecting)
  BY DEF Receive, HandleUpdate, HandleFinished, HandleFailure
<1>4. StaysOnline'
  <2> SUFFICES ASSUME present', ~disconnecting'
               PROVE  desired'.online /\ \A i \in DOMAIN reports' : Tells(reports'[i])
    BY DEF StaysOnline
  <2>1. r.kind # "finished"
    BY DEF Receive, HandleFinished
  <2>2. disconnecting' = disconnecting
    BY <2>1 DEF Receive, HandleUpdate, HandleFailure
  <2>3. desired.online /\ (\A i \in DOMAIN reports : Tells(reports[i])) /\ Tells(r)
    BY <1>2, <2>2 DEF PInv, StaysOnline
  <2>4. HandleUpdate(r) /\ r.state.online
    BY <2>3 DEF Receive, Tells
  <2>5. desired'.online
    BY <2>3, <2>4 DEF HandleUpdate
  <2> QED BY <1>2, <2>3, <2>5
<1> QED BY <1>1, <1>3, <1>4, AsideSteady

LEMMA FinishSteady == IInv /\ PInv /\ Finish => PInv'
<1> SUFFICES ASSUME IInv, Finish PROVE PInv'
  OBVIOUS
<1>1. thread = "quitting" /\ thread' = "none" /\ calls' = <<>>
      /\ UNCHANGED <<present, disconnecting>>
  BY DEF Finish, session
<1>2. ~present \/ disconnecting
  BY <1>1 DEF IInv, OneThread
<1> QED BY <1>1, <1>2 DEF PInv, StartsFirst, Alert, StopComes, AsksOnline, StaysOnline

LEMMA ConnectRigSteady ==
    ASSUME IInv, PInv, NEW there \in BOOLEAN, NEW stale \in BOOLEAN, ConnectRig(there, stale),
           UNCHANGED reports
    PROVE  PInv'
<1>1. CASE ~disconnecting /\ ~present /\ there
  BY <1>1, NewSessionSteady DEF ConnectRig
<1>2. CASE ~disconnecting /\ present /\ ~(connecting /\ ~connected /\ ~stale)
  <2>1. StopSession(TRUE) /\ UNCHANGED <<thread, w, rig>> /\ TRUE \in BOOLEAN
    BY <1>2 DEF ConnectRig, worker
  <2> QED BY <1>2, <2>1, StopSessionSteady
<1>3. CASE \/ disconnecting
           \/ ~present /\ ~there
           \/ present /\ connecting /\ ~connected /\ ~stale
  <2>1. UNCHANGED <<calls, thread, w, rig, disconnecting, desired, present>>
    BY <1>3 DEF ConnectRig, worker
  <2>2. StaysOnline'
    BY <2>1 DEF PInv, StaysOnline
  <2> QED BY <2>1, <2>2, AsideSteady
<1> QED BY <1>1, <1>2, <1>3

LEMMA DisconnectRigInternalSteady ==
    ASSUME IInv, PInv, NEW again \in BOOLEAN, DisconnectRigInternal(again),
           UNCHANGED <<reports, worker>>
    PROVE  PInv'
<1>1. CASE present /\ ~disconnecting
  <2>1. StopSession(again) /\ UNCHANGED <<thread, w, rig>>
    BY <1>1 DEF DisconnectRigInternal, worker
  <2> QED BY <1>1, <2>1, StopSessionSteady
<1>2. CASE ~(present /\ ~disconnecting)
  <2>1. UNCHANGED <<calls, thread, w, rig, disconnecting, desired, present>>
    BY <1>2 DEF DisconnectRigInternal, worker
  <2>2. StaysOnline'
    BY <2>1 DEF PInv, StaysOnline
  <2> QED BY <2>1, <2>2, AsideSteady
<1> QED BY <1>1, <1>2

LEMMA GuiSteady == IInv /\ PInv /\ Gui => PInv'
<1> SUFFICES ASSUME IInv, PInv, Gui PROVE PInv'
  OBVIOUS
<1>1. ASSUME NEW there \in BOOLEAN, NEW stale \in BOOLEAN, Connect(there, stale) PROVE PInv'
  BY <1>1, ConnectRigSteady DEF Connect
<1>2. ASSUME NEW how \in {"always", "ifFree"}, NEW there \in BOOLEAN, Reconnect(how, there)
      PROVE  PInv'
  <2>1. CASE how = "ifFree" /\ present
    <3>1. UNCHANGED <<calls, thread, w, rig, disconnecting, desired, present, reports>>
      BY <1>2, <2>1 DEF Reconnect, worker
    <3>2. StaysOnline'
      BY <3>1 DEF PInv, StaysOnline
    <3> QED BY <3>1, <3>2, AsideSteady
  <2>2. CASE ~(how = "ifFree" /\ present)
    <3>1. ConnectRig(there, FALSE) /\ FALSE \in BOOLEAN /\ UNCHANGED reports
      BY <1>2, <2>2 DEF Reconnect
    <3> QED BY <3>1, ConnectRigSteady
  <2> QED BY <2>1, <2>2
<1>3. CASE Disconnect \/ RetryTimer
  <2>1. PICK again \in BOOLEAN : DisconnectRigInternal(again)
    BY <1>3 DEF Disconnect, RetryTimer
  <2>2. UNCHANGED <<reports, worker>>
    BY <1>3 DEF Disconnect, RetryTimer
  <2> QED BY <2>1, <2>2, DisconnectRigInternalSteady
<1>4. CASE GuardTimer
  <2>1. UNCHANGED <<calls, thread, w, rig, disconnecting, desired, present, reports>>
    BY <1>4 DEF GuardTimer, session, worker
  <2>2. StaysOnline'
    BY <2>1 DEF PInv, StaysOnline
  <2> QED BY <2>1, <2>2, AsideSteady
<1>5. ASSUME NEW f \in Dials, SetRigFrequency(f) \/ RestoreRx(f) PROVE PInv'
  BY <1>5, RequestsSteady
<1>6. ASSUME NEW on \in BOOLEAN, SetRigPtt(on) PROVE PInv'
  <2>1. PICK f \in Dials : TRUE
    BY CatAssumption
  <2> QED BY <1>6, <2>1, RequestsSteady
<1> QED BY <1>1, <1>2, <1>3, <1>4, <1>5, <1>6, ReceiveSteady DEF Gui

LEMMA RadioSteady == IInv /\ PInv /\ Radio => PInv'
<1> SUFFICES ASSUME IInv, PInv, Radio PROVE PInv'
  OBVIOUS
<1>1. rig \in Rigs
  BY DEF IInv, Types
<1>2. /\ UNCHANGED <<desired, present, disconnecting, calls, reports, thread, w>>
      /\ rig'.open = rig.open /\ rig'.since = rig.since
      /\ rig'.dial = rig'.dialTo \/ (rig'.dial = rig.dial /\ rig'.dialTo = rig.dialTo)
  <2> DEFINE As(r) == /\ r.open = rig.open /\ r.since = rig.since
                      /\ r.dial = r.dialTo \/ (r.dial = rig.dial /\ r.dialTo = rig.dialTo)
  <2>1. PICK r : RigStep(r) /\ As(r)
    <3>1. CASE Obey
      <4> DEFINE r == [rig EXCEPT !.dial = rig.dialTo, !.tx = rig.txTo]
      <4>1. As(r)
        BY <1>1 DEF Rigs
      <4>2. RigStep(r)
        BY <3>1 DEF Obey
      <4> QED BY <4>1, <4>2
    <3>2. ASSUME NEW f \in Dials, Turn(f) PROVE \E r : RigStep(r) /\ As(r)
      <4> DEFINE r == [rig EXCEPT !.dial = f, !.dialTo = f]
      <4>1. As(r)
        BY <1>1 DEF Rigs
      <4>2. RigStep(r)
        BY <3>2 DEF Turn
      <4> QED BY <4>1, <4>2
    <3>3. CASE Microphone
      <4> DEFINE r == [rig EXCEPT !.mic = ~@]
      <4>1. As(r)
        BY <1>1 DEF Rigs
      <4>2. RigStep(r)
        BY <3>3 DEF Microphone
      <4> QED BY <4>1, <4>2
    <3>4. CASE TimeOut
      <4> DEFINE r == [rig EXCEPT !.tx = FALSE, !.txTo = FALSE]
      <4>1. As(r)
        BY <1>1 DEF Rigs
      <4>2. RigStep(r)
        BY <3>4 DEF TimeOut
      <4> QED BY <4>1, <4>2
    <3> QED BY <3>1, <3>2, <3>3, <3>4 DEF Radio
  <2> QED BY <2>1 DEF RigStep, session
<1>3. StartsFirst' /\ AsksOnline' /\ StopComes' /\ StaysOnline'
  BY <1>2 DEF PInv, StartsFirst, AsksOnline, Sent, StopComes, NoStop, StaysOnline
<1>4. Alert'
  <2>1. Fresh' = Fresh
    BY <1>2 DEF Fresh
  <2>2. Steady(Machine) => Steady(Machine')
    <3>1. Machine.w = w /\ Machine.rig = rig /\ Machine'.w = w /\ Machine'.rig = rig'
      BY <1>2 DEF Machine
    <3> QED BY <1>2, <3>1 DEF Steady, Caught, Awaited
  <2> QED BY <1>2, <2>1, <2>2 DEF PInv, Alert
<1> QED BY <1>3, <1>4 DEF PInv

(* A turn of the worker's loop that leaves r.                                *)
LEMMA BecomeSteady ==
    ASSUME IInv, PInv, NEW n \in Nat, NEW r \in Machines(n), Become(r), Steady(r), AllTell(r),
           thread = "running", thread' = "running",
           UNCHANGED <<desired, seqNum, session>>,
           \/ calls' = calls /\ ~Fresh
           \/ calls # <<>> /\ calls' = Tail(calls) /\ calls[1].by # "stop"
    PROVE  PInv'
<1>1. calls \in Seq(Calls(seqNum)) /\ seqNum \in Nat
  BY DEF IInv, Types
<1>2. w' = r.w /\ rig' = r.rig /\ reports' = reports \o r.out
      /\ UNCHANGED <<desired, present, disconnecting>>
  BY DEF Become, session
<1>3. Steady(Machine')
  <2>1. Machine'.w = r.w /\ Machine'.rig = r.rig
    BY <1>2 DEF Machine
  <2> QED BY <2>1 DEF Steady
<1>4. StaysOnline'
  <2> SUFFICES ASSUME present, ~disconnecting
               PROVE  desired.online /\ \A i \in DOMAIN reports' : Tells(reports'[i])
    BY <1>2 DEF StaysOnline
  <2>1. desired.online /\ \A i \in DOMAIN reports : Tells(reports[i])
    BY DEF PInv, StaysOnline
  <2>2. \A i \in DOMAIN r.out : Tells(r.out[i])
    BY DEF AllTell
  <2> DEFINE S == ReportsTo(w.seq) \cup WorkerReports(n)
  <2>3. reports \in Seq(S) /\ r.out \in Seq(S)
    <3>1. reports \in Seq(ReportsTo(w.seq)) /\ r.out \in Seq(WorkerReports(n))
      BY MachineFields DEF IInv, Types
    <3> QED BY <3>1, SeqWider
  <2> HIDE DEF S
  <2>4. /\ Len(reports) \in Nat /\ Len(r.out) \in Nat
        /\ \A i \in 1 .. Len(reports) + Len(r.out) :
              reports'[i] = IF i <= Len(reports) THEN reports[i] ELSE r.out[i - Len(reports)]
        /\ DOMAIN reports = 1 .. Len(reports) /\ DOMAIN r.out = 1 .. Len(r.out)
        /\ DOMAIN reports' = 1 .. Len(reports) + Len(r.out)
    BY <1>2, <2>3, ConcatIs
  <2>5. ASSUME NEW i \in DOMAIN reports' PROVE Tells(reports'[i])
    <3>1. CASE i <= Len(reports)
      BY <2>1, <2>4, <3>1
    <3>2. CASE ~(i <= Len(reports))
      <4>1. i - Len(reports) \in DOMAIN r.out /\ reports'[i] = r.out[i - Len(reports)]
        BY <2>4, <3>2
      <4> QED BY <2>2, <4>1
    <3> QED BY <3>1, <3>2
  <2> QED BY <2>1, <2>5
<1>5. CASE calls' = calls /\ ~Fresh
  <2>1. StartsFirst' /\ AsksOnline' /\ StopComes' /\ ~Fresh'
    BY <1>2, <1>5 DEF PInv, StartsFirst, AsksOnline, Sent, StopComes, NoStop, Fresh
  <2>2. Alert'
    BY <1>3, <2>1 DEF Alert
  <2> QED BY <1>4, <2>1, <2>2 DEF PInv
<1>6. CASE calls # <<>> /\ calls' = Tail(calls) /\ calls[1].by # "stop"
  <2>1. /\ \A i \in DOMAIN calls' : i + 1 \in DOMAIN calls /\ calls'[i] = calls[i + 1]
        /\ NoStop' => NoStop
    BY <1>2, <1>6, CallsShift
  <2>2. \A i \in DOMAIN calls' : i \in Nat \ {0}
    BY <1>1, <1>6, TailIs
  <2>3. \A i \in DOMAIN calls' : calls'[i].by # "start"
    <3> SUFFICES ASSUME NEW i \in DOMAIN calls', calls'[i].by = "start" PROVE FALSE
      OBVIOUS
    <3>1. i + 1 = 1 /\ i \in Nat \ {0}
      BY <2>1, <2>2 DEF PInv, StartsFirst
    <3> QED BY <3>1
  <2>4. StartsFirst' /\ ~Fresh'
    <3>1. calls' \in Seq(Calls(seqNum))
      BY <1>1, <1>6, TailIs
    <3>2. calls' # <<>> => 1 \in DOMAIN calls'
      BY <3>1
    <3> QED BY <2>3, <3>2 DEF StartsFirst, Fresh
  <2>5. Alert'
    BY <1>3, <2>4 DEF Alert
  <2>6. StopComes'
    BY <1>2, <2>1 DEF PInv, StopComes
  <2>7. AsksOnline'
    <3> SUFFICES ASSUME NEW i \in Sent', \A j \in 1 .. i - 1 : calls'[j].by # "stop"
                 PROVE  calls'[i].state.online
      BY DEF AsksOnline
    <3>1. i \in DOMAIN calls' /\ i \in Nat \ {0}
      BY <2>2 DEF Sent
    <3>2. i + 1 \in Sent /\ calls'[i] = calls[i + 1]
      BY <2>1, <3>1 DEF Sent
    <3>3. ASSUME NEW j \in 1 .. (i + 1) - 1 PROVE calls[j].by # "stop"
      <4>1. CASE j = 1
        BY <1>6, <4>1
      <4>2. CASE j # 1
        <5>1. j - 1 \in 1 .. i - 1 /\ j - 1 \in 1 .. i /\ (j - 1) + 1 = j
          BY <3>1, <4>2
        <5>2. j - 1 \in DOMAIN calls'
          <6>1. DOMAIN calls' = 1 .. Len(calls) - 1 /\ Len(calls) \in Nat
            BY <1>1, <1>6, TailIs
          <6> QED BY <3>1, <5>1, <6>1
        <5>3. calls'[j - 1] = calls[(j - 1) + 1]
          BY <2>1, <5>2
        <5> QED BY <5>1, <5>3
      <4> QED BY <4>1, <4>2
    <3> QED BY <3>2, <3>3 DEF PInv, AsksOnline
  <2> QED BY <1>4, <2>4, <2>5, <2>6, <2>7 DEF PInv
<1> QED BY <1>5, <1>6

LEMMA RunCallSteady ==
    ASSUME IInv, PInv, budget'.misses = Misses, NEW opens \in BOOLEAN, NEW o \in Outcomes,
           NEW rel \in Outcomes, RunCall(opens, o, rel)
    PROVE  PInv'
<1> DEFINE call == Head(calls)
           r == Run(call, opens, o, rel)
<1>1. /\ thread # "none" /\ calls # <<>> /\ calls' = Tail(calls) /\ Become(r)
      /\ thread' = IF call.by = "stop" THEN "quitting" ELSE thread
      /\ UNCHANGED <<desired, seqNum, session, view, guarding, recovery>>
  BY DEF RunCall
<1>2. o = Well /\ opens = TRUE
  <2> DEFINE cost == Cost(o) + Cost(rel) + (IF opens THEN 0 ELSE 1)
  <2>1. Cost(o) \in {0, 1} /\ Cost(rel) \in {0, 1} /\ (Cost(o) = 0 => o = Well)
    BY CostIs
  <2>2. cost \in Nat /\ (cost = 0 => o = Well /\ opens = TRUE)
    BY <2>1
  <2>3. cost <= budget.misses /\ budget' = [budget EXCEPT !.misses = @ - cost]
    BY DEF RunCall
  <2> HIDE DEF cost
  <2> QED BY <2>2, <2>3, CostShrinks
<1>3. call = calls[1] /\ call \in Calls(seqNum) /\ 1 \in DOMAIN calls /\ seqNum \in Nat
  BY <1>1, TailIs DEF IInv, Types
<1>4. UNCHANGED <<desired, present, disconnecting>>
  BY <1>1 DEF session
<1>5. CASE call.by = "stop" \/ thread = "quitting"
  <2>1. thread' = "quitting"
    BY <1>1, <1>5
  <2>2. \A i \in DOMAIN calls' : calls'[i].by # "start"
    <3> SUFFICES ASSUME NEW i \in DOMAIN calls', calls'[i].by = "start" PROVE FALSE
      OBVIOUS
    <3>1. i + 1 \in DOMAIN calls /\ calls'[i] = calls[i + 1]
      BY <1>1, <1>4, CallsShift
    <3>2. i + 1 = 1 /\ i \in Nat \ {0}
      <4>1. i \in Nat \ {0}
        BY <1>1, TailIs DEF IInv, Types
      <4> QED BY <3>1, <4>1 DEF PInv, StartsFirst
    <3> QED BY <3>2
  <2>3. ~present \/ disconnecting
    BY <1>3, <1>5 DEF IInv, OneThread, NoStop
  <2> QED BY <1>4, <2>1, <2>2, <2>3
          DEF PInv, StartsFirst, Alert, StopComes, AsksOnline, StaysOnline
<1>6. CASE call.by # "stop" /\ thread # "quitting"
  <2> DEFINE n == call.seq
  <2>1. thread = "running" /\ thread' = "running"
    BY <1>1, <1>6 DEF IInv, Types
  <2>2. n \in Nat /\ w.seq <= n /\ call.state \in States /\ w.seq < n
    <3>1. calls[1].by # "stop" => w.seq < calls[1].seq
      BY <1>3 DEF IInv, InOrder
    <3>2. w.seq \in Nat /\ call.seq \in Nat /\ call.state \in States
      BY <1>3 DEF Calls, IInv, Types, Transceivers
    <3> HIDE DEF call
    <3> QED BY <1>3, <1>6, <3>1, <3>2
  <2>3. Machine \in Machines(n) /\ Machine.w = w /\ Machine.out = <<>>
    <3> HIDE DEF n
    <3> QED BY <2>2, MachineIs
  <2>4. r \in Machines(n)
    <3>1. Ran(r, call, o)
      <4> HIDE DEF call
      <4> QED BY <1>1, <1>3, <1>6, <2>2, RunIs
    <3> QED BY <3>1 DEF Ran
  <2>5. Steady(r) /\ AllTell(r)
    <3>1. CASE call.by = "start"
      <4>1. r = Start(Machine, n, TRUE, Well, rel)
        BY <1>2, <3>1 DEF Run
      <4>2. w = NewTransceiver
        BY <1>1, <1>3, <2>1, <3>1 DEF PInv, Alert, Fresh
      <4> HIDE DEF r, n
      <4> QED BY <2>2, <2>3, <4>1, <4>2, StartSteady
    <3>2. CASE call.by # "start"
      <4>1. r = Set(Machine, call.state, n, TRUE, Well, rel)
        BY <1>2, <1>6, <3>2 DEF Run
      <4>2. Steady(Machine)
        BY <1>3, <2>1, <3>2 DEF PInv, Alert, Fresh
      <4>3. call.state.online
        <5>1. 1 \in Sent
          BY <1>3, <1>6, <3>2 DEF Sent, Calls
        <5>2. \A j \in 1 .. 1 - 1 : calls[j].by # "stop"
          OBVIOUS
        <5> QED BY <1>3, <2>1, <5>1, <5>2 DEF PInv, AsksOnline
      <4> HIDE DEF r, n, call
      <4> QED BY <2>2, <2>3, <4>1, <4>2, <4>3, SetSteady
    <3> QED BY <3>1, <3>2
  <2>6. calls[1].by # "stop"
    BY <1>3, <1>6
  <2> HIDE DEF r, n, call
  <2> QED BY <1>1, <2>1, <2>2, <2>4, <2>5, <2>6, BecomeSteady
<1>7. thread \in {"none", "running", "quitting"}
  BY DEF IInv, Types
<1> QED BY <1>5, <1>6

(* A poll is answered in full; what it reports is where the radio was told   *)
(* to be, unless the polls granted to it are over.                           *)
LEMMA PollKeepsSteady ==
    ASSUME IInv, PInv, budget'.misses = Misses, NEW got \in {"all", "dial", "none"}, NEW rel \in Outcomes,
           Poll(got, rel)
    PROVE  /\ PInv'
           /\ rig'.since < PollsToStabilize /\ rig'.dial # rig'.dialTo => reports' = reports
<1> DEFINE r == HandleTimeout(Machine, got, rel)
           n == w.seq
<1>1. /\ thread = "running" /\ thread' = "running" /\ w.polling /\ Become(r) /\ calls' = calls
      /\ UNCHANGED <<desired, seqNum, session>>
  BY DEF Poll
<1>2. got = "all"
  <2> DEFINE cost == Cost(rel) + (IF got = "all" THEN 0 ELSE 1)
  <2>1. Cost(rel) \in {0, 1}
    BY CostIs
  <2>2. cost \in Nat /\ (cost = 0 => got = "all")
    BY <2>1
  <2>3. cost <= budget.misses /\ budget' = [budget EXCEPT !.misses = @ - cost]
    BY DEF Poll
  <2> HIDE DEF cost
  <2> QED BY <2>2, <2>3, CostShrinks
<1>3. n \in Nat /\ n <= n
  BY DEF IInv, Types, Transceivers
<1>4. /\ Machine \in Machines(n) /\ Machine.w = w /\ Machine.rig = rig /\ Machine.out = <<>>
      /\ Machine.w.actual.online = Machine.w.requested.online
      /\ Machine.rig.open = Machine.w.requested.online
  <2>1. thread # "none"
    BY <1>1
  <2> QED BY <1>3, <2>1, MachineIs, OpenWhileOnline
<1>5. ~Fresh /\ Steady(Machine)
  BY <1>1 DEF PInv, Alert, NewTransceiver
<1>6. r \in Machines(n)
  <2> HIDE DEF n
  <2> QED BY <1>3, <1>4, HandleTimeoutIs DEF Works
<1>7. /\ Steady(r) /\ AllTell(r)
      /\ r.rig.since < PollsToStabilize /\ r.rig.dial # r.rig.dialTo => r.out = <<>>
  <2> HIDE DEF n
  <2> QED BY <1>2, <1>3, <1>4, <1>5, PollSteady
<1> HIDE DEF r
<1>8. PInv'
  <2> HIDE DEF n
  <2> QED BY <1>1, <1>3, <1>5, <1>6, <1>7, BecomeSteady
<1>9. rig' = r.rig /\ (r.out = <<>> => reports' = reports)
  <2>1. rig' = r.rig /\ reports' = reports \o r.out
    BY <1>1 DEF Become
  <2>2. reports \in Seq(ReportsTo(w.seq))
    BY DEF IInv, Types
  <2> QED BY <2>1, <2>2
<1> QED BY <1>7, <1>8, <1>9

LEMMA BurstKeepsSteady == IInv /\ PInv /\ Burst => PInv'
<1> SUFFICES ASSUME IInv, PInv, Burst PROVE PInv'
  OBVIOUS
<1> DEFINE r == PollTransmitTelemetry(Machine)
           n == w.seq
<1>1. /\ thread = "running" /\ thread' = "running" /\ w.bursts > 0 /\ Become(r)
      /\ calls' = calls /\ UNCHANGED <<desired, seqNum, session>>
  BY DEF Burst
<1>2. n \in Nat /\ n <= n
  BY DEF IInv, Types, Transceivers
<1>3. /\ Machine \in Machines(n) /\ Machine.w = w /\ Machine.rig = rig /\ Machine.out = <<>>
      /\ Machine.w.actual.online = Machine.w.requested.online
      /\ Machine.rig.open = Machine.w.requested.online
  <2>1. thread # "none"
    BY <1>1
  <2> QED BY <1>2, <2>1, MachineIs, OpenWhileOnline
<1>4. ~Fresh /\ Steady(Machine)
  BY <1>1 DEF PInv, Alert, NewTransceiver
<1>5. r \in Machines(n)
  <2> HIDE DEF n
  <2> QED BY <1>1, <1>2, <1>3, PollTransmitTelemetryIs DEF Works
<1>6. Steady(r) /\ AllTell(r)
  <2> HIDE DEF n
  <2> QED BY <1>1, <1>2, <1>3, <1>4, BurstSteady
<1> HIDE DEF r, n
<1> QED BY <1>1, <1>2, <1>4, <1>5, <1>6, BecomeSteady

LEMMA NextShrinks == IInv /\ [Next]_vars => Shrunk
<1> SUFFICES ASSUME IInv, [Next]_vars PROVE Shrunk
  OBVIOUS
<1>1. budget \in Budgets
  BY DEF IInv, Scalars
<1>2. UNCHANGED budget => Shrunk
  BY <1>1 DEF Shrunk, Budgets
<1>3. \A what \in {"requests", "connects", "turns"} : Spend(what) => Shrunk
  BY <1>1, SpendShrinks
<1>4. ASSUME NEW there \in BOOLEAN, NEW stale \in BOOLEAN, Connect(there, stale) PROVE Shrunk
  <2>1. 1 <= budget.connects
    BY <1>4, CatAssumption DEF Connect, IInv, Scalars, Budgets
  <2> QED BY <1>4, <2>1, MissShrinks DEF Connect
<1>5. ASSUME NEW how \in {"always", "ifFree"}, NEW there \in BOOLEAN, Reconnect(how, there)
      PROVE  Shrunk
  <2>1. 0 <= budget.connects /\ budget.connects - 0 = budget.connects
    BY CatAssumption DEF IInv, Scalars, Budgets
  <2>2. budget' = [budget EXCEPT !.connects = @ - 0, !.misses = @ - Missed(there)]
    BY <1>5, <2>1 DEF Reconnect, IInv, Scalars, Budgets
  <2> QED BY <1>5, <2>1, <2>2, MissShrinks DEF Reconnect
<1>6. ASSUME NEW got \in {"all", "dial", "none"}, NEW rel \in Outcomes, Poll(got, rel)
      PROVE  Shrunk
  <2> DEFINE cost == Cost(rel) + (IF got = "all" THEN 0 ELSE 1)
  <2>1. Cost(rel) \in {0, 1}
    BY CostIs
  <2>2. cost \in Nat
    BY <2>1
  <2>3. cost <= budget.misses /\ budget' = [budget EXCEPT !.misses = @ - cost]
    BY <1>6 DEF Poll
  <2> HIDE DEF cost
  <2> QED BY <2>2, <2>3, CostShrinks
<1>7. CASE Gui
  <2>1. \A f \in Dials, on \in BOOLEAN :
           SetRigFrequency(f) \/ RestoreRx(f) \/ SetRigPtt(on) => Shrunk
    BY <1>3 DEF SetRigFrequency, RestoreRx, SetRigPtt, Request
  <2>2. Disconnect \/ RetryTimer \/ GuardTimer \/ Receive => Shrunk
    BY <1>2, <1>3 DEF Disconnect, RetryTimer, GuardTimer, Receive
  <2>3. \E f \in Dials : TRUE
    BY CatAssumption
  <2> QED BY <1>4, <1>5, <1>7, <2>1, <2>2, <2>3 DEF Gui
<1>8. CASE Worker
  <2>1. Finish \/ Burst => Shrunk
    BY <1>2 DEF Finish, Burst
  <2> QED BY <1>6, <1>8, <2>1, RunCost DEF Worker
<1>9. CASE Radio
  BY <1>2, <1>3, <1>9 DEF Radio, Obey, Turn, Microphone, TimeOut
<1> QED BY <1>2, <1>7, <1>8, <1>9 DEF Next, vars

LEMMA NextSteady == IInv /\ PInv /\ budget'.misses = Misses /\ [Next]_vars => PInv'
<1> SUFFICES ASSUME IInv, PInv, budget'.misses = Misses, [Next]_vars PROVE PInv'
  OBVIOUS
<1>1. CASE Worker
  BY <1>1, RunCallSteady, PollKeepsSteady, FinishSteady, BurstKeepsSteady DEF Worker
<1>2. CASE UNCHANGED vars
  <2>1. UNCHANGED <<calls, thread, w, rig, disconnecting, desired, present, reports>>
    BY <1>2 DEF vars, session, worker
  <2>2. StaysOnline'
    BY <2>1 DEF PInv, StaysOnline
  <2> QED BY <2>1, <2>2, AsideSteady
<1> QED BY <1>1, <1>2, GuiSteady, RadioSteady DEF Next

(* Until the first answer is missed the polls and the queues are as PInv     *)
(* says: of a session that is not being ended every report says that it is   *)
(* online, the worker has told all it knows of the radio or waits for what   *)
(* it was told to expect, and waits for it while the radio may be late.      *)
THEOREM SteadyUntilAMiss == Spec => [](budget.misses = Misses => PInv)
<1> DEFINE Inv == budget.misses = Misses => PInv
<1>1. Init => Inv
  BY InitPInv
<1>2. IInv /\ Inv /\ [Next]_vars => Inv'
  BY NextShrinks, NextSteady, UnmissedBefore
<1> QED BY <1>1, <1>2, Inductive, PTL DEF Spec

LEMMA NothingMissed ==
    ASSUME Misses = 0, IInv
    PROVE  budget.misses = Misses
<1>1. budget.misses \in 0 .. Misses
  BY DEF IInv, Scalars, Budgets
<1> QED BY <1>1

\* What the manager and the radio do reports nothing, and leaves the worker alone.
LEMMA OthersAreSilent ==
    ASSUME IInv, Gui \/ Radio \/ UNCHANGED vars
    PROVE  /\ Len(reports') <= Len(reports)
           /\ w' = w \/ calls' # calls
<1>1. Len(reports) \in Nat
  BY DEF IInv, Types
<1>2. reports' = reports => Len(reports') <= Len(reports)
  BY <1>1
<1>3. ASSUME NEW there \in BOOLEAN, NEW stale \in BOOLEAN, ConnectRig(there, stale)
      PROVE  w' = w \/ calls' # calls
  <2>1. CASE ~disconnecting /\ ~present /\ there
    <3> DEFINE e == [NoCall EXCEPT !.seq = seqNum + 1]
    <3>1. calls = <<>> /\ calls' = <<e>>
      BY <1>3, <2>1 DEF ConnectRig, NewSession, IInv, OneThread
    <3> HIDE DEF e
    <3> QED BY <3>1
  <2>2. CASE ~(~disconnecting /\ ~present /\ there)
    BY <1>3, <2>2 DEF ConnectRig, worker
  <2> QED BY <2>1, <2>2
<1>4. CASE Receive
  <2>1. Len(reports') = Len(reports) - 1 /\ w' = w
    BY <1>4, ReportsShift DEF Receive, worker
  <2> QED BY <1>1, <2>1
<1>5. ASSUME NEW there \in BOOLEAN, NEW stale \in BOOLEAN, Connect(there, stale)
      PROVE  reports' = reports /\ (w' = w \/ calls' # calls)
  BY <1>3, <1>5 DEF Connect
<1>6. ASSUME NEW how \in {"always", "ifFree"}, NEW there \in BOOLEAN, Reconnect(how, there)
      PROVE  reports' = reports /\ (w' = w \/ calls' # calls)
  <2>1. FALSE \in BOOLEAN
    OBVIOUS
  <2> QED BY <1>3, <1>6, <2>1 DEF Reconnect, worker
<1>7. CASE Disconnect \/ RetryTimer \/ GuardTimer
  BY <1>2, <1>7 DEF Disconnect, RetryTimer, GuardTimer, worker
<1>8. \A f \in Dials, on \in BOOLEAN :
         SetRigFrequency(f) \/ RestoreRx(f) \/ SetRigPtt(on) => reports' = reports /\ w' = w
  BY DEF SetRigFrequency, RestoreRx, SetRigPtt, worker
<1>9. \E f \in Dials : TRUE
  BY CatAssumption
<1>10. CASE Gui
  BY <1>2, <1>4, <1>5, <1>6, <1>7, <1>8, <1>9, <1>10 DEF Gui
<1>11. CASE Radio \/ UNCHANGED vars
  BY <1>2, <1>11 DEF Radio, Obey, Turn, Microphone, TimeOut, RigStep, vars, worker
<1> QED BY <1>10, <1>11

\* A call run leaves the queue of calls.
LEMMA RunCallTakes ==
    ASSUME IInv, NEW opens \in BOOLEAN, NEW o \in Outcomes, NEW rel \in Outcomes,
           RunCall(opens, o, rel)
    PROVE  calls' # calls
<1>1. Len(calls) \in Nat \ {0} /\ Len(calls') = Len(calls) - 1
  BY TailIs DEF RunCall, IInv, Types
<1> QED BY <1>1

(* If nothing is missed, however commands, polls, reads of the meters,       *)
(* requests and the operator's turns of the dial follow each other, a poll   *)
(* that has no change to wait for has told the manager all the worker knows. *)
THEOREM NothingIsLeftUnsaid ==
    ASSUME Misses = 0
    PROVE  Spec => NothingUnsaid
<1> DEFINE Said == calls' = calls /\ w' # w /\ w'.polling /\ w'.failures = 0 /\ w'.retries = 0
                     => w'.actual = w'.last
           Inv == IInv /\ PInv
<1>1. Inv /\ Inv' /\ [Next]_vars => [Said]_vars
  <2> SUFFICES ASSUME Inv, Inv', Next, calls' = calls, w' # w, w'.polling, w'.retries = 0
               PROVE  w'.actual = w'.last
    OBVIOUS
  <2>1. thread' = "running"
    BY OthersAreSilent, RunCallTakes DEF Next, Worker, Finish, Poll, Burst
  <2>2. Steady(Machine')
    BY <2>1 DEF PInv, Alert, Fresh, NewTransceiver
  <2> QED BY <2>2 DEF Steady, Caught, Machine
<1>2. IInv /\ (budget.misses = Misses => PInv) => Inv
  BY NothingMissed
<1> QED BY <1>1, <1>2, Inductive, SteadyUntilAMiss, PTL DEF Spec, NothingUnsaid

(* And if the meters are not read in between, no poll reports another dial   *)
(* than the one commanded before the polls granted to the radio are over.    *)
THEOREM PollsTellTheTruth ==
    ASSUME Misses = 0, Bursts = 0
    PROVE  Spec => PollsTell
<1> DEFINE Forward ==
              \A i \in Len(reports) + 1 .. Len(reports') :
                 /\ calls' = calls
                 /\ rig'.since < PollsToStabilize
                 /\ rig'.dial # rig'.dialTo
                 /\ reports'[i].kind = "update"
                 /\ reports'[i].state.frequency > 0
                 => reports'[i].state.frequency = rig'.dialTo
           Inv == IInv /\ PInv /\ budget.misses = Misses
<1>1. Inv /\ Inv' /\ [Next]_vars => [Forward]_vars
  <2> SUFFICES ASSUME Inv, Inv', Next,
                      NEW i \in Len(reports) + 1 .. Len(reports'), calls' = calls,
                      rig'.since < PollsToStabilize, rig'.dial # rig'.dialTo,
                      reports'[i].kind = "update"
               PROVE  FALSE
    OBVIOUS
  <2>1. Len(reports) \in Nat /\ Len(reports') \in Nat
    BY DEF IInv, Types
  <2>2. ~(Len(reports') <= Len(reports))
    BY <2>1
  <2>3. ~Gui /\ ~Radio
    BY <2>2, OthersAreSilent
  <2>4. \A opens \in BOOLEAN, o, rel \in Outcomes : ~RunCall(opens, o, rel)
    BY RunCallTakes
  <2>5. ~Burst
    <3>1. w.bursts \in 0 .. Bursts
      BY DEF IInv, Types, Transceivers
    <3> QED BY <3>1 DEF Burst
  <2>6. \A got \in {"all", "dial", "none"}, rel \in Outcomes : ~Poll(got, rel)
    BY <2>1, <2>2, PollKeepsSteady
  <2>7. ~Finish
    <3> SUFFICES ASSUME Finish PROVE FALSE
      OBVIOUS
    <3> DEFINE e == Report("finished", Idle, 0)
    <3>1. reports' = Append(reports, e) /\ e.kind = "finished"
      BY DEF Finish, Report
    <3> HIDE DEF e
    <3>2. reports \in Seq(ReportsTo(w.seq))
      BY DEF IInv, Types
    <3>3. Len(reports') = Len(reports) + 1 /\ reports'[Len(reports) + 1] = e
      BY <3>1, <3>2
    <3> QED BY <2>1, <3>1, <3>3
  <2> QED BY <2>3, <2>4, <2>5, <2>6, <2>7 DEF Next, Worker
<1>2. IInv /\ (budget.misses = Misses => PInv) => Inv
  BY NothingMissed
<1>3. Spec => NoStepBack
  BY <1>1, <1>2, Inductive, SteadyUntilAMiss, PTL DEF Spec, NoStepBack
<1> QED BY <1>3, NothingIsLeftUnsaid DEF PollsTell
=============================================================================
