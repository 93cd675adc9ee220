------------------------- MODULE DecoPortCatMuxProofs -------------------------
(***************************************************************************)
(* What holds of the shared radio line for any number of taps, openings    *)
(* and commands.  The ownership of the PTT rests on nothing but a radio    *)
(* that does not refuse to transmit while it does; whose reply is whose    *)
(* rests on one command at a time, and on a radio that answers a command,  *)
(* if at all, before its timeout.                                          *)
(***************************************************************************)
EXTENDS DecoPortCatMux, TLAPS, SequenceTheorems, NaturalsInduction, WellFoundedInduction

-----------------------------------------------------------------------------
(* The inductive invariant.                                                *)

\* A command comes by the tap of its program.
Of(t) == {c \in Commands : c.by = t}
ByTap(conn) == {p \in Pending : p.cmd.by = p.tap /\ (p.tap # NoTap => conn[p.tap])}

ProgramsTyped ==
    /\ open \in [Taps -> BOOLEAN] /\ gen \in [Taps -> 0 .. MaxOpens]
    /\ written \in 0 .. MaxWrites
    /\ \A t \in Taps : open[t] => gen[t] \in 1 .. MaxOpens

TapsTyped ==
    /\ connected \in [Taps -> BOOLEAN] /\ present \in [Taps -> BOOLEAN]
    /\ lastDsr \in [Taps -> BOOLEAN]
    /\ unread \in [Taps -> Seq(Commands)] /\ inbox \in [Taps -> Seq(Commands)]
    /\ \A t \in Taps : unread[t] \in Seq(Of(t)) /\ inbox[t] \in Seq(Of(t))

TrafficTyped ==
    /\ queue \in Seq(ByTap(connected)) /\ inFlight \in Pending \cup {Nothing}
    /\ inFlight # Nothing /\ inFlight.tap # NoTap => connected[inFlight.tap]
    /\ gotReply \in BOOLEAN /\ keyedTap \in Taps \cup {NoTap}
    /\ toRadio \in Seq(Commands)

LineTyped ==
    /\ dialect \in Dialects /\ pttAllowed \in BOOLEAN
    /\ line \in {"open", "lost", "closed"}
    /\ fromRadio \in Seq(Replies) /\ onAir \in Who \cup {Nothing}

Typed == ProgramsTyped /\ TapsTyped /\ TrafficTyped /\ LineTyped

\* A release that waits is the first to go, and nobody has keyed since.
Has(q) == \E i \in DOMAIN q : q[i] = Release
InOrder(q, key) ==
    /\ \A i \in DOMAIN q : q[i] = Release => i = 1
    /\ Has(q) => key = NoTap
    /\ ~KnowsPtt => key = NoTap

Asks(i) == toRadio[i].what = "ask"

\* Nothing after i changes who is on the air.
Decides(i) == i \in DOMAIN toRadio /\ ~Asks(i)
              /\ \A j \in DOMAIN toRadio : j > i => Asks(j)

\* Whoever holds the radio, or is about to, is the owner or is being released.
Owns(key, released) ==
    ~RefusesBusy /\ line = "open" /\ KnowsPtt =>
        /\ \A i \in DOMAIN toRadio :
              Decides(i) /\ toRadio[i].what = "key" => key = toRadio[i].by \/ released
        /\ (\A i \in DOMAIN toRadio : Asks(i)) /\ onAir # Nothing
           => key = onAir.by \/ released

Owned == InOrder(queue, keyedTap) /\ Owns(keyedTap, Has(queue))

PttInv == Typed /\ Owned

\* Between the multiplexer and the radio there is one command, the one in
\* flight, on its way there or, answered, on its way back.
One(flight, to, said) ==
    /\ Len(to) <= 1
    /\ flight = Nothing => to = <<>>
    /\ \A i \in DOMAIN to : to[i] = flight.cmd
    /\ \A i \in DOMAIN said : said[i].kind # "spontaneous" =>
          /\ to = <<>> /\ flight # Nothing /\ said[i].of = flight.cmd
          /\ said[i].kind = "echo" => dialect = "civ"
          /\ said[i].kind # "echo" =>
                \A j \in DOMAIN said : j > i => said[j].kind = "spontaneous"

OneAtATime == line = "open" => One(inFlight, toRadio, fromRadio)

-----------------------------------------------------------------------------
(* The entries kept of a queue (Those)                                     *)

\* A non-empty set of numbers has a least one.
LEMMA LeastExists ==
    ASSUME NEW T, T \subseteq Nat, T # {}
    PROVE  \E x \in T : \A y \in T : x <= y
<1> DEFINE Less == {p \in Nat \X Nat : p[1] < p[2]}
<1>1. IsWellFoundedOn(Less, Nat)
  BY NatLessThanWellFounded DEF OpToRel
<1>2. PICK x \in T : \A y \in T : <<y, x>> \notin Less
  BY <1>1, WFMin
<1>3. ASSUME NEW y \in T PROVE x <= y
  <2>1. x \in Nat /\ y \in Nat
    OBVIOUS
  <2>2. ~(y < x)
    BY <1>2, <2>1
  <2> QED BY <2>1, <2>2
<1> QED BY <1>3

Step(t, s, I, i) == IF i \in I THEN Append(t, s[i]) ELSE t

\* f is the table of what is kept of the first i entries.
Table(f, s, I, n) ==
    /\ f = [i \in 0 .. n |-> f[i]]
    /\ f[0] = <<>> /\ \A i \in 1 .. n : f[i] = Step(f[i - 1], s, I, i)

LEMMA LongerTable ==
    ASSUME NEW s, NEW I, NEW n \in Nat \ {0}, NEW f, Table(f, s, I, n - 1)
    PROVE  \E g : Table(g, s, I, n)
<1> DEFINE g == [i \in 0 .. n |-> IF i = n THEN Step(f[n - 1], s, I, n) ELSE f[i]]
<1>1. g = [i \in 0 .. n |-> g[i]]
  OBVIOUS
<1>2. \A i \in 0 .. n : g[i] = IF i = n THEN Step(f[n - 1], s, I, n) ELSE f[i]
  OBVIOUS
<1> HIDE DEF g
<1>3. g[0] = <<>>
  BY <1>2 DEF Table
<1>4. ASSUME NEW i \in 1 .. n PROVE g[i] = Step(g[i - 1], s, I, i)
  <2>1. g[i - 1] = f[i - 1]
    BY <1>2
  <2>2. CASE i = n
    BY <1>2, <2>1, <2>2
  <2>3. CASE i # n
    <3>1. g[i] = f[i] /\ i \in 1 .. n - 1
      BY <1>2, <2>3
    <3> QED BY <2>1, <3>1 DEF Table
  <2> QED BY <2>2, <2>3
<1>5. Table(g, s, I, n)
  BY <1>1, <1>3, <1>4 DEF Table
<1> QED BY <1>5

\* A shortest prefix without a table would be one longer than one with one.
LEMMA TableExists ==
    ASSUME NEW s, NEW I, NEW n \in Nat
    PROVE  \E f : Table(f, s, I, n)
<1> DEFINE Without == {m \in Nat : ~ \E f : Table(f, s, I, m)}
<1>1. ASSUME Without # {} PROVE FALSE
  <2>1. PICK m \in Without : \A k \in Without : m <= k
    BY <1>1, LeastExists
  <2>2. m # 0
    <3>1. Table([i \in 0 .. 0 |-> <<>>], s, I, 0)
      BY DEF Table
    <3> QED BY <3>1
  <2>3. m - 1 \in Nat /\ m - 1 \notin Without
    BY <2>1, <2>2
  <2>4. PICK f : Table(f, s, I, m - 1)
    BY <2>3
  <2> QED BY <2>1, <2>2, <2>4, LongerTable
<1> QED BY <1>1

LEMMA ThoseIsATable ==
    ASSUME NEW S, NEW s \in Seq(S), NEW I
    PROVE  \E f : Table(f, s, I, Len(s)) /\ Those(s, I) = f[Len(s)]
<1> DEFINE UpTo(f) == f = [i \in 0 .. Len(s) |-> IF i = 0 THEN <<>>
                                   ELSE IF i \in I THEN Append(f[i - 1], s[i])
                                   ELSE f[i - 1]]
<1>1. Len(s) \in Nat
  OBVIOUS
<1>2. PICK f : Table(f, s, I, Len(s))
  BY <1>1, TableExists
<1>3. UpTo(f)
  <2>1. f[0] = <<>> /\ \A i \in 1 .. Len(s) : f[i] = Step(f[i - 1], s, I, i)
    BY <1>2 DEF Table
  <2>2. f = [i \in 0 .. Len(s) |-> f[i]]
    BY <1>2 DEF Table
  <2>3. ASSUME NEW i \in 0 .. Len(s)
        PROVE  f[i] = IF i = 0 THEN <<>>
                      ELSE IF i \in I THEN Append(f[i - 1], s[i])
                      ELSE f[i - 1]
    <3>1. i = 0 \/ i \in 1 .. Len(s)
      BY <1>1
    <3> QED BY <2>1, <3>1 DEF Step
  <2> QED BY <2>2, <2>3
<1> DEFINE g == CHOOSE h : UpTo(h)
<1>4. UpTo(g)
  BY <1>3
<1>5. Those(s, I) = g[Len(s)]
  BY DEF Those
<1> HIDE DEF g
<1>6. Table(g, s, I, Len(s))
  <2>1. \A i \in 0 .. Len(s) : g[i] = IF i = 0 THEN <<>>
                      ELSE IF i \in I THEN Append(g[i - 1], s[i])
                      ELSE g[i - 1]
    BY <1>4
  <2>2. g[0] = <<>>
    BY <1>1, <2>1
  <2>3. ASSUME NEW i \in 1 .. Len(s) PROVE g[i] = Step(g[i - 1], s, I, i)
    <3>1. i \in 0 .. Len(s) /\ i # 0
      BY <1>1
    <3> QED BY <2>1, <3>1 DEF Step
  <2>4. g = [i \in 0 .. Len(s) |-> g[i]]
    BY <1>4
  <2> QED BY <2>2, <2>3, <2>4 DEF Table
<1> QED BY <1>5, <1>6

\* t holds the entries of s at the places of I up to n, none further back
\* than it was.
Holds(t, s, I, S, n) ==
    /\ t \in Seq(S)
    /\ \A j \in 1 .. Len(t) : \E k \in 1 .. n : k \in I /\ t[j] = s[k] /\ j <= k
    /\ \A k \in 1 .. n : k \in I => \E j \in 1 .. Len(t) : t[j] = s[k]

LEMMA HoldsOneMore ==
    ASSUME NEW S, NEW s \in Seq(S), NEW I, NEW n \in 1 .. Len(s),
           NEW t, Holds(t, s, I, S, n - 1), Len(t) <= n - 1
    PROVE  Holds(Step(t, s, I, n), s, I, S, n) /\ Len(Step(t, s, I, n)) <= n
<1>1. n \in Nat \ {0} /\ s[n] \in S /\ t \in Seq(S) /\ Len(t) \in Nat
  BY DEF Holds
<1>2. CASE n \in I
  <2> DEFINE u == Append(t, s[n])
  <2>1. Step(t, s, I, n) = u
    BY <1>2 DEF Step
  <2>2. /\ u \in Seq(S) /\ Len(u) = Len(t) + 1
        /\ \A j \in 1 .. Len(t) : u[j] = t[j]
        /\ u[Len(t) + 1] = s[n]
    BY <1>1
  <2> HIDE DEF u
  <2>3. ASSUME NEW j \in 1 .. Len(u)
        PROVE  \E k \in 1 .. n : k \in I /\ u[j] = s[k] /\ j <= k
    <3>1. CASE j = Len(t) + 1
      BY <1>1, <1>2, <2>2, <3>1
    <3>2. CASE j # Len(t) + 1
      <4>1. j \in 1 .. Len(t) /\ u[j] = t[j]
        BY <1>1, <2>2, <3>2
      <4>2. PICK k \in 1 .. n - 1 : k \in I /\ t[j] = s[k] /\ j <= k
        BY <4>1 DEF Holds
      <4>3. k \in 1 .. n
        BY <1>1
      <4> QED BY <4>1, <4>2, <4>3
    <3> QED BY <3>1, <3>2
  <2>4. ASSUME NEW k \in 1 .. n, k \in I
        PROVE  \E j \in 1 .. Len(u) : u[j] = s[k]
    <3>1. CASE k = n
      <4>1. Len(t) + 1 \in 1 .. Len(u)
        BY <1>1, <2>2
      <4> QED BY <2>2, <3>1, <4>1
    <3>2. CASE k # n
      <4>1. k \in 1 .. n - 1
        BY <1>1, <3>2
      <4>2. PICK j \in 1 .. Len(t) : t[j] = s[k]
        BY <2>4, <4>1 DEF Holds
      <4>3. j \in 1 .. Len(u) /\ u[j] = t[j]
        BY <1>1, <2>2
      <4> QED BY <4>2, <4>3
    <3> QED BY <3>1, <3>2
  <2>5. Len(u) <= n
    BY <1>1, <2>2
  <2> QED BY <2>1, <2>2, <2>3, <2>4, <2>5 DEF Holds
<1>3. CASE n \notin I
  <2>1. Step(t, s, I, n) = t
    BY <1>3 DEF Step
  <2>2. ASSUME NEW j \in 1 .. Len(t)
        PROVE  \E k \in 1 .. n : k \in I /\ t[j] = s[k] /\ j <= k
    <3>1. PICK k \in 1 .. n - 1 : k \in I /\ t[j] = s[k] /\ j <= k
      BY DEF Holds
    <3>2. k \in 1 .. n
      BY <1>1
    <3> QED BY <3>1, <3>2
  <2>3. ASSUME NEW k \in 1 .. n, k \in I
        PROVE  \E j \in 1 .. Len(t) : t[j] = s[k]
    <3>1. k \in 1 .. n - 1
      BY <1>1, <1>3, <2>3
    <3> QED BY <2>3, <3>1 DEF Holds
  <2>4. Len(t) <= n
    BY <1>1
  <2> QED BY <1>1, <2>1, <2>2, <2>3, <2>4 DEF Holds
<1> QED BY <1>2, <1>3

LEMMA ThoseAre ==
    ASSUME NEW S, NEW s \in Seq(S), NEW I
    PROVE  Holds(Those(s, I), s, I, S, Len(s))
<1>1. PICK f : Table(f, s, I, Len(s)) /\ Those(s, I) = f[Len(s)]
  BY ThoseIsATable
<1> DEFINE Off == {n \in 0 .. Len(s) : ~(Holds(f[n], s, I, S, n) /\ Len(f[n]) <= n)}
<1>2. Len(s) \in Nat
  OBVIOUS
<1>3. ASSUME Off # {} PROVE FALSE
  <2>1. PICK n \in Off : \A m \in Off : n <= m
    <3>1. Off \subseteq Nat
      BY <1>2
    <3> HIDE DEF Off
    <3> QED BY <1>3, <3>1, LeastExists
  <2>2. n # 0
    <3>1. Holds(<<>>, s, I, S, 0) /\ Len(<<>>) <= 0
      BY DEF Holds
    <3>2. f[0] = <<>>
      BY <1>1 DEF Table
    <3> QED BY <3>1, <3>2
  <2>3. n \in 1 .. Len(s) /\ n - 1 \in 0 .. Len(s) /\ n - 1 \notin Off
    BY <1>2, <2>1, <2>2
  <2>4. Holds(f[n - 1], s, I, S, n - 1) /\ Len(f[n - 1]) <= n - 1
    BY <2>3
  <2>5. f[n] = Step(f[n - 1], s, I, n)
    BY <1>1, <2>3 DEF Table
  <2>6. Holds(f[n], s, I, S, n) /\ Len(f[n]) <= n
    BY <2>3, <2>4, <2>5, HoldsOneMore
  <2> QED BY <2>1, <2>6
<1> QED BY <1>1, <1>2, <1>3

-----------------------------------------------------------------------------
(* Types                                                                   *)

LEMMA Within ==
    ASSUME NEW A, NEW s \in Seq(A), NEW B, \A i \in 1 .. Len(s) : s[i] \in B
    PROVE  s \in Seq(B)
  OBVIOUS

LEMMA SeqGrows ==
    ASSUME NEW A, NEW B, A \subseteq B
    PROVE  Seq(A) \subseteq Seq(B)
<1> SUFFICES ASSUME NEW s \in Seq(A) PROVE s \in Seq(B)
  OBVIOUS
<1>1. \A i \in 1 .. Len(s) : s[i] \in B
  OBVIOUS
<1> QED BY <1>1, Within

LEMMA ReleaseIs ==
    /\ ReleaseCommand \in Commands /\ ReleaseCommand.what = "unkey"
    /\ ReleaseCommand.by = NoTap
    /\ Release.tap = NoTap /\ Release.cmd = ReleaseCommand
    /\ \A conn : Release \in ByTap(conn)
<1>1. (CHOOSE c \in Asked : TRUE) \in Asked
  BY MuxAssumption
<1>2. /\ ReleaseCommand \in Commands /\ ReleaseCommand.what = "unkey"
      /\ ReleaseCommand.by = NoTap
  BY <1>1 DEF ReleaseCommand, Commands
<1>3. Release.tap = NoTap /\ Release.cmd = ReleaseCommand /\ Release \in Pending
  BY <1>2 DEF Release, Pending
<1> QED BY <1>2, <1>3 DEF ByTap

\* What pump needs of the queue, the command in flight and the owner
Pumpable(q, flight, key, conn) ==
    /\ q \in Seq(ByTap(conn)) /\ flight \in Pending \cup {Nothing}
    /\ flight # Nothing /\ flight.tap # NoTap => conn[flight.tap]
    /\ key \in Taps \cup {NoTap}

LEMMA PumpTyped ==
    ASSUME NEW q, NEW flight, NEW key, NEW got \in BOOLEAN, NEW conn,
           Pumpable(q, flight, key, conn), toRadio \in Seq(Commands),
           Pump(q, flight, key, got), connected' = conn
    PROVE  TrafficTyped'
<1>1. CASE flight = Nothing /\ q # <<>> /\ line # "closed"
  <2>1. q[1] \in ByTap(conn) /\ Tail(q) \in Seq(ByTap(conn)) /\ Head(q) = q[1]
    BY <1>1 DEF Pumpable
  <2>2. q[1] \in Pending /\ (q[1].tap # NoTap => conn[q[1].tap])
        /\ q[1].tap \in Taps \cup {NoTap} /\ q[1].cmd \in Commands
    BY <2>1 DEF ByTap, Pending
  <2>3. OwnerAfter(key, q[1]) \in Taps \cup {NoTap}
    BY <2>2 DEF OwnerAfter, Pumpable
  <2>4. /\ queue' = Tail(q) /\ inFlight' = q[1] /\ gotReply' = FALSE
        /\ keyedTap' = OwnerAfter(key, q[1])
        /\ toRadio' = IF line = "open" THEN Append(toRadio, q[1].cmd) ELSE toRadio
    BY <1>1, <2>1 DEF Pump
  <2>5. toRadio' \in Seq(Commands)
    BY <2>2, <2>4
  <2> QED BY <2>1, <2>2, <2>3, <2>4, <2>5 DEF TrafficTyped
<1>2. CASE ~(flight = Nothing /\ q # <<>> /\ line # "closed")
  <2>1. /\ queue' = q /\ inFlight' = flight /\ gotReply' = got /\ keyedTap' = key
        /\ toRadio' = toRadio
    BY <1>2 DEF Pump
  <2> QED BY <2>1 DEF TrafficTyped, Pumpable
<1> QED BY <1>1, <1>2

LEMMA ByTapGrows ==
    ASSUME NEW conn, NEW more, \A t \in Taps : conn[t] => more[t]
    PROVE  ByTap(conn) \subseteq ByTap(more)
  BY DEF ByTap, Pending

\* What a tap puts in the queue is its own, not forbidden, and no release.
Entries(t, cmds) ==
    LET taken == Those(cmds, {i \in DOMAIN cmds : ~Refused(t, cmds[i])})
    IN [i \in DOMAIN taken |-> [tap |-> t, cmd |-> taken[i]]]

LEMMA EntriesAre ==
    ASSUME NEW t \in Taps, NEW cmds \in Seq(Of(t)), NEW conn, conn[t]
    PROVE  /\ Entries(t, cmds) \in Seq(ByTap(conn))
           /\ \A i \in 1 .. Len(Entries(t, cmds)) :
                 /\ Entries(t, cmds)[i] # Release
                 /\ ~Refused(t, Entries(t, cmds)[i].cmd)
                 /\ Entries(t, cmds)[i].cmd.by = t
<1> DEFINE I == {i \in DOMAIN cmds : ~Refused(t, cmds[i])}
           taken == Those(cmds, I)
           e == [i \in 1 .. Len(taken) |-> [tap |-> t, cmd |-> taken[i]]]
<1>1. Holds(taken, cmds, I, Of(t), Len(cmds))
  BY ThoseAre
<1>2. taken \in Seq(Of(t))
  BY <1>1 DEF Holds
<1>3. Entries(t, cmds) = e
  <2>1. DOMAIN taken = 1 .. Len(taken)
    BY <1>2
  <2> QED BY <2>1 DEF Entries
<1>4. ASSUME NEW i \in 1 .. Len(taken)
      PROVE  taken[i] \in Of(t) /\ ~Refused(t, taken[i])
  <2>1. PICK k \in 1 .. Len(cmds) : k \in I /\ taken[i] = cmds[k]
    BY <1>1 DEF Holds
  <2>2. ~Refused(t, cmds[k])
    BY <2>1
  <2>3. cmds[k] \in Of(t)
    BY <2>1
  <2> QED BY <2>1, <2>2, <2>3
<1> HIDE DEF I, taken
<1>5. Len(taken) \in Nat
  BY <1>2
<1>6. ASSUME NEW i \in 1 .. Len(taken)
      PROVE  e[i] \in ByTap(conn) /\ e[i] # Release /\ ~Refused(t, e[i].cmd) /\ e[i].cmd.by = t
  <2>1. e[i] = [tap |-> t, cmd |-> taken[i]]
    OBVIOUS
  <2>2. taken[i] \in Commands /\ taken[i].by = t
    BY <1>4 DEF Of
  <2>3. e[i] \in Pending /\ e[i].tap = t /\ e[i].cmd = taken[i]
    BY <2>1, <2>2 DEF Pending
  <2>4. e[i] # Release
    BY <2>3, ReleaseIs, MuxAssumption
  <2> QED BY <1>4, <2>2, <2>3, <2>4 DEF ByTap
<1>7. e \in Seq(ByTap(conn)) /\ Len(e) = Len(taken)
  BY <1>5, <1>6
<1> HIDE DEF e
<1> QED BY <1>3, <1>6, <1>7

\* What stays in the queue of a tap that goes away
LEMMA OthersAre ==
    ASSUME NEW t \in Taps, NEW conn \in [Taps -> BOOLEAN], queue \in Seq(ByTap(conn))
    PROVE  /\ Others(t) \in Seq(ByTap([conn EXCEPT ![t] = FALSE]))
           /\ \A i \in 1 .. Len(Others(t)) :
                 \E k \in 1 .. Len(queue) : Others(t)[i] = queue[k] /\ i <= k
           /\ ReleaseQueued => \E i \in 1 .. Len(Others(t)) : Others(t)[i] = Release
<1> DEFINE I == {i \in DOMAIN queue : queue[i].tap # t}
           o == Others(t)
<1>1. o = Those(queue, I)
  BY DEF Others
<1>2. Holds(o, queue, I, ByTap(conn), Len(queue))
  BY <1>1, ThoseAre
<1>3. o \in Seq(ByTap(conn))
  BY <1>2 DEF Holds
<1>4. ASSUME NEW i \in 1 .. Len(o)
      PROVE  o[i] \in ByTap([conn EXCEPT ![t] = FALSE])
  <2>1. PICK k \in 1 .. Len(queue) : k \in I /\ o[i] = queue[k]
    BY <1>2 DEF Holds
  <2>2. o[i] \in ByTap(conn) /\ o[i].tap # t
    BY <1>3, <2>1
  <2>3. o[i].tap # NoTap => [conn EXCEPT ![t] = FALSE][o[i].tap]
    BY <2>2 DEF ByTap, Pending
  <2> QED BY <2>2, <2>3 DEF ByTap
<1>5. \A i \in 1 .. Len(o) : \E k \in 1 .. Len(queue) : o[i] = queue[k] /\ i <= k
  BY <1>2 DEF Holds
<1>6. ASSUME ReleaseQueued PROVE \E i \in 1 .. Len(o) : o[i] = Release
  <2>1. PICK k \in DOMAIN queue : queue[k] = Release
    BY <1>6 DEF ReleaseQueued
  <2>2. k \in 1 .. Len(queue) /\ k \in I
    BY <2>1, ReleaseIs, MuxAssumption
  <2> QED BY <1>2, <2>1, <2>2 DEF Holds
<1> HIDE DEF o
<1>7. o \in Seq(ByTap([conn EXCEPT ![t] = FALSE]))
  BY <1>3, <1>4, Within
<1> QED BY <1>5, <1>6, <1>7 DEF o

LEMMA TypedInit == Init => Typed
<1> SUFFICES ASSUME Init PROVE Typed
  OBVIOUS
<1>0. PICK up \in SUBSET Serial :
          /\ open = [t \in Taps |-> t \in up]
          /\ gen = [t \in Taps |-> IF t \in up THEN 1 ELSE 0]
          /\ present = [t \in Taps |-> t \in up]
          /\ lastDsr = [t \in Taps |-> t \in up]
  BY DEF Init
<1> USE DEF Init
<1>1. ProgramsTyped
  <2>1. 1 \in 1 .. MaxOpens /\ 1 \in 0 .. MaxOpens /\ 0 \in 0 .. MaxOpens
    BY MuxAssumption
  <2>2. written \in 0 .. MaxWrites
    BY MuxAssumption
  <2>3. open \in [Taps -> BOOLEAN]
    BY <1>0
  <2>4. gen \in [Taps -> 0 .. MaxOpens]
    BY <1>0, <2>1
  <2>5. \A t \in Taps : open[t] => gen[t] \in 1 .. MaxOpens
    BY <1>0, <2>1
  <2> QED BY <2>2, <2>3, <2>4, <2>5 DEF ProgramsTyped
<1>2. TapsTyped
  <2>1. <<>> \in Seq(Commands) /\ \A t \in Taps : <<>> \in Seq(Of(t))
    OBVIOUS
  <2> QED BY <2>1 DEF TapsTyped
<1>3. TrafficTyped
  <2>1. \A S : <<>> \in Seq(S)
    OBVIOUS
  <2>2. queue \in Seq(ByTap(connected)) /\ toRadio \in Seq(Commands)
    BY <2>1
  <2> QED BY <2>2 DEF TrafficTyped
<1>4. LineTyped
  BY DEF LineTyped
<1> QED BY <1>1, <1>2, <1>3, <1>4 DEF Typed

LEMMA OpenTyped ==
    ASSUME Typed, NEW t \in Taps, Open(t)
    PROVE  Typed'
<1> USE DEF Typed, Open
<1>1. ProgramsTyped'
  BY MuxAssumption DEF ProgramsTyped
<1>2. TapsTyped'
  BY DEF TapsTyped
<1>3. TrafficTyped'
  <2>1. \A u \in Taps : connected[u] => connected'[u]
    BY DEF TapsTyped
  <2>2. ByTap(connected) \subseteq ByTap(connected')
    BY <2>1, ByTapGrows
  <2>3. queue' \in Seq(ByTap(connected'))
    BY <2>2, SeqGrows DEF TrafficTyped, traffic
  <2>4. inFlight' # Nothing /\ inFlight'.tap # NoTap => connected'[inFlight'.tap]
    BY <2>1 DEF TrafficTyped, traffic, Pending
  <2> QED BY <2>3, <2>4 DEF TrafficTyped, traffic
<1>4. LineTyped'
  BY DEF LineTyped, radio
<1> QED BY <1>1, <1>2, <1>3, <1>4

LEMMA WriteTyped ==
    ASSUME Typed, NEW t \in Taps, NEW what \in {"key", "unkey", "ask"}, NEW code \in Asked,
           Write(t, what, code)
    PROVE  Typed'
<1> USE DEF Typed, Write
<1> DEFINE c == [by |-> t, gen |-> gen[t], what |-> what, code |-> code]
<1>1. ProgramsTyped'
  BY MuxAssumption DEF ProgramsTyped
<1>2. TapsTyped'
  <2>1. c \in Commands /\ c \in Of(t)
    BY DEF Of, Commands, ProgramsTyped
  <2> HIDE DEF c
  <2>2. unread' = [unread EXCEPT ![t] = Append(unread[t], c)] /\ UNCHANGED taps
    BY DEF c
  <2>3. Append(unread[t], c) \in Seq(Commands) /\ Append(unread[t], c) \in Seq(Of(t))
    BY <2>1 DEF TapsTyped
  <2>4. unread' \in [Taps -> Seq(Commands)] /\ \A u \in Taps : unread'[u] \in Seq(Of(u))
    BY <2>2, <2>3 DEF TapsTyped
  <2> QED BY <2>2, <2>4 DEF TapsTyped, taps
<1>3. TrafficTyped'
  BY DEF TrafficTyped, traffic, taps
<1>4. LineTyped'
  BY DEF LineTyped, radio
<1> QED BY <1>1, <1>2, <1>3, <1>4

LEMMA LeaveTyped ==
    ASSUME Typed, NEW t \in Taps, Leave(t)
    PROVE  Typed'
<1> USE DEF Typed, Leave
<1>1. ProgramsTyped'
  BY DEF ProgramsTyped
<1>2. TapsTyped'
  BY DEF TapsTyped, taps
<1>3. TrafficTyped'
  BY DEF TrafficTyped, traffic, taps
<1>4. LineTyped'
  BY DEF LineTyped, radio
<1> QED BY <1>1, <1>2, <1>3, <1>4

LEMMA TakeIsPump ==
    ASSUME Typed, NEW t \in Taps, NEW cmds \in Seq(Of(t)), connected[t],
           TakeTapCommands(t, cmds)
    PROVE  /\ Pump(queue \o Entries(t, cmds), inFlight, keyedTap, gotReply)
           /\ Pumpable(queue \o Entries(t, cmds), inFlight, keyedTap, connected)
<1>1. Pump(queue \o Entries(t, cmds), inFlight, keyedTap, gotReply)
  BY DEF TakeTapCommands, Entries
<1>2. Entries(t, cmds) \in Seq(ByTap(connected)) /\ queue \in Seq(ByTap(connected))
  BY EntriesAre DEF Typed, TrafficTyped
<1>3. queue \o Entries(t, cmds) \in Seq(ByTap(connected))
  BY <1>2
<1> QED BY <1>1, <1>3 DEF Pumpable, Typed, TrafficTyped

LEMMA OnTapDataTyped ==
    ASSUME Typed, NEW t \in Taps, OnTapData(t)
    PROVE  Typed'
<1> USE DEF OnTapData
<1>1. ProgramsTyped'
  BY DEF Typed, ProgramsTyped, programs
<1>2. TapsTyped'
  <2>1. unread[t] \in Seq(Commands) /\ inbox[t] \in Seq(Commands)
        /\ unread[t] \in Seq(Of(t)) /\ inbox[t] \in Seq(Of(t))
    BY DEF Typed, TapsTyped
  <2>2. inbox[t] \o unread[t] \in Seq(Commands) /\ inbox[t] \o unread[t] \in Seq(Of(t))
    BY <2>1
  <2>3. inbox' = [inbox EXCEPT ![t] = inbox[t] \o unread[t]] \/ inbox' = inbox
    OBVIOUS
  <2>4. inbox' \in [Taps -> Seq(Commands)] /\ \A u \in Taps : inbox'[u] \in Seq(Of(u))
    BY <2>2, <2>3 DEF Typed, TapsTyped
  <2>5. unread' \in [Taps -> Seq(Commands)] /\ \A u \in Taps : unread'[u] \in Seq(Of(u))
    BY DEF Typed, TapsTyped
  <2> QED BY <2>4, <2>5 DEF Typed, TapsTyped
<1>3. TrafficTyped'
  <2>1. CASE dialect = "silence"
    BY <2>1 DEF Typed, TrafficTyped, traffic
  <2>2. CASE dialect # "silence"
    <3>1. unread[t] \in Seq(Of(t)) /\ connected[t] /\ TakeTapCommands(t, unread[t])
      BY <2>2 DEF Typed, TapsTyped
    <3> QED BY <3>1, TakeIsPump, PumpTyped DEF Typed, TrafficTyped
  <2> QED BY <2>1, <2>2
<1>4. LineTyped'
  BY DEF Typed, LineTyped, radio
<1> QED BY <1>1, <1>2, <1>3, <1>4 DEF Typed

LEMMA CoalescedTyped ==
    ASSUME Typed, NEW t \in Taps, Coalesced(t)
    PROVE  Typed'
<1> USE DEF Coalesced
<1>1. ProgramsTyped'
  BY DEF Typed, ProgramsTyped, programs
<1>2. TapsTyped'
  BY DEF Typed, TapsTyped
<1>3. TrafficTyped'
  <2>1. inbox[t] \in Seq(Of(t)) /\ connected[t] /\ TakeTapCommands(t, inbox[t])
    BY DEF Typed, TapsTyped
  <2> QED BY <2>1, TakeIsPump, PumpTyped DEF Typed, TrafficTyped
<1>4. LineTyped'
  BY DEF Typed, LineTyped, radio
<1> QED BY <1>1, <1>2, <1>3, <1>4 DEF Typed

LEMMA FinishTyped ==
    ASSUME Typed, Finish, UNCHANGED connected
    PROVE  TrafficTyped'
<1>1. Pumpable(queue, Nothing, keyedTap, connected)
  BY DEF Typed, TrafficTyped, Pumpable
<1> QED BY <1>1, PumpTyped DEF Finish, Typed, TrafficTyped

LEMMA OnPhysicalDataTyped ==
    ASSUME Typed, OnPhysicalData
    PROVE  Typed'
<1> USE DEF OnPhysicalData
<1>1. ProgramsTyped'
  BY DEF Typed, ProgramsTyped, programs
<1>2. TapsTyped'
  BY DEF Typed, TapsTyped, taps
<1>3. TrafficTyped'
  <2>1. \/ Finish
        \/ gotReply' = TRUE /\ UNCHANGED <<queue, inFlight, keyedTap, toRadio>>
        \/ UNCHANGED traffic
    OBVIOUS
  <2>2. UNCHANGED connected
    BY DEF taps
  <2>3. CASE Finish
    BY <2>2, <2>3, FinishTyped
  <2>4. CASE gotReply' = TRUE /\ UNCHANGED <<queue, inFlight, keyedTap, toRadio>>
    BY <2>2, <2>4 DEF Typed, TrafficTyped
  <2>5. CASE UNCHANGED traffic
    BY <2>2, <2>5 DEF Typed, TrafficTyped, traffic
  <2> QED BY <2>1, <2>3, <2>4, <2>5
<1>4. LineTyped'
  BY DEF Typed, LineTyped
<1> QED BY <1>1, <1>2, <1>3, <1>4 DEF Typed

LEMMA TimeoutTyped ==
    ASSUME Typed, Timeout
    PROVE  Typed'
<1> USE DEF Timeout
<1>1. ProgramsTyped'
  BY DEF Typed, ProgramsTyped, programs
<1>2. TapsTyped'
  BY DEF Typed, TapsTyped, taps
<1>3. TrafficTyped'
  BY FinishTyped DEF taps
<1>4. LineTyped'
  BY DEF Typed, LineTyped, radio
<1> QED BY <1>1, <1>2, <1>3, <1>4 DEF Typed

\* What clientGone does to the queue, in either case
LEMMA GoneTyped ==
    ASSUME Typed, NEW t \in Taps, NEW flight, NEW conn,
           ClientGone(t, flight), connected' = conn, Others(t) \in Seq(ByTap(conn)),
           flight \in Pending \cup {Nothing},
           flight # Nothing /\ flight.tap # NoTap => conn[flight.tap]
    PROVE  /\ TrafficTyped'
           /\ present' \in [Taps -> BOOLEAN] /\ inbox' \in [Taps -> Seq(Commands)]
           /\ \A u \in Taps : inbox'[u] \in Seq(Of(u))
<1>1. /\ present' \in [Taps -> BOOLEAN] /\ inbox' \in [Taps -> Seq(Commands)]
      /\ \A u \in Taps : inbox'[u] \in Seq(Of(u))
  <2>1. <<>> \in Seq(Commands) /\ \A u \in Taps : <<>> \in Seq(Of(u))
    OBVIOUS
  <2> QED BY <2>1 DEF ClientGone, Typed, TapsTyped
<1>2. CASE keyedTap = t
  <2>1. <<Release>> \in Seq(ByTap(conn))
    BY ReleaseIs
  <2>2. <<Release>> \o Others(t) \in Seq(ByTap(conn))
    BY <2>1
  <2>3. Pumpable(<<Release>> \o Others(t), flight, NoTap, conn)
    BY <2>2 DEF Pumpable
  <2>4. Pump(<<Release>> \o Others(t), flight, NoTap, gotReply)
    BY <1>2 DEF ClientGone
  <2>5. gotReply \in BOOLEAN /\ toRadio \in Seq(Commands)
    BY DEF Typed, TrafficTyped
  <2>6. TrafficTyped'
    BY <2>3, <2>4, <2>5, PumpTyped
  <2> QED BY <1>1, <2>6
<1>3. CASE keyedTap # t
  <2>1. /\ queue' = Others(t) /\ inFlight' = flight
        /\ UNCHANGED <<gotReply, keyedTap, toRadio>>
    BY <1>3 DEF ClientGone
  <2>2. TrafficTyped'
    BY <2>1 DEF Typed, TrafficTyped
  <2> QED BY <1>1, <2>2
<1> QED BY <1>2, <1>3

LEMMA GoneForGoodTyped ==
    ASSUME Typed, NEW t \in Taps, GoneForGood(t)
    PROVE  TrafficTyped' /\ TapsTyped' /\ LineTyped'
<1> DEFINE conn == [connected EXCEPT ![t] = FALSE]
           flight == IF inFlight # Nothing /\ inFlight.tap = t
                     THEN [inFlight EXCEPT !.tap = NoTap] ELSE inFlight
<1>1. connected \in [Taps -> BOOLEAN] /\ queue \in Seq(ByTap(connected))
  BY DEF Typed, TapsTyped, TrafficTyped
<1>2. Others(t) \in Seq(ByTap(conn))
  BY <1>1, OthersAre
<1>3. flight \in Pending \cup {Nothing}
  <2>1. inFlight \in Pending \cup {Nothing}
    BY DEF Typed, TrafficTyped
  <2> QED BY <2>1 DEF Pending
<1>4. flight # Nothing /\ flight.tap # NoTap => conn[flight.tap]
  <2>1. inFlight \in Pending \cup {Nothing}
        /\ (inFlight # Nothing /\ inFlight.tap # NoTap => connected[inFlight.tap])
    BY DEF Typed, TrafficTyped
  <2>2. CASE inFlight # Nothing /\ inFlight.tap = t
    <3>1. flight.tap = NoTap
      BY <2>1, <2>2 DEF Pending
    <3> QED BY <3>1
  <2>3. CASE ~(inFlight # Nothing /\ inFlight.tap = t)
    BY <1>1, <2>1, <2>3 DEF Pending
  <2> QED BY <2>2, <2>3
<1>5. connected' = conn /\ unread' = [unread EXCEPT ![t] = <<>>] /\ ClientGone(t, flight)
      /\ UNCHANGED <<lastDsr, dialect, pttAllowed, line, radio>>
  BY DEF GoneForGood
<1> HIDE DEF flight, conn
<1>6. /\ TrafficTyped'
      /\ present' \in [Taps -> BOOLEAN] /\ inbox' \in [Taps -> Seq(Commands)]
      /\ \A u \in Taps : inbox'[u] \in Seq(Of(u))
  BY <1>2, <1>3, <1>4, <1>5, GoneTyped
<1>7. TapsTyped'
  <2>1. <<>> \in Seq(Commands) /\ \A u \in Taps : <<>> \in Seq(Of(u))
    OBVIOUS
  <2> QED BY <1>1, <1>5, <1>6, <2>1 DEF Typed, TapsTyped, conn
<1>8. LineTyped'
  BY <1>5 DEF Typed, LineTyped, radio
<1> QED BY <1>6, <1>7, <1>8

LEMMA DisconnectedTyped ==
    ASSUME Typed, NEW t \in Taps, Disconnected(t)
    PROVE  Typed'
<1>1. ProgramsTyped'
  BY DEF Typed, ProgramsTyped, Disconnected, GoneForGood
<1>2. TrafficTyped' /\ TapsTyped' /\ LineTyped'
  BY GoneForGoodTyped DEF Disconnected
<1> QED BY <1>1, <1>2 DEF Typed

LEMMA PairLostTyped ==
    ASSUME Typed, NEW t \in Taps, PairLost(t)
    PROVE  Typed'
<1>1. ProgramsTyped'
  BY DEF Typed, ProgramsTyped, PairLost, GoneForGood
<1>2. TrafficTyped' /\ TapsTyped' /\ LineTyped'
  BY GoneForGoodTyped DEF PairLost
<1> QED BY <1>1, <1>2 DEF Typed

LEMMA PollPinsTyped ==
    ASSUME Typed, NEW t \in Taps, PollPins(t)
    PROVE  Typed'
<1> USE DEF PollPins
<1>1. ProgramsTyped'
  BY DEF Typed, ProgramsTyped, programs
<1>2. LineTyped'
  BY DEF Typed, LineTyped, radio
<1>3. lastDsr' \in [Taps -> BOOLEAN]
  BY DEF Typed, TapsTyped, ProgramsTyped
<1>4. CASE open[t]
  <2>1. TapsTyped'
    BY <1>3, <1>4 DEF Typed, TapsTyped
  <2>2. TrafficTyped'
    BY <1>4 DEF Typed, TrafficTyped, traffic
  <2> QED BY <1>1, <1>2, <2>1, <2>2 DEF Typed
<1>5. CASE ~open[t]
  <2>1. connected \in [Taps -> BOOLEAN] /\ queue \in Seq(ByTap(connected))
    BY DEF Typed, TapsTyped, TrafficTyped
  <2>2. Others(t) \in Seq(ByTap(connected))
    <3>1. Others(t) \in Seq(ByTap([connected EXCEPT ![t] = FALSE]))
      BY <2>1, OthersAre
    <3>2. \A u \in Taps : [connected EXCEPT ![t] = FALSE][u] => connected[u]
      BY <2>1
    <3>3. ByTap([connected EXCEPT ![t] = FALSE]) \subseteq ByTap(connected)
      BY <3>2, ByTapGrows
    <3> QED BY <3>1, <3>3, SeqGrows
  <2>3. inFlight \in Pending \cup {Nothing}
        /\ (inFlight # Nothing /\ inFlight.tap # NoTap => connected[inFlight.tap])
    BY DEF Typed, TrafficTyped
  <2>4. ClientGone(t, inFlight) /\ connected' = connected /\ unread' = unread
    BY <1>5
  <2>5. /\ TrafficTyped'
        /\ present' \in [Taps -> BOOLEAN] /\ inbox' \in [Taps -> Seq(Commands)]
        /\ \A u \in Taps : inbox'[u] \in Seq(Of(u))
    BY <2>2, <2>3, <2>4, GoneTyped
  <2>6. TapsTyped'
    BY <1>3, <2>4, <2>5 DEF Typed, TapsTyped
  <2> QED BY <1>1, <1>2, <2>5, <2>6 DEF Typed
<1> QED BY <1>4, <1>5

LEMMA LineLostTyped ==
    ASSUME Typed, LineLost
    PROVE  Typed'
<1> USE DEF LineLost
<1>1. ProgramsTyped'
  BY DEF Typed, ProgramsTyped, programs
<1>2. TapsTyped'
  BY DEF Typed, TapsTyped, taps
<1>3. \A S : <<>> \in Seq(S)
  OBVIOUS
<1>4. TrafficTyped'
  BY <1>3 DEF Typed, TrafficTyped, taps
<1>5. LineTyped'
  BY <1>3 DEF Typed, LineTyped
<1> QED BY <1>1, <1>2, <1>4, <1>5 DEF Typed

LEMMA CloseTyped ==
    ASSUME Typed, Close
    PROVE  Typed'
<1> USE DEF Close
<1>1. ProgramsTyped'
  BY DEF Typed, ProgramsTyped, programs
<1>2. \A S : <<>> \in Seq(S)
  OBVIOUS
<1>3. TapsTyped'
  BY <1>2 DEF Typed, TapsTyped
<1>4. TrafficTyped'
  <2>1. Append(toRadio, ReleaseCommand) \in Seq(Commands)
    BY ReleaseIs DEF Typed, TrafficTyped
  <2>2. toRadio' \in Seq(Commands)
    BY <2>1 DEF Typed, TrafficTyped
  <2> QED BY <1>2, <2>2 DEF Typed, TrafficTyped
<1>5. LineTyped'
  BY DEF Typed, LineTyped, radio
<1> QED BY <1>1, <1>3, <1>4, <1>5 DEF Typed

LEMMA SetPttAllowedTyped ==
    ASSUME Typed, NEW b \in BOOLEAN, SetPttAllowed(b)
    PROVE  Typed'
<1> USE DEF SetPttAllowed
<1>1. ProgramsTyped' /\ TapsTyped'
  BY DEF Typed, ProgramsTyped, programs, TapsTyped, taps
<1>2. TrafficTyped' /\ LineTyped'
  BY DEF Typed, TrafficTyped, traffic, taps, LineTyped, radio
<1> QED BY <1>1, <1>2 DEF Typed

LEMMA Pairs ==
    ASSUME NEW S, NEW x \in S, NEW y \in S
    PROVE  <<>> \o <<y>> = <<y>> /\ <<x>> \o <<y>> = <<x, y>>
<1>1. <<x>> \in Seq(S) /\ <<y>> \in Seq(S) /\ <<x, y>> \in Seq(S)
  OBVIOUS
<1>2. <<>> \o <<y>> = <<y>>
  BY <1>1
<1>3. <<x>> \o <<y>> = <<x, y>>
  <2> DEFINE z == <<x>> \o <<y>>
             w == <<x, y>>
  <2>1. z \in Seq(S) /\ Len(z) = 2 /\ z[1] = x /\ z[2] = y
    BY <1>1
  <2>2. w \in Seq(S) /\ Len(w) = 2 /\ w[1] = x /\ w[2] = y
    BY <1>1
  <2> HIDE DEF z, w
  <2>3. \A i \in 1 .. Len(z) : z[i] = w[i]
    BY <2>1, <2>2
  <2>4. z = w
    BY <2>1, <2>2, <2>3, SeqEqual
  <2> QED BY <2>4 DEF z, w
<1> QED BY <1>2, <1>3

\* What the radio says to a command is a reply to it: an echo first, on a
\* CI-V bus, and what closes the command last.
LEMMA SaysAre ==
    ASSUME NEW c \in Commands, NEW says \in SaysOf(c)
    PROVE  /\ says \in Seq(Replies)
           /\ \A i \in 1 .. Len(says) :
                 /\ says[i].kind # "spontaneous" /\ says[i].of = c
                 /\ says[i].kind = "echo" => dialect = "civ"
                 /\ says[i].kind # "echo" => i = Len(says)
<1> DEFINE e == [kind |-> "echo", of |-> c]
           r(k) == [kind |-> k, of |-> c]
<1>1. e \in Replies /\ e.kind = "echo" /\ e.of = c
  BY DEF Replies
<1>2. ASSUME NEW k \in {"answer", "error"}
      PROVE  r(k) \in Replies /\ r(k).kind \in {"answer", "error"} /\ r(k).of = c
  BY DEF Replies
<1>3. \/ says = <<>>
      \/ dialect = "civ" /\ says = <<e>>
      \/ \E k \in {"answer", "error"} :
            says = <<r(k)>> \/ (dialect = "civ" /\ says = <<e, r(k)>>)
  <2> DEFINE echo == IF dialect = "civ" /\ BusEcho THEN <<e>> ELSE <<>>
  <2>1. says \in {echo, echo \o <<r("answer")>>, echo \o <<r("error")>>}
        \/ says \in {echo \o <<r("answer")>>} \/ says \in {<<>>}
    BY DEF SaysOf
  <2>2. echo = <<>> \/ (dialect = "civ" /\ echo = <<e>>)
    OBVIOUS
  <2> HIDE DEF e, r
  <2>3. ASSUME NEW k \in {"answer", "error"}
        PROVE  <<>> \o <<r(k)>> = <<r(k)>> /\ <<e>> \o <<r(k)>> = <<e, r(k)>>
    <3>1. e \in Replies /\ r(k) \in Replies
      BY <1>1, <1>2
    <3> QED BY <3>1, Pairs
  <2>4. \A k \in {"answer", "error"} :
           echo \o <<r(k)>> = <<r(k)>> \/ (dialect = "civ" /\ echo \o <<r(k)>> = <<e, r(k)>>)
    BY <2>2, <2>3
  <2> HIDE DEF echo
  <2> QED BY <2>1, <2>2, <2>4
<1> HIDE DEF e, r
<1>4. CASE says = <<>>
  BY <1>4
<1>5. CASE dialect = "civ" /\ says = <<e>>
  BY <1>1, <1>5
<1>6. ASSUME NEW k \in {"answer", "error"}, says = <<r(k)>>
      PROVE  /\ says \in Seq(Replies)
             /\ \A i \in 1 .. Len(says) :
                   /\ says[i].kind # "spontaneous" /\ says[i].of = c
                   /\ says[i].kind = "echo" => dialect = "civ"
                   /\ says[i].kind # "echo" => i = Len(says)
  BY <1>2, <1>6
<1>7. ASSUME NEW k \in {"answer", "error"}, dialect = "civ", says = <<e, r(k)>>
      PROVE  /\ says \in Seq(Replies)
             /\ \A i \in 1 .. Len(says) :
                   /\ says[i].kind # "spontaneous" /\ says[i].of = c
                   /\ says[i].kind = "echo" => dialect = "civ"
                   /\ says[i].kind # "echo" => i = Len(says)
  <2>1. r(k) \in Replies /\ r(k).kind \in {"answer", "error"} /\ r(k).of = c
    BY <1>2
  <2>2. Len(says) = 2 /\ says[1] = e /\ says[2] = r(k) /\ says \in Seq(Replies)
    BY <1>1, <1>7, <2>1
  <2> QED BY <1>1, <1>7, <2>1, <2>2
<1> QED BY <1>3, <1>4, <1>5, <1>6, <1>7

LEMMA RadioTakesTyped ==
    ASSUME Typed, RadioTakes
    PROVE  Typed'
<1> USE DEF RadioTakes
<1>1. ProgramsTyped' /\ TapsTyped'
  BY DEF Typed, ProgramsTyped, programs, TapsTyped, taps
<1>2. Head(toRadio) \in Commands /\ Tail(toRadio) \in Seq(Commands)
  BY DEF Typed, TrafficTyped
<1>3. TrafficTyped'
  BY <1>2 DEF Typed, TrafficTyped, taps
<1>4. fromRadio' \in Seq(Replies)
  <2>1. fromRadio \in Seq(Replies)
    BY DEF Typed, LineTyped
  <2>2. ASSUME NEW says \in SaysOf(Head(toRadio)), fromRadio' = fromRadio \o says
        PROVE  fromRadio' \in Seq(Replies)
    BY <1>2, <2>1, <2>2, SaysAre
  <2>3. ASSUME fromRadio' = Append(fromRadio, [kind |-> "error", of |-> Head(toRadio)])
        PROVE  fromRadio' \in Seq(Replies)
    <3>1. [kind |-> "error", of |-> Head(toRadio)] \in Replies
      BY <1>2 DEF Replies
    <3> QED BY <2>1, <2>3, <3>1
  <2> QED BY <2>2, <2>3
<1>5. onAir' \in Who \cup {Nothing}
  <2>1. CASE onAir' = onAir
    BY <2>1 DEF Typed, LineTyped
  <2>2. CASE onAir' = Nothing
    BY <2>2
  <2>3. CASE Head(toRadio).what = "key"
             /\ onAir' = [by |-> Head(toRadio).by, gen |-> Head(toRadio).gen]
    BY <1>2, <2>3 DEF Commands, Who
  <2> QED BY <2>1, <2>2, <2>3
<1>6. LineTyped'
  BY <1>4, <1>5 DEF Typed, LineTyped
<1> QED BY <1>1, <1>3, <1>6 DEF Typed

LEMMA RadioSpeaksTyped ==
    ASSUME Typed, NEW code \in Spontaneous, RadioSpeaks(code)
    PROVE  Typed'
<1> USE DEF RadioSpeaks
<1>1. ProgramsTyped' /\ TapsTyped'
  BY DEF Typed, ProgramsTyped, programs, TapsTyped, taps
<1>2. TrafficTyped'
  BY DEF Typed, TrafficTyped, traffic, taps
<1>3. LineTyped'
  <2>1. [kind |-> "spontaneous", code |-> code] \in Replies
    BY DEF Replies
  <2> QED BY <2>1 DEF Typed, LineTyped
<1> QED BY <1>1, <1>2, <1>3 DEF Typed

LEMMA TypedStep ==
    ASSUME Typed, [Next]_vars
    PROVE  Typed'
<1>1. CASE UNCHANGED vars
  <2>1. UNCHANGED <<programs, unread, taps, traffic, dialect, pttAllowed, line, radio>>
    BY <1>1 DEF vars
  <2>2. ProgramsTyped' /\ TapsTyped'
    BY <2>1 DEF Typed, ProgramsTyped, programs, TapsTyped, taps
  <2>3. TrafficTyped' /\ LineTyped'
    BY <2>1 DEF Typed, TrafficTyped, traffic, taps, LineTyped, radio
  <2> QED BY <2>2, <2>3 DEF Typed
<1>2. CASE Next
  BY <1>2, OpenTyped, WriteTyped, LeaveTyped, OnTapDataTyped, CoalescedTyped,
     DisconnectedTyped, PairLostTyped, PollPinsTyped, OnPhysicalDataTyped, TimeoutTyped,
     LineLostTyped, CloseTyped, SetPttAllowedTyped, RadioTakesTyped, RadioSpeaksTyped, Zenon
     DEF Next
<1> QED BY <1>1, <1>2

LEMMA TypedTypeOK == Typed => TypeOK
<1> SUFFICES ASSUME Typed PROVE TypeOK
  OBVIOUS
<1>1. ByTap(connected) \subseteq Pending
  BY DEF ByTap
<1>2. queue \in Seq(Pending) /\ queue \in Seq(ByTap(connected))
  BY <1>1, SeqGrows DEF Typed, TrafficTyped
<1>3. \A i \in DOMAIN queue : queue[i].tap # NoTap => connected[queue[i].tap]
  BY <1>2 DEF ByTap
<1> QED BY <1>2, <1>3 DEF TypeOK, Typed, ProgramsTyped, TapsTyped, TrafficTyped, LineTyped

-----------------------------------------------------------------------------
(* The owner of the PTT                                                    *)

LEMMA PumpOwns ==
    ASSUME NEW q, NEW flight, NEW key, NEW got, NEW conn,
           Pumpable(q, flight, key, conn), toRadio \in Seq(Commands),
           InOrder(q, key), Owns(key, Has(q)),
           Pump(q, flight, key, got), UNCHANGED <<dialect, line, onAir>>
    PROVE  Owned'
<1>1. CASE flight = Nothing /\ q # <<>> /\ line # "closed"
  <2> DEFINE c == q[1].cmd
  <2>1. q \in Seq(ByTap(conn)) /\ q # <<>>
    BY <1>1 DEF Pumpable
  <2>2. /\ q[1] \in ByTap(conn) /\ Head(q) = q[1] /\ Tail(q) \in Seq(ByTap(conn))
        /\ Len(Tail(q)) = Len(q) - 1 /\ Len(q) \in Nat \ {0}
        /\ \A i \in 1 .. Len(Tail(q)) : Tail(q)[i] = q[i + 1]
    BY <2>1
  <2>3. c \in Commands /\ c.by = q[1].tap /\ c.what \in {"key", "unkey", "ask"}
    BY <2>2 DEF ByTap, Pending, Commands
  <2>4. /\ queue' = Tail(q) /\ keyedTap' = OwnerAfter(key, q[1])
        /\ toRadio' = IF line = "open" THEN Append(toRadio, c) ELSE toRadio
    BY <1>1, <2>2 DEF Pump
  <2>5. ~Has(Tail(q))
    <3>1. SUFFICES ASSUME NEW i \in DOMAIN Tail(q), Tail(q)[i] = Release PROVE FALSE
      BY DEF Has
    <3>2. i \in 1 .. Len(Tail(q))
      BY <2>2
    <3>3. q[i + 1] = Release /\ i + 1 \in DOMAIN q /\ i + 1 # 1
      BY <2>1, <2>2, <3>1, <3>2
    <3> QED BY <3>3 DEF InOrder
  <2>6. InOrder(queue, keyedTap)'
    <3>1. ~KnowsPtt' => keyedTap' = NoTap
      BY <2>4 DEF KnowsPtt, OwnerAfter, InOrder
    <3>2. \A i \in DOMAIN queue' : queue'[i] # Release
      BY <2>4, <2>5 DEF Has
    <3> QED BY <3>1, <3>2 DEF InOrder, Has
  <2>7. ASSUME ~RefusesBusy, line = "open", KnowsPtt
        PROVE  /\ \A i \in DOMAIN toRadio' :
                     Decides(i)' /\ toRadio'[i].what = "key" => keyedTap' = toRadio'[i].by
               /\ (\A i \in DOMAIN toRadio' : Asks(i)') /\ onAir # Nothing
                  => keyedTap' = onAir.by
    <3> DEFINE n == Len(toRadio)
    <3> HIDE DEF c
    <3>1. /\ toRadio' = Append(toRadio, c)
          /\ DOMAIN toRadio' = 1 .. n + 1 /\ DOMAIN toRadio = 1 .. n /\ n \in Nat
          /\ toRadio'[n + 1] = c /\ \A i \in 1 .. n : toRadio'[i] = toRadio[i]
      BY <2>3, <2>4, <2>7
    <3>2. CASE c.what = "ask"
      <4>1. keyedTap' = key
        BY <2>4, <3>2 DEF OwnerAfter, c
      <4>2. ~Has(q)
        <5>1. q[1] # Release
          BY <3>2, ReleaseIs DEF c
        <5> QED BY <5>1 DEF Has, InOrder
      <4>3. ASSUME NEW i \in DOMAIN toRadio', Decides(i)', toRadio'[i].what = "key"
            PROVE  keyedTap' = toRadio'[i].by
        <5>1. i \in 1 .. n /\ toRadio'[i] = toRadio[i]
          BY <3>1, <3>2, <4>3 DEF Decides, Asks
        <5>2. \A j \in 1 .. n : j > i => toRadio[j].what = "ask"
          BY <3>1, <4>3 DEF Decides, Asks
        <5>3. Decides(i) /\ toRadio[i].what = "key"
          BY <3>1, <4>3, <5>1, <5>2 DEF Decides, Asks
        <5> QED BY <2>7, <3>1, <4>1, <4>2, <5>1, <5>3 DEF Owns
      <4>4. ASSUME \A i \in DOMAIN toRadio' : Asks(i)', onAir # Nothing
            PROVE  keyedTap' = onAir.by
        <5>1. \A i \in DOMAIN toRadio : Asks(i)
          BY <3>1, <4>4 DEF Asks
        <5> QED BY <2>7, <4>1, <4>2, <4>4, <5>1 DEF Owns
      <4> QED BY <4>3, <4>4
    <3>3. CASE c.what # "ask"
      <4>1. ASSUME NEW i \in DOMAIN toRadio', Decides(i)', toRadio'[i].what = "key"
            PROVE  keyedTap' = toRadio'[i].by
        <5>1. i = n + 1
          <6>1. n + 1 > i => toRadio'[n + 1].what = "ask"
            BY <3>1, <4>1 DEF Decides, Asks
          <6> QED BY <3>1, <3>3, <6>1
        <5>2. c.what = "key" /\ toRadio'[i] = c
          BY <3>1, <4>1, <5>1
        <5>3. keyedTap' = q[1].tap
          BY <2>4, <2>7, <5>2 DEF OwnerAfter, c
        <5> QED BY <2>3, <5>2, <5>3
      <4>2. \E i \in DOMAIN toRadio' : ~Asks(i)'
        <5>1. n + 1 \in DOMAIN toRadio' /\ toRadio'[n + 1].what # "ask"
          BY <3>1, <3>3
        <5> QED BY <5>1 DEF Asks
      <4> QED BY <4>1, <4>2
    <3> QED BY <3>2, <3>3
  <2>8. Owns(keyedTap, Has(queue))'
    BY <2>7 DEF Owns, KnowsPtt
  <2> QED BY <2>6, <2>8 DEF Owned
<1>2. CASE ~(flight = Nothing /\ q # <<>> /\ line # "closed")
  <2>1. queue' = q /\ keyedTap' = key /\ toRadio' = toRadio
    BY <1>2 DEF Pump
  <2> QED BY <2>1 DEF Owned, InOrder, Owns, Has, Decides, Asks, KnowsPtt
<1> QED BY <1>1, <1>2

LEMMA FinishOwns ==
    ASSUME Typed, Owned, Finish, UNCHANGED <<dialect, line, onAir>>
    PROVE  Owned'
<1>1. Pumpable(queue, Nothing, keyedTap, connected) /\ toRadio \in Seq(Commands)
  BY DEF Typed, TrafficTyped, Pumpable
<1> QED BY <1>1, PumpOwns DEF Finish, Owned

LEMMA TakeOwns ==
    ASSUME Typed, Owned, NEW t \in Taps, NEW cmds \in Seq(Of(t)), connected[t],
           TakeTapCommands(t, cmds), UNCHANGED <<dialect, line, onAir>>
    PROVE  Owned'
<1> DEFINE e == Entries(t, cmds)
           q == queue \o e
<1>1. Pump(q, inFlight, keyedTap, gotReply) /\ Pumpable(q, inFlight, keyedTap, connected)
  BY TakeIsPump
<1>2. queue \in Seq(ByTap(connected)) /\ e \in Seq(ByTap(connected))
      /\ \A i \in 1 .. Len(e) : e[i] # Release
  BY EntriesAre DEF Typed, TrafficTyped
<1> HIDE DEF e
<1>3. /\ DOMAIN q = 1 .. Len(queue) + Len(e) /\ DOMAIN queue = 1 .. Len(queue)
      /\ Len(queue) \in Nat /\ Len(e) \in Nat
      /\ \A i \in 1 .. Len(queue) : q[i] = queue[i]
      /\ \A i \in DOMAIN q : i > Len(queue) => q[i] # Release
  <2>1. /\ DOMAIN q = 1 .. Len(queue) + Len(e) /\ DOMAIN queue = 1 .. Len(queue)
        /\ Len(queue) \in Nat /\ Len(e) \in Nat
        /\ \A i \in 1 .. Len(queue) : q[i] = queue[i]
    BY <1>2
  <2>2. ASSUME NEW i \in DOMAIN q, i > Len(queue) PROVE q[i] # Release
    <3>1. q[i] = e[i - Len(queue)] /\ i - Len(queue) \in 1 .. Len(e)
      BY <1>2, <2>1, <2>2
    <3> QED BY <1>2, <3>1
  <2> QED BY <2>1, <2>2
<1> HIDE DEF q
<1>4. Has(q) = Has(queue)
  <2>1. ASSUME NEW i \in DOMAIN q, q[i] = Release
        PROVE  i \in DOMAIN queue /\ queue[i] = Release
    BY <1>3, <2>1
  <2>2. ASSUME NEW i \in DOMAIN queue, queue[i] = Release
        PROVE  i \in DOMAIN q /\ q[i] = Release
    BY <1>3, <2>2
  <2> QED BY <2>1, <2>2 DEF Has
<1>5. InOrder(q, keyedTap)
  <2>1. ASSUME NEW i \in DOMAIN q, q[i] = Release PROVE i = 1
    <3>1. i \in DOMAIN queue /\ queue[i] = Release
      BY <1>3, <2>1
    <3> QED BY <3>1 DEF Owned, InOrder
  <2> QED BY <1>4, <2>1 DEF Owned, InOrder
<1>6. Owns(keyedTap, Has(q))
  BY <1>4 DEF Owned
<1>7. toRadio \in Seq(Commands)
  BY DEF Typed, TrafficTyped
<1> QED BY <1>1, <1>5, <1>6, <1>7, PumpOwns

LEMMA ClientGoneOwns ==
    ASSUME Typed, Owned, NEW t \in Taps, NEW flight, NEW conn,
           ClientGone(t, flight), Others(t) \in Seq(ByTap(conn)),
           flight \in Pending \cup {Nothing},
           flight # Nothing /\ flight.tap # NoTap => conn[flight.tap],
           UNCHANGED <<dialect, line, onAir>>
    PROVE  Owned'
<1> DEFINE o == Others(t)
<1>1. /\ \A i \in 1 .. Len(o) : \E k \in 1 .. Len(queue) : o[i] = queue[k] /\ i <= k
      /\ ReleaseQueued => \E i \in 1 .. Len(o) : o[i] = Release
  <2>1. queue \in Seq(ByTap(connected)) /\ connected \in [Taps -> BOOLEAN]
    BY DEF Typed, TapsTyped, TrafficTyped
  <2> QED BY <2>1, OthersAre
<1>2. queue \in Seq(ByTap(connected)) /\ o \in Seq(ByTap(conn)) /\ toRadio \in Seq(Commands)
  BY DEF Typed, TrafficTyped
<1> HIDE DEF o
<1>3. DOMAIN o = 1 .. Len(o) /\ DOMAIN queue = 1 .. Len(queue)
      /\ Len(o) \in Nat /\ Len(queue) \in Nat
  BY <1>2
<1>4. ASSUME NEW i \in DOMAIN o, o[i] = Release PROVE i = 1 /\ Has(queue)
  <2>1. PICK k \in 1 .. Len(queue) : queue[k] = Release /\ i <= k
    BY <1>1, <1>3, <1>4
  <2>2. k = 1 /\ Has(queue)
    BY <1>3, <2>1 DEF Owned, InOrder, Has
  <2> QED BY <1>3, <2>1, <2>2
<1>5. CASE keyedTap = t
  <2> DEFINE q == <<Release>> \o o
  <2>1. ~Has(queue) /\ t # NoTap
    BY <1>5, MuxAssumption DEF Owned, InOrder
  <2>2. \A i \in DOMAIN o : o[i] # Release
    BY <1>4, <2>1
  <2>3. /\ q \in Seq(ByTap(conn)) /\ DOMAIN q = 1 .. Len(o) + 1 /\ q[1] = Release
        /\ \A i \in DOMAIN q : i # 1 => q[i] = o[i - 1]
    BY <1>2, <1>3, ReleaseIs
  <2>4. Pump(q, flight, NoTap, gotReply)
    BY <1>5 DEF ClientGone, o
  <2> HIDE DEF q
  <2>5. Has(q)
    BY <1>3, <2>3 DEF Has
  <2>6. InOrder(q, NoTap)
    <3>1. ASSUME NEW i \in DOMAIN q, q[i] = Release PROVE i = 1
      <4>1. i # 1 => i - 1 \in DOMAIN o
        BY <1>3, <2>3
      <4> QED BY <2>2, <2>3, <3>1, <4>1
    <3> QED BY <3>1 DEF InOrder
  <2>7. Owns(NoTap, Has(q))
    BY <2>5 DEF Owns
  <2>8. Pumpable(q, flight, NoTap, conn)
    BY <2>3 DEF Pumpable
  <2> QED BY <1>2, <2>4, <2>6, <2>7, <2>8, PumpOwns
<1>6. CASE keyedTap # t
  <2>1. queue' = o /\ UNCHANGED <<keyedTap, toRadio>>
    BY <1>6 DEF ClientGone, o
  <2>2. Has(o) = Has(queue)
    <3>1. Has(o) => Has(queue)
      BY <1>4 DEF Has
    <3>2. Has(queue) => Has(o)
      BY <1>1, <1>3 DEF Has, ReleaseQueued
    <3> QED BY <3>1, <3>2 DEF Has
  <2>3. \A i \in DOMAIN o : o[i] = Release => i = 1
    BY <1>4
  <2>4. InOrder(queue, keyedTap)'
    <3>1. Has(queue') => keyedTap' = NoTap
      BY <2>1, <2>2 DEF Owned, InOrder
    <3>2. \A i \in DOMAIN queue' : queue'[i] = Release => i = 1
      BY <2>1, <2>3
    <3>3. ~KnowsPtt' => keyedTap' = NoTap
      BY <2>1 DEF Owned, InOrder, KnowsPtt
    <3> QED BY <3>1, <3>2, <3>3 DEF InOrder, Has
  <2>5. Owns(keyedTap, Has(o))
    BY <2>2 DEF Owned
  <2>6. Owns(keyedTap, Has(queue))'
    BY <2>1, <2>5 DEF Owns, Has, Decides, Asks, KnowsPtt
  <2> QED BY <2>4, <2>6 DEF Owned
<1> QED BY <1>5, <1>6

LEMMA OwnedInit == Init => Owned
<1> SUFFICES ASSUME Init PROVE Owned
  OBVIOUS
<1>1. queue = <<>> /\ toRadio = <<>> /\ onAir = Nothing /\ keyedTap = NoTap
  BY DEF Init
<1> QED BY <1>1 DEF Owned, InOrder, Owns, Has, Decides

\* What leaves the queue, the owner and the radio alone
LEMMA OwnedStays ==
    ASSUME Owned, UNCHANGED <<queue, keyedTap, toRadio, dialect, line, onAir>>
    PROVE  Owned'
  BY DEF Owned, InOrder, Owns, Has, Decides, Asks, KnowsPtt

\* The departure of a tap, whether or not its tap remains
LEMMA GoneOwns ==
    ASSUME Typed, Owned, NEW t \in Taps, GoneForGood(t)
    PROVE  Owned'
<1> DEFINE conn == [connected EXCEPT ![t] = FALSE]
           flight == IF inFlight # Nothing /\ inFlight.tap = t
                     THEN [inFlight EXCEPT !.tap = NoTap] ELSE inFlight
<1>1. connected \in [Taps -> BOOLEAN] /\ queue \in Seq(ByTap(connected))
      /\ inFlight \in Pending \cup {Nothing}
      /\ (inFlight # Nothing /\ inFlight.tap # NoTap => connected[inFlight.tap])
  BY DEF Typed, TapsTyped, TrafficTyped
<1>2. Others(t) \in Seq(ByTap(conn))
  BY <1>1, OthersAre
<1>3. flight \in Pending \cup {Nothing}
      /\ (flight # Nothing /\ flight.tap # NoTap => conn[flight.tap])
  <2>1. CASE inFlight # Nothing /\ inFlight.tap = t
    BY <1>1, <2>1 DEF Pending
  <2>2. CASE ~(inFlight # Nothing /\ inFlight.tap = t)
    BY <1>1, <2>2 DEF Pending
  <2> QED BY <2>1, <2>2
<1>4. ClientGone(t, flight) /\ UNCHANGED <<dialect, line, onAir>>
  BY DEF GoneForGood, radio
<1> HIDE DEF conn, flight
<1> QED BY <1>2, <1>3, <1>4, ClientGoneOwns

LEMMA PollPinsOwns ==
    ASSUME Typed, Owned, NEW t \in Taps, PollPins(t)
    PROVE  Owned'
<1>1. CASE open[t]
  BY <1>1, OwnedStays DEF PollPins, traffic, radio
<1>2. CASE ~open[t]
  <2>1. connected \in [Taps -> BOOLEAN] /\ queue \in Seq(ByTap(connected))
        /\ inFlight \in Pending \cup {Nothing}
        /\ (inFlight # Nothing /\ inFlight.tap # NoTap => connected[inFlight.tap])
    BY DEF Typed, TapsTyped, TrafficTyped
  <2>2. Others(t) \in Seq(ByTap([connected EXCEPT ![t] = FALSE]))
    BY <2>1, OthersAre
  <2>3. \A u \in Taps : [connected EXCEPT ![t] = FALSE][u] => connected[u]
    BY <2>1
  <2>4. Others(t) \in Seq(ByTap(connected))
    BY <2>2, <2>3, ByTapGrows, SeqGrows
  <2>5. ClientGone(t, inFlight) /\ UNCHANGED <<dialect, line, onAir>>
    BY <1>2 DEF PollPins, radio
  <2> QED BY <2>1, <2>4, <2>5, ClientGoneOwns
<1> QED BY <1>1, <1>2

LEMMA RadioTakesOwns ==
    ASSUME Typed, Owned, RadioTakes
    PROVE  Owned'
<1> DEFINE h == toRadio[1]
           n == Len(toRadio)
<1>1. /\ toRadio' = Tail(toRadio) /\ toRadio \in Seq(Commands) /\ toRadio # <<>>
      /\ Head(toRadio) = h
      /\ UNCHANGED <<queue, keyedTap, dialect, line>>
  BY DEF RadioTakes, Typed, TrafficTyped
<1>2. /\ n \in Nat \ {0} /\ DOMAIN toRadio = 1 .. n /\ DOMAIN toRadio' = 1 .. n - 1
      /\ h \in Commands /\ \A i \in 1 .. n - 1 : toRadio'[i] = toRadio[i + 1]
  BY <1>1
<1>3. InOrder(queue, keyedTap)'
  BY <1>1 DEF Owned, InOrder, Has, KnowsPtt
<1>4. ASSUME ~RefusesBusy, line = "open", KnowsPtt
      PROVE  /\ \A i \in DOMAIN toRadio' :
                   Decides(i)' /\ toRadio'[i].what = "key"
                   => keyedTap = toRadio'[i].by \/ Has(queue)
             /\ (\A i \in DOMAIN toRadio' : Asks(i)') /\ onAir' # Nothing
                => keyedTap = onAir'.by \/ Has(queue)
  <2>1. /\ \A i \in DOMAIN toRadio :
              Decides(i) /\ toRadio[i].what = "key" => keyedTap = toRadio[i].by \/ Has(queue)
        /\ (\A i \in DOMAIN toRadio : Asks(i)) /\ onAir # Nothing
           => keyedTap = onAir.by \/ Has(queue)
    BY <1>4 DEF Owned, Owns
  <2>2. ASSUME NEW i \in DOMAIN toRadio', Decides(i)', toRadio'[i].what = "key"
        PROVE  keyedTap = toRadio'[i].by \/ Has(queue)
    <3>1. i + 1 \in DOMAIN toRadio /\ toRadio'[i] = toRadio[i + 1]
      BY <1>2
    <3>2. ASSUME NEW j \in DOMAIN toRadio, j > i + 1 PROVE Asks(j)
      <4>1. j - 1 \in DOMAIN toRadio' /\ j - 1 > i /\ toRadio'[j - 1] = toRadio[j]
        BY <1>2, <3>2
      <4>2. toRadio'[j - 1].what = "ask"
        BY <2>2, <4>1 DEF Decides, Asks
      <4> QED BY <4>1, <4>2 DEF Asks
    <3>3. Decides(i + 1)
      BY <2>2, <3>1, <3>2 DEF Decides, Asks
    <3> QED BY <2>1, <2>2, <3>1, <3>3
  <2>3. ASSUME \A i \in DOMAIN toRadio' : Asks(i)', onAir' # Nothing
        PROVE  keyedTap = onAir'.by \/ Has(queue)
    <3>1. ASSUME NEW j \in DOMAIN toRadio, j > 1 PROVE Asks(j)
      <4>1. j - 1 \in DOMAIN toRadio' /\ toRadio'[j - 1] = toRadio[j]
        BY <1>2, <3>1
      <4>2. toRadio'[j - 1].what = "ask"
        BY <2>3, <4>1 DEF Asks
      <4> QED BY <4>1, <4>2 DEF Asks
    <3>2. 1 \in DOMAIN toRadio
      BY <1>2
    <3>3. CASE h.what = "ask"
      <4>1. onAir' = onAir
        BY <1>1, <3>3 DEF RadioTakes
      <4>2. \A j \in DOMAIN toRadio : Asks(j)
        <5>1. \A j \in DOMAIN toRadio : j = 1 \/ j > 1
          BY <1>2
        <5> QED BY <3>1, <3>3, <5>1 DEF Asks
      <4> QED BY <2>1, <2>3, <4>1, <4>2
    <3>4. CASE h.what = "unkey"
      BY <1>1, <2>3, <3>4 DEF RadioTakes
    <3>5. CASE h.what = "key"
      <4>1. Decides(1)
        BY <3>1, <3>2, <3>5 DEF Decides, Asks
      <4>2. onAir' = [by |-> h.by, gen |-> h.gen] \/ (onAir = Nothing /\ onAir' = onAir)
        BY <1>1, <1>4, <3>5 DEF RadioTakes
      <4>3. onAir'.by = h.by
        BY <2>3, <4>2
      <4> QED BY <2>1, <3>2, <3>5, <4>1, <4>3
    <3>6. h.what \in {"key", "unkey", "ask"}
      BY <1>2 DEF Commands
    <3> QED BY <3>3, <3>4, <3>5, <3>6
  <2> QED BY <2>2, <2>3
<1>5. Owns(keyedTap, Has(queue))'
  BY <1>1, <1>4 DEF Owns, Has, KnowsPtt
<1> QED BY <1>3, <1>5 DEF Owned

LEMMA OwnedStep ==
    ASSUME Typed, Owned, [Next]_vars
    PROVE  Owned'
<1>1. CASE UNCHANGED vars
  BY <1>1, OwnedStays DEF vars, traffic, radio
<1>2. ASSUME NEW t \in Taps, Open(t) PROVE Owned'
  BY <1>2, OwnedStays DEF Open, traffic, radio
<1>3. ASSUME NEW t \in Taps, Leave(t) PROVE Owned'
  BY <1>3, OwnedStays DEF Leave, traffic, radio
<1>4. ASSUME NEW t \in Taps, NEW what, NEW code, Write(t, what, code) PROVE Owned'
  BY <1>4, OwnedStays DEF Write, traffic, radio
<1>5. ASSUME NEW t \in Taps, OnTapData(t) PROVE Owned'
  <2>1. CASE dialect = "silence"
    BY <1>5, <2>1, OwnedStays DEF OnTapData, traffic, radio
  <2>2. CASE dialect # "silence"
    <3>1. unread[t] \in Seq(Of(t)) /\ connected[t] /\ TakeTapCommands(t, unread[t])
          /\ UNCHANGED <<dialect, line, onAir>>
      BY <1>5, <2>2 DEF OnTapData, Typed, TapsTyped, radio
    <3> QED BY <3>1, TakeOwns
  <2> QED BY <2>1, <2>2
<1>6. ASSUME NEW t \in Taps, Coalesced(t) PROVE Owned'
  <2>1. inbox[t] \in Seq(Of(t)) /\ connected[t] /\ TakeTapCommands(t, inbox[t])
        /\ UNCHANGED <<dialect, line, onAir>>
    BY <1>6 DEF Coalesced, Typed, TapsTyped, radio
  <2> QED BY <2>1, TakeOwns
<1>7. ASSUME NEW t \in Taps, Disconnected(t) PROVE Owned'
  BY <1>7, GoneOwns DEF Disconnected
<1>8. ASSUME NEW t \in Taps, PairLost(t) PROVE Owned'
  BY <1>8, GoneOwns DEF PairLost
<1>9. ASSUME NEW t \in Taps, PollPins(t) PROVE Owned'
  BY <1>9, PollPinsOwns
<1>10. ASSUME OnPhysicalData PROVE Owned'
  <2>1. /\ Finish \/ UNCHANGED <<queue, keyedTap, toRadio>>
        /\ UNCHANGED <<dialect, line, onAir>>
    BY <1>10 DEF OnPhysicalData, traffic
  <2> QED BY <2>1, FinishOwns, OwnedStays
<1>11. ASSUME Timeout PROVE Owned'
  BY <1>11, FinishOwns DEF Timeout, radio
<1>12. ASSUME LineLost PROVE Owned'
  <2>1. queue' = <<>> /\ line' = "lost" /\ UNCHANGED <<keyedTap, dialect>>
    BY <1>12 DEF LineLost
  <2>2. DOMAIN queue' = {}
    BY <2>1
  <2> QED BY <2>1, <2>2 DEF Owned, InOrder, Owns, Has, KnowsPtt
<1>13. ASSUME Close PROVE Owned'
  <2>1. queue' = <<>> /\ line' = "closed" /\ keyedTap' = NoTap
    BY <1>13 DEF Close
  <2>2. DOMAIN queue' = {}
    BY <2>1
  <2> QED BY <2>1, <2>2 DEF Owned, InOrder, Owns, Has
<1>14. ASSUME NEW b, SetPttAllowed(b) PROVE Owned'
  BY <1>14, OwnedStays DEF SetPttAllowed, traffic, radio
<1>15. ASSUME RadioTakes PROVE Owned'
  BY <1>15, RadioTakesOwns
<1>16. ASSUME NEW code, RadioSpeaks(code) PROVE Owned'
  BY <1>16, OwnedStays DEF RadioSpeaks, traffic
<1>17. CASE Next
  BY <1>17, <1>2, <1>3, <1>4, <1>5, <1>6, <1>7, <1>8, <1>9, <1>10, <1>11, <1>12, <1>13, <1>14,
     <1>15, <1>16, Zenon DEF Next
<1> QED BY <1>1, <1>17

-----------------------------------------------------------------------------
(* What the properties say, from the invariant                             *)

LEMMA LastExists ==
    ASSUME NEW n \in Nat, NEW I \in SUBSET (1 .. n), I # {}
    PROVE  \E i \in I : \A j \in I : j <= i
<1> DEFINE Above == {k \in Nat : \A j \in I : j <= k}
<1>1. Above # {} /\ Above \subseteq Nat
  <2>1. n \in Above
    OBVIOUS
  <2> QED BY <2>1
<1>2. \A k : k \in Above <=> k \in Nat /\ \A j \in I : j <= k
  OBVIOUS
<1> HIDE DEF Above
<1>3. PICK m \in Above : \A k \in Above : m <= k
  BY <1>1, LeastExists
<1>4. m \in I
  <2>1. SUFFICES ASSUME m \notin I PROVE FALSE
    OBVIOUS
  <2>2. m # 0
    <3>1. PICK j \in I : TRUE
      OBVIOUS
    <3>2. j \in 1 .. n /\ j <= m
      BY <1>2, <1>3
    <3> QED BY <1>2, <1>3, <3>2
  <2>3. m - 1 \in Nat /\ \A j \in I : j <= m - 1
    BY <1>2, <1>3, <2>1, <2>2
  <2>4. m - 1 \in Above
    BY <1>2, <2>3
  <2> QED BY <1>1, <1>3, <2>4
<1> QED BY <1>2, <1>3, <1>4

LEMMA HolderIs ==
    ASSUME toRadio \in Seq(Commands)
    PROVE  \/ (\A i \in DOMAIN toRadio : Asks(i)) /\ Holder = onAir
           \/ \E i \in DOMAIN toRadio :
                 /\ Decides(i)
                 /\ Holder = IF toRadio[i].what = "key"
                             THEN [by |-> toRadio[i].by, gen |-> toRadio[i].gen] ELSE Nothing
<1>1. CASE PttAt = {}
  <2>1. \A i \in DOMAIN toRadio : Asks(i)
    BY <1>1 DEF PttAt, Asks
  <2> QED BY <1>1, <2>1 DEF Holder
<1>2. CASE PttAt # {}
  <2> DEFINE i == CHOOSE i \in PttAt : \A j \in PttAt : j <= i
  <2>1. DOMAIN toRadio = 1 .. Len(toRadio) /\ Len(toRadio) \in Nat
    OBVIOUS
  <2>2. PttAt \in SUBSET (1 .. Len(toRadio))
    BY <2>1 DEF PttAt
  <2>3. \E k \in PttAt : \A j \in PttAt : j <= k
    BY <1>2, <2>1, <2>2, LastExists
  <2>4. i \in PttAt /\ \A j \in PttAt : j <= i
    BY <2>3
  <2>5. LastPtt = toRadio[i]
    BY DEF LastPtt
  <2> HIDE DEF i
  <2>6. i \in DOMAIN toRadio /\ ~Asks(i)
    BY <2>4 DEF PttAt, Asks
  <2>7. ASSUME NEW j \in DOMAIN toRadio, j > i PROVE Asks(j)
    <3>1. j \notin PttAt
      BY <2>1, <2>4, <2>6, <2>7
    <3> QED BY <3>1 DEF PttAt, Asks
  <2>8. Decides(i)
    BY <2>6, <2>7 DEF Decides
  <2> QED BY <1>2, <2>5, <2>6, <2>8 DEF Holder
<1> QED BY <1>1, <1>2

LEMMA ReleaseQueuedIsHas == ReleaseQueued <=> Has(queue)
  BY DEF ReleaseQueued, Has

LEMMA OwnedReleaseFirst == Owned => ReleaseFirst
  BY DEF Owned, InOrder, ReleaseFirst

LEMMA OwnedHasAnOwner ==
    ASSUME Typed, Owned, ~RefusesBusy
    PROVE  PttHasAnOwner
<1> SUFFICES ASSUME line = "open", KnowsPtt, Holder # Nothing
             PROVE  keyedTap = Holder.by \/ ReleaseQueued
  BY DEF PttHasAnOwner
<1>1. /\ \A i \in DOMAIN toRadio :
            Decides(i) /\ toRadio[i].what = "key" => keyedTap = toRadio[i].by \/ ReleaseQueued
      /\ (\A i \in DOMAIN toRadio : Asks(i)) /\ onAir # Nothing
         => keyedTap = onAir.by \/ ReleaseQueued
  BY ReleaseQueuedIsHas DEF Owned, Owns
<1>2. toRadio \in Seq(Commands)
  BY DEF Typed, TrafficTyped
<1>3. CASE (\A i \in DOMAIN toRadio : Asks(i)) /\ Holder = onAir
  BY <1>1, <1>3
<1>4. ASSUME NEW i \in DOMAIN toRadio, Decides(i),
             Holder = IF toRadio[i].what = "key"
                      THEN [by |-> toRadio[i].by, gen |-> toRadio[i].gen] ELSE Nothing
      PROVE  keyedTap = Holder.by \/ ReleaseQueued
  <2>1. toRadio[i].what = "key" /\ Holder.by = toRadio[i].by
    BY <1>4
  <2> QED BY <1>1, <1>4, <2>1
<1> QED BY <1>2, <1>3, <1>4, HolderIs

LEMMA CloseReleases ==
    ASSUME Typed, Owned, ~RefusesBusy, Close, line = "open", KnowsPtt, ~ReleaseQueued
    PROVE  Holder' = Nothing
<1>1. toRadio \in Seq(Commands) /\ onAir \in Who \cup {Nothing}
  BY DEF Typed, TrafficTyped, LineTyped
<1>2. CASE keyedTap # NoTap
  <2> DEFINE n == Len(toRadio)
  <2>1. toRadio' = Append(toRadio, ReleaseCommand)
    BY <1>2 DEF Close
  <2>2. n \in Nat /\ DOMAIN toRadio' = 1 .. n + 1 /\ toRadio'[n + 1] = ReleaseCommand
    BY <1>1, <2>1
  <2> HIDE DEF n
  <2>3. n + 1 \in PttAt' /\ \A j \in PttAt' : j <= n + 1
    BY <2>2, ReleaseIs DEF PttAt
  <2> DEFINE i == CHOOSE i \in PttAt' : \A j \in PttAt' : j <= i
  <2>4. i \in PttAt' /\ \A j \in PttAt' : j <= i
    BY <2>3
  <2>5. i = n + 1
    <3>1. i <= n + 1 /\ n + 1 <= i
      BY <2>3, <2>4
    <3>2. i \in Nat
      BY <2>2, <2>4 DEF PttAt
    <3> HIDE DEF i
    <3> QED BY <2>2, <3>1, <3>2
  <2>6. LastPtt' = toRadio'[i]
    BY DEF LastPtt
  <2>7. LastPtt' = ReleaseCommand
    BY <2>2, <2>5, <2>6
  <2>8. PttAt' # {}
    BY <2>3
  <2> QED BY <2>7, <2>8, ReleaseIs DEF Holder
<1>3. CASE keyedTap = NoTap
  <2>1. toRadio' = toRadio /\ onAir' = onAir
    BY <1>3 DEF Close, radio
  <2>2. Holder' = Holder
    BY <2>1 DEF Holder, PttAt, LastPtt
  <2>3. Holder = Nothing
    <3>1. CASE (\A i \in DOMAIN toRadio : Asks(i)) /\ Holder = onAir
      <4>1. onAir # Nothing => onAir.by \in Taps
        BY <1>1 DEF Who
      <4>2. onAir # Nothing => keyedTap = onAir.by
        BY <3>1, ReleaseQueuedIsHas DEF Owned, Owns
      <4> QED BY <1>3, <3>1, <4>1, <4>2, MuxAssumption
    <3>2. ASSUME NEW i \in DOMAIN toRadio, Decides(i),
                 Holder = IF toRadio[i].what = "key"
                          THEN [by |-> toRadio[i].by, gen |-> toRadio[i].gen] ELSE Nothing
          PROVE  Holder = Nothing
      <4>1. toRadio[i] \in Commands
        BY <1>1
      <4>2. toRadio[i].what = "key" => toRadio[i].by \in Taps
        BY <4>1 DEF Commands
      <4>3. toRadio[i].what = "key" => keyedTap = toRadio[i].by
        BY <3>2, ReleaseQueuedIsHas DEF Owned, Owns
      <4> QED BY <1>3, <3>2, <4>2, <4>3, MuxAssumption
    <3> QED BY <1>1, <3>1, <3>2, HolderIs
  <2> QED BY <2>2, <2>3
<1> QED BY <1>2, <1>3

-----------------------------------------------------------------------------
(* Forbidden keys                                                          *)

\* What pump writes to the line comes from the head of the queue it is given.
LEMMA PumpWrites ==
    ASSUME NEW q, NEW flight, NEW key, NEW got, NEW conn,
           Pumpable(q, flight, key, conn), toRadio \in Seq(Commands),
           \A i \in DOMAIN q : ~Untrusted(q[i].cmd),
           Pump(q, flight, key, got)
    PROVE  ~WaitingToKey' /\ ~KeysAfter
<1>1. CASE flight = Nothing /\ q # <<>> /\ line # "closed"
  <2>1. q \in Seq(ByTap(conn)) /\ q # <<>>
    BY <1>1 DEF Pumpable
  <2>2. /\ q[1] \in ByTap(conn) /\ Head(q) = q[1] /\ Tail(q) \in Seq(ByTap(conn))
        /\ DOMAIN Tail(q) = 1 .. Len(q) - 1 /\ DOMAIN q = 1 .. Len(q) /\ Len(q) \in Nat \ {0}
        /\ \A i \in 1 .. Len(q) - 1 : Tail(q)[i] = q[i + 1]
    BY <2>1
  <2>3. queue' = Tail(q)
        /\ toRadio' = IF line = "open" THEN Append(toRadio, q[1].cmd) ELSE toRadio
    BY <1>1, <2>2 DEF Pump
  <2>4. ASSUME NEW i \in DOMAIN queue' PROVE ~Untrusted(queue'[i].cmd)
    <3>1. i + 1 \in DOMAIN q /\ queue'[i] = q[i + 1]
      BY <2>2, <2>3
    <3> QED BY <3>1
  <2>5. ~WaitingToKey'
    BY <2>4 DEF WaitingToKey, Untrusted
  <2>6. q[1].cmd \in Commands /\ ~Untrusted(q[1].cmd)
    BY <2>2 DEF ByTap, Pending
  <2>7. CASE line = "open"
    <3>1. toRadio'[Len(toRadio')] = q[1].cmd
      BY <2>3, <2>6, <2>7
    <3> QED BY <2>5, <2>6, <3>1 DEF KeysAfter
  <2>8. CASE line # "open"
    BY <2>3, <2>5, <2>8 DEF KeysAfter
  <2> QED BY <2>7, <2>8
<1>2. CASE ~(flight = Nothing /\ q # <<>> /\ line # "closed")
  <2>1. queue' = q /\ toRadio' = toRadio
    BY <1>2 DEF Pump
  <2>2. ~WaitingToKey'
    BY <2>1 DEF WaitingToKey, Untrusted
  <2>3. ~KeysAfter
    BY <2>1 DEF KeysAfter
  <2> QED BY <2>2, <2>3
<1> QED BY <1>1, <1>2

LEMMA NothingWritten ==
    ASSUME ~WaitingToKey, UNCHANGED <<queue, toRadio>>
    PROVE  ~WaitingToKey' /\ ~KeysAfter
<1>1. ~WaitingToKey'
  BY DEF WaitingToKey, Untrusted
<1>2. ~KeysAfter
  BY DEF KeysAfter
<1> QED BY <1>1, <1>2

LEMMA FinishWrites ==
    ASSUME Typed, ~WaitingToKey, Finish
    PROVE  ~WaitingToKey' /\ ~KeysAfter
<1>1. Pumpable(queue, Nothing, keyedTap, connected) /\ toRadio \in Seq(Commands)
  BY DEF Typed, TrafficTyped, Pumpable
<1>2. \A i \in DOMAIN queue : ~Untrusted(queue[i].cmd)
  BY DEF WaitingToKey
<1> QED BY <1>1, <1>2, PumpWrites DEF Finish

LEMMA TakeWrites ==
    ASSUME Typed, ~WaitingToKey, KnowsPtt, ~pttAllowed,
           NEW t \in Taps, NEW cmds \in Seq(Of(t)), connected[t], TakeTapCommands(t, cmds)
    PROVE  ~WaitingToKey' /\ ~KeysAfter
<1> DEFINE e == Entries(t, cmds)
           q == queue \o e
<1>1. Pump(q, inFlight, keyedTap, gotReply) /\ Pumpable(q, inFlight, keyedTap, connected)
  BY TakeIsPump
<1>2. queue \in Seq(ByTap(connected)) /\ e \in Seq(ByTap(connected))
      /\ \A i \in 1 .. Len(e) : ~Refused(t, e[i].cmd) /\ e[i].cmd.by = t
  BY EntriesAre DEF Typed, TrafficTyped
<1>3. \A i \in 1 .. Len(e) : ~Untrusted(e[i].cmd)
  BY <1>2 DEF Refused, Untrusted
<1> HIDE DEF e
<1>4. ASSUME NEW i \in DOMAIN q PROVE ~Untrusted(q[i].cmd)
  <2>1. \/ i \in DOMAIN queue /\ q[i] = queue[i]
        \/ i - Len(queue) \in 1 .. Len(e) /\ q[i] = e[i - Len(queue)]
    BY <1>2
  <2> QED BY <1>3, <2>1 DEF WaitingToKey
<1> HIDE DEF q
<1>5. toRadio \in Seq(Commands)
  BY DEF Typed, TrafficTyped
<1> QED BY <1>1, <1>4, <1>5, PumpWrites

LEMMA ClientGoneWrites ==
    ASSUME Typed, ~WaitingToKey, NEW t \in Taps, NEW flight, NEW conn,
           ClientGone(t, flight), Others(t) \in Seq(ByTap(conn)),
           flight \in Pending \cup {Nothing},
           flight # Nothing /\ flight.tap # NoTap => conn[flight.tap]
    PROVE  ~WaitingToKey' /\ ~KeysAfter
<1> DEFINE o == Others(t)
<1>1. \A i \in 1 .. Len(o) : \E k \in 1 .. Len(queue) : o[i] = queue[k] /\ i <= k
  <2>1. queue \in Seq(ByTap(connected)) /\ connected \in [Taps -> BOOLEAN]
    BY DEF Typed, TapsTyped, TrafficTyped
  <2> QED BY <2>1, OthersAre
<1>2. queue \in Seq(ByTap(connected)) /\ o \in Seq(ByTap(conn)) /\ toRadio \in Seq(Commands)
  BY DEF Typed, TrafficTyped
<1> HIDE DEF o
<1>3. \A i \in DOMAIN o : ~Untrusted(o[i].cmd)
  <2>1. DOMAIN o = 1 .. Len(o) /\ DOMAIN queue = 1 .. Len(queue)
    BY <1>2
  <2> QED BY <1>1, <2>1 DEF WaitingToKey
<1>4. CASE keyedTap = t
  <2> DEFINE q == <<Release>> \o o
  <2>1. /\ q \in Seq(ByTap(conn)) /\ q[1] = Release
        /\ \A i \in DOMAIN q : i # 1 => i - 1 \in DOMAIN o /\ q[i] = o[i - 1]
    BY <1>2, ReleaseIs
  <2>2. Pump(q, flight, NoTap, gotReply)
    BY <1>4 DEF ClientGone, o
  <2> HIDE DEF q
  <2>3. \A i \in DOMAIN q : ~Untrusted(q[i].cmd)
    <3>1. ~Untrusted(Release.cmd)
      BY ReleaseIs DEF Untrusted
    <3> QED BY <1>3, <2>1, <3>1
  <2>4. Pumpable(q, flight, NoTap, conn)
    BY <2>1 DEF Pumpable
  <2> QED BY <1>2, <2>2, <2>3, <2>4, PumpWrites
<1>5. CASE keyedTap # t
  <2>1. queue' = o /\ toRadio' = toRadio
    BY <1>5 DEF ClientGone, o
  <2>2. ~WaitingToKey'
    BY <1>3, <2>1 DEF WaitingToKey, Untrusted
  <2>3. ~KeysAfter
    BY <2>1 DEF KeysAfter
  <2> QED BY <2>2, <2>3
<1> QED BY <1>4, <1>5

LEMMA GoneWrites ==
    ASSUME Typed, ~WaitingToKey, NEW t \in Taps, GoneForGood(t)
    PROVE  ~WaitingToKey' /\ ~KeysAfter
<1> DEFINE conn == [connected EXCEPT ![t] = FALSE]
           flight == IF inFlight # Nothing /\ inFlight.tap = t
                     THEN [inFlight EXCEPT !.tap = NoTap] ELSE inFlight
<1>1. connected \in [Taps -> BOOLEAN] /\ queue \in Seq(ByTap(connected))
      /\ inFlight \in Pending \cup {Nothing}
      /\ (inFlight # Nothing /\ inFlight.tap # NoTap => connected[inFlight.tap])
  BY DEF Typed, TapsTyped, TrafficTyped
<1>2. Others(t) \in Seq(ByTap(conn))
  BY <1>1, OthersAre
<1>3. flight \in Pending \cup {Nothing}
      /\ (flight # Nothing /\ flight.tap # NoTap => conn[flight.tap])
  <2>1. CASE inFlight # Nothing /\ inFlight.tap = t
    BY <1>1, <2>1 DEF Pending
  <2>2. CASE ~(inFlight # Nothing /\ inFlight.tap = t)
    BY <1>1, <2>2 DEF Pending
  <2> QED BY <2>1, <2>2
<1>4. ClientGone(t, flight)
  BY DEF GoneForGood
<1> HIDE DEF conn, flight
<1> QED BY <1>2, <1>3, <1>4, ClientGoneWrites

LEMMA PollPinsWrites ==
    ASSUME Typed, ~WaitingToKey, NEW t \in Taps, PollPins(t)
    PROVE  ~WaitingToKey' /\ ~KeysAfter
<1>1. CASE open[t]
  BY <1>1, NothingWritten DEF PollPins, traffic
<1>2. CASE ~open[t]
  <2>1. connected \in [Taps -> BOOLEAN] /\ queue \in Seq(ByTap(connected))
        /\ inFlight \in Pending \cup {Nothing}
        /\ (inFlight # Nothing /\ inFlight.tap # NoTap => connected[inFlight.tap])
    BY DEF Typed, TapsTyped, TrafficTyped
  <2>2. Others(t) \in Seq(ByTap([connected EXCEPT ![t] = FALSE]))
    BY <2>1, OthersAre
  <2>3. \A u \in Taps : [connected EXCEPT ![t] = FALSE][u] => connected[u]
    BY <2>1
  <2>4. Others(t) \in Seq(ByTap(connected))
    BY <2>2, <2>3, ByTapGrows, SeqGrows
  <2>5. ClientGone(t, inFlight)
    BY <1>2 DEF PollPins
  <2> QED BY <2>1, <2>4, <2>5, ClientGoneWrites
<1> QED BY <1>1, <1>2

LEMMA ForbiddenStep ==
    ASSUME Typed, ~WaitingToKey, KnowsPtt, ~pttAllowed, Next
    PROVE  ~WaitingToKey' /\ ~KeysAfter
<1> DEFINE Dies == ~WaitingToKey' /\ ~KeysAfter
<1>1. ASSUME NEW t \in Taps, Open(t) PROVE Dies
  BY <1>1, NothingWritten DEF Open, traffic
<1>2. ASSUME NEW t \in Taps, Leave(t) PROVE Dies
  BY <1>2, NothingWritten DEF Leave, traffic
<1>3. ASSUME NEW t \in Taps, NEW what, NEW code, Write(t, what, code) PROVE Dies
  BY <1>3, NothingWritten DEF Write, traffic
<1>4. ASSUME NEW t \in Taps, OnTapData(t) PROVE Dies
  <2>1. unread[t] \in Seq(Of(t)) /\ connected[t] /\ TakeTapCommands(t, unread[t])
    BY <1>4 DEF OnTapData, Typed, TapsTyped, KnowsPtt
  <2> QED BY <2>1, TakeWrites
<1>5. ASSUME NEW t \in Taps, Coalesced(t) PROVE Dies
  <2>1. inbox[t] \in Seq(Of(t)) /\ connected[t] /\ TakeTapCommands(t, inbox[t])
    BY <1>5 DEF Coalesced, Typed, TapsTyped
  <2> QED BY <2>1, TakeWrites
<1>6. ASSUME NEW t \in Taps, Disconnected(t) PROVE Dies
  BY <1>6, GoneWrites DEF Disconnected
<1>7. ASSUME NEW t \in Taps, PairLost(t) PROVE Dies
  BY <1>7, GoneWrites DEF PairLost
<1>8. ASSUME NEW t \in Taps, PollPins(t) PROVE Dies
  BY <1>8, PollPinsWrites
<1>9. ASSUME OnPhysicalData PROVE Dies
  <2>1. Finish \/ UNCHANGED <<queue, toRadio>>
    BY <1>9 DEF OnPhysicalData, traffic
  <2> QED BY <2>1, FinishWrites, NothingWritten
<1>10. ASSUME Timeout PROVE Dies
  BY <1>10, FinishWrites DEF Timeout
<1>11. ASSUME LineLost PROVE Dies
  <2>1. queue' = <<>> /\ toRadio' = <<>>
    BY <1>11 DEF LineLost
  <2> QED BY <2>1 DEF WaitingToKey, KeysAfter
<1>12. ASSUME Close PROVE Dies
  <2>1. queue' = <<>>
        /\ (toRadio' = Append(toRadio, ReleaseCommand) \/ toRadio' = toRadio)
    BY <1>12 DEF Close
  <2>2. ~WaitingToKey'
    BY <2>1 DEF WaitingToKey
  <2>3. CASE toRadio' = Append(toRadio, ReleaseCommand)
    <3>1. toRadio'[Len(toRadio')] = ReleaseCommand
      BY <2>3, ReleaseIs DEF Typed, TrafficTyped
    <3>2. ~Untrusted(ReleaseCommand)
      BY ReleaseIs DEF Untrusted
    <3> QED BY <2>2, <3>1, <3>2 DEF KeysAfter
  <2>4. CASE toRadio' = toRadio
    BY <2>2, <2>4 DEF KeysAfter
  <2> QED BY <2>1, <2>3, <2>4
<1>13. ASSUME NEW b, SetPttAllowed(b) PROVE Dies
  BY <1>13, NothingWritten DEF SetPttAllowed, traffic
<1>14. ASSUME RadioTakes PROVE Dies
  <2>1. queue' = queue /\ toRadio' = Tail(toRadio) /\ toRadio \in Seq(Commands) /\ toRadio # <<>>
    BY <1>14 DEF RadioTakes, Typed, TrafficTyped
  <2>2. ~WaitingToKey'
    BY <2>1 DEF WaitingToKey, Untrusted
  <2>3. ~(Len(toRadio') > Len(toRadio))
    BY <2>1
  <2> QED BY <2>2, <2>3 DEF KeysAfter
<1>15. ASSUME NEW code, RadioSpeaks(code) PROVE Dies
  BY <1>15, NothingWritten DEF RadioSpeaks, traffic
<1> HIDE DEF Dies
<1>16. Dies
  BY <1>1, <1>2, <1>3, <1>4, <1>5, <1>6, <1>7, <1>8, <1>9, <1>10, <1>11, <1>12, <1>13, <1>14,
     <1>15, Zenon DEF Next
<1> QED BY <1>16 DEF Dies

-----------------------------------------------------------------------------
(* Whose reply is whose                                                    *)

LEMMA PumpOne ==
    ASSUME NEW q, NEW flight, NEW key, NEW got, NEW conn,
           Pumpable(q, flight, key, conn), toRadio \in Seq(Commands),
           line = "open" => One(flight, toRadio, fromRadio'),
           Pump(q, flight, key, got), UNCHANGED <<dialect, line>>
    PROVE  OneAtATime'
<1> SUFFICES ASSUME line = "open" PROVE One(inFlight, toRadio, fromRadio)'
  BY DEF OneAtATime
<1>1. CASE flight = Nothing /\ q # <<>>
  <2>1. q[1] \in ByTap(conn) /\ Head(q) = q[1]
    BY <1>1 DEF Pumpable
  <2>2. q[1] # Nothing
    BY <2>1, NothingAssumption DEF ByTap
  <2>3. toRadio = <<>> /\ \A i \in DOMAIN fromRadio' : fromRadio'[i].kind = "spontaneous"
    BY <1>1 DEF One
  <2>4. inFlight' = q[1] /\ toRadio' = Append(toRadio, q[1].cmd)
    BY <1>1, <2>1 DEF Pump
  <2>5. Len(toRadio') = 1 /\ DOMAIN toRadio' = 1 .. 1 /\ toRadio'[1] = q[1].cmd
    BY <2>3, <2>4
  <2>6. \A i \in DOMAIN toRadio' : toRadio'[i] = inFlight'.cmd
    BY <2>4, <2>5
  <2> QED BY <2>2, <2>3, <2>4, <2>5, <2>6 DEF One
<1>2. CASE ~(flight = Nothing /\ q # <<>>)
  <2>1. inFlight' = flight /\ toRadio' = toRadio
    BY <1>2 DEF Pump
  <2> QED BY <2>1 DEF One
<1> QED BY <1>1, <1>2

\* A reply taken for that of the command in flight is no message of the
\* radio's own, and what closes the command is no echo.
LEMMA ClassifyIs ==
    ASSUME Typed, OneAtATime, Asked \cap Spontaneous = {}, line = "open", fromRadio # <<>>,
           Classify(inFlight, Head(fromRadio)) \in {"answer", "echo"}
    PROVE  /\ inFlight # Nothing
           /\ Head(fromRadio) = fromRadio[1] /\ 1 \in DOMAIN fromRadio
           /\ fromRadio[1].kind # "spontaneous"
           /\ Classify(inFlight, Head(fromRadio)) = "answer" => fromRadio[1].kind # "echo"
<1> DEFINE r == fromRadio[1]
<1>1. Head(fromRadio) = r /\ 1 \in DOMAIN fromRadio /\ r \in Replies
  BY DEF Typed, LineTyped
<1>2. r.kind = "spontaneous" => r.code \in Spontaneous
  BY <1>1 DEF Replies
<1>3. r.kind = "echo" => dialect = "civ"
  BY <1>1 DEF OneAtATime, One
<1> HIDE DEF r
<1>4. Classify(inFlight, r) \in {"answer", "echo"}
  BY <1>1
<1>5. inFlight # Nothing
  BY <1>4 DEF Classify
<1>6. inFlight.cmd.code \in Asked
  <2>1. inFlight \in Pending
    BY <1>5 DEF Typed, TrafficTyped
  <2>2. inFlight.cmd \in Commands
    BY <2>1 DEF Pending
  <2> QED BY <2>2 DEF Commands
<1>7. dialect \in {"text", "civ"}
  <2>1. dialect # "silence"
    BY <1>4, <1>5 DEF Classify
  <2> QED BY <2>1, MuxAssumption DEF Typed, LineTyped
<1>8. r.kind # "spontaneous"
  <2>1. SUFFICES ASSUME r.kind = "spontaneous" PROVE FALSE
    OBVIOUS
  <2>2. r.code # inFlight.cmd.code
    BY <1>2, <1>6, <2>1
  <2> QED BY <1>4, <1>5, <1>7, <2>1, <2>2 DEF Classify
<1>9. Classify(inFlight, r) = "answer" => r.kind # "echo"
  <2>1. SUFFICES ASSUME r.kind = "echo" PROVE Classify(inFlight, r) # "answer"
    OBVIOUS
  <2> QED BY <1>3, <1>5, <2>1 DEF Classify
<1> QED BY <1>1, <1>5, <1>8, <1>9 DEF r

LEMMA OneAnswersBelong ==
    ASSUME Typed, OneAtATime, Asked \cap Spontaneous = {}
    PROVE  AnswersBelong
<1> SUFFICES ASSUME line = "open", fromRadio # <<>>,
                    Classify(inFlight, Head(fromRadio)) \in {"answer", "echo"}
             PROVE  Head(fromRadio).kind # "spontaneous" /\ Head(fromRadio).of = inFlight.cmd
  BY DEF AnswersBelong
<1>1. /\ Head(fromRadio) = fromRadio[1] /\ 1 \in DOMAIN fromRadio
      /\ fromRadio[1].kind # "spontaneous"
  BY ClassifyIs
<1> QED BY <1>1 DEF OneAtATime, One

LEMMA OneStays ==
    ASSUME OneAtATime, UNCHANGED <<dialect, line, inFlight, toRadio, fromRadio>>
    PROVE  OneAtATime'
  BY DEF OneAtATime, One

LEMMA TakeOne ==
    ASSUME Typed, OneAtATime, NEW t \in Taps, NEW cmds \in Seq(Of(t)), connected[t],
           TakeTapCommands(t, cmds), UNCHANGED <<dialect, line, fromRadio>>
    PROVE  OneAtATime'
<1> DEFINE q == queue \o Entries(t, cmds)
<1>1. Pump(q, inFlight, keyedTap, gotReply) /\ Pumpable(q, inFlight, keyedTap, connected)
  BY TakeIsPump
<1>2. line = "open" => One(inFlight, toRadio, fromRadio')
  BY DEF OneAtATime
<1>3. toRadio \in Seq(Commands)
  BY DEF Typed, TrafficTyped
<1> HIDE DEF q
<1> QED BY <1>1, <1>2, <1>3, PumpOne

\* The departure of a tap changes no more of the command in flight than its tap.
LEMMA ClientGoneOne ==
    ASSUME Typed, OneAtATime, NEW t \in Taps, NEW flight, NEW conn,
           ClientGone(t, flight), Others(t) \in Seq(ByTap(conn)),
           flight \in Pending \cup {Nothing},
           flight # Nothing /\ flight.tap # NoTap => conn[flight.tap],
           flight = Nothing <=> inFlight = Nothing,
           flight.cmd = inFlight.cmd,
           UNCHANGED <<dialect, line, fromRadio>>
    PROVE  OneAtATime'
<1>1. line = "open" => One(flight, toRadio, fromRadio')
  BY DEF OneAtATime, One
<1>2. CASE keyedTap = t
  <2> DEFINE q == <<Release>> \o Others(t)
  <2>1. q \in Seq(ByTap(conn))
    BY ReleaseIs
  <2>2. Pump(q, flight, NoTap, gotReply)
    BY <1>2 DEF ClientGone
  <2> HIDE DEF q
  <2>3. Pumpable(q, flight, NoTap, conn) /\ toRadio \in Seq(Commands)
    BY <2>1 DEF Pumpable, Typed, TrafficTyped
  <2> QED BY <1>1, <2>2, <2>3, PumpOne
<1>3. CASE keyedTap # t
  <2>1. inFlight' = flight /\ toRadio' = toRadio
    BY <1>3 DEF ClientGone
  <2> QED BY <1>1, <2>1 DEF OneAtATime, One
<1> QED BY <1>2, <1>3

LEMMA GoneOne ==
    ASSUME Typed, OneAtATime, NEW t \in Taps, GoneForGood(t)
    PROVE  OneAtATime'
<1> DEFINE conn == [connected EXCEPT ![t] = FALSE]
           flight == IF inFlight # Nothing /\ inFlight.tap = t
                     THEN [inFlight EXCEPT !.tap = NoTap] ELSE inFlight
<1>1. connected \in [Taps -> BOOLEAN] /\ queue \in Seq(ByTap(connected))
      /\ inFlight \in Pending \cup {Nothing}
      /\ (inFlight # Nothing /\ inFlight.tap # NoTap => connected[inFlight.tap])
  BY DEF Typed, TapsTyped, TrafficTyped
<1>2. Others(t) \in Seq(ByTap(conn))
  BY <1>1, OthersAre
<1>3. /\ flight \in Pending \cup {Nothing}
      /\ flight # Nothing /\ flight.tap # NoTap => conn[flight.tap]
      /\ flight = Nothing <=> inFlight = Nothing
      /\ flight.cmd = inFlight.cmd
  <2>1. CASE inFlight # Nothing /\ inFlight.tap = t
    <3>1. flight \in Pending /\ flight.tap = NoTap /\ flight.cmd = inFlight.cmd
      BY <1>1, <2>1 DEF Pending
    <3> QED BY <2>1, <3>1, NothingAssumption
  <2>2. CASE ~(inFlight # Nothing /\ inFlight.tap = t)
    BY <1>1, <2>2 DEF Pending
  <2> QED BY <2>1, <2>2
<1>4. ClientGone(t, flight) /\ UNCHANGED <<dialect, line, fromRadio>>
  BY DEF GoneForGood, radio
<1> HIDE DEF conn, flight
<1> QED BY <1>2, <1>3, <1>4, ClientGoneOne

LEMMA PollPinsOne ==
    ASSUME Typed, OneAtATime, NEW t \in Taps, PollPins(t)
    PROVE  OneAtATime'
<1>1. CASE open[t]
  BY <1>1, OneStays DEF PollPins, traffic, radio
<1>2. CASE ~open[t]
  <2>1. connected \in [Taps -> BOOLEAN] /\ queue \in Seq(ByTap(connected))
        /\ inFlight \in Pending \cup {Nothing}
        /\ (inFlight # Nothing /\ inFlight.tap # NoTap => connected[inFlight.tap])
    BY DEF Typed, TapsTyped, TrafficTyped
  <2>2. Others(t) \in Seq(ByTap([connected EXCEPT ![t] = FALSE]))
    BY <2>1, OthersAre
  <2>3. \A u \in Taps : [connected EXCEPT ![t] = FALSE][u] => connected[u]
    BY <2>1
  <2>4. Others(t) \in Seq(ByTap(connected))
    BY <2>2, <2>3, ByTapGrows, SeqGrows
  <2>5. ClientGone(t, inFlight) /\ UNCHANGED <<dialect, line, fromRadio>>
    BY <1>2 DEF PollPins, radio
  <2> QED BY <2>1, <2>4, <2>5, ClientGoneOne
<1> QED BY <1>1, <1>2

\* One reply less, of those that wait to be read
LEMMA OneReplyLess ==
    ASSUME Typed, NEW flight, NEW to, One(flight, to, fromRadio), fromRadio # <<>>
    PROVE  One(flight, to, Tail(fromRadio))
<1> DEFINE u == Tail(fromRadio)
           n == Len(fromRadio)
<1>1. /\ n \in Nat \ {0} /\ DOMAIN fromRadio = 1 .. n /\ DOMAIN u = 1 .. n - 1
      /\ \A i \in 1 .. n - 1 : u[i] = fromRadio[i + 1] /\ i + 1 \in DOMAIN fromRadio
  BY DEF Typed, LineTyped
<1> HIDE DEF u, n
<1>2. ASSUME NEW i \in DOMAIN u, u[i].kind # "spontaneous"
      PROVE  /\ to = <<>> /\ flight # Nothing /\ u[i].of = flight.cmd
             /\ u[i].kind = "echo" => dialect = "civ"
             /\ u[i].kind # "echo" =>
                   \A j \in DOMAIN u : j > i => u[j].kind = "spontaneous"
  <2>1. u[i] = fromRadio[i + 1] /\ i + 1 \in DOMAIN fromRadio
    BY <1>1
  <2>2. /\ to = <<>> /\ flight # Nothing /\ u[i].of = flight.cmd
        /\ u[i].kind = "echo" => dialect = "civ"
    BY <1>2, <2>1 DEF One
  <2>3. ASSUME u[i].kind # "echo", NEW j \in DOMAIN u, j > i
        PROVE  u[j].kind = "spontaneous"
    <3>1. u[j] = fromRadio[j + 1] /\ j + 1 \in DOMAIN fromRadio /\ j + 1 > i + 1
      BY <1>1, <2>3
    <3> QED BY <1>2, <2>1, <2>3, <3>1 DEF One
  <2> QED BY <2>2, <2>3
<1>3. One(flight, to, u)
  BY <1>2 DEF One
<1> QED BY <1>3 DEF u

LEMMA OnPhysicalDataOne ==
    ASSUME Typed, OneAtATime, Asked \cap Spontaneous = {}, OnPhysicalData
    PROVE  OneAtATime'
<1>1. /\ line = "open" /\ fromRadio # <<>> /\ fromRadio' = Tail(fromRadio)
      /\ UNCHANGED <<dialect, line>>
  BY DEF OnPhysicalData
<1>2. One(inFlight, toRadio, fromRadio')
  BY <1>1, OneReplyLess DEF OneAtATime
<1>3. CASE Classify(inFlight, Head(fromRadio)) = "answer"
  <2>1. Finish
    BY <1>3 DEF OnPhysicalData
  <2>2. 1 \in DOMAIN fromRadio /\ fromRadio[1].kind \notin {"spontaneous", "echo"}
    BY <1>1, <1>3, ClassifyIs
  <2>3. toRadio = <<>> /\ \A j \in DOMAIN fromRadio : j > 1 => fromRadio[j].kind = "spontaneous"
    BY <1>1, <2>2 DEF OneAtATime, One
  <2>4. ASSUME NEW i \in DOMAIN fromRadio' PROVE fromRadio'[i].kind = "spontaneous"
    <3>1. fromRadio'[i] = fromRadio[i + 1] /\ i + 1 \in DOMAIN fromRadio /\ i + 1 > 1
      BY <1>1 DEF Typed, LineTyped
    <3> QED BY <2>3, <3>1
  <2>5. One(Nothing, toRadio, fromRadio')
    BY <2>3, <2>4 DEF One
  <2>6. Pumpable(queue, Nothing, keyedTap, connected) /\ toRadio \in Seq(Commands)
    BY DEF Typed, TrafficTyped, Pumpable
  <2> QED BY <1>1, <2>1, <2>5, <2>6, PumpOne DEF Finish
<1>4. CASE Classify(inFlight, Head(fromRadio)) # "answer"
  <2>1. UNCHANGED <<inFlight, toRadio>>
    BY <1>4 DEF OnPhysicalData, traffic
  <2> QED BY <1>1, <1>2, <2>1 DEF OneAtATime, One
<1> QED BY <1>3, <1>4

LEMMA TimeoutOne ==
    ASSUME Typed, OneAtATime, Punctual, Timeout
    PROVE  OneAtATime'
<1>1. Finish /\ UNCHANGED <<dialect, line, fromRadio>> /\ ~Awaited /\ inFlight # Nothing
  BY DEF Timeout, radio
<1>2. line = "open" => One(Nothing, toRadio, fromRadio')
  <2>1. SUFFICES ASSUME line = "open" PROVE One(Nothing, toRadio, fromRadio)
    BY <1>1
  <2>2. toRadio = <<>>
    <3>1. \A i \in DOMAIN toRadio : toRadio[i] = inFlight.cmd
      BY <2>1 DEF OneAtATime, One
    <3>2. DOMAIN toRadio = {}
      BY <1>1, <3>1 DEF Awaited
    <3> QED BY <3>2 DEF Typed, TrafficTyped
  <2>3. \A i \in DOMAIN fromRadio : fromRadio[i].kind = "spontaneous"
    BY <1>1, <2>1 DEF OneAtATime, One, Awaited
  <2> QED BY <2>2, <2>3 DEF One
<1>3. Pumpable(queue, Nothing, keyedTap, connected) /\ toRadio \in Seq(Commands)
  BY DEF Typed, TrafficTyped, Pumpable
<1> QED BY <1>1, <1>2, <1>3, PumpOne DEF Finish

\* The radio has taken the command in flight, and said says to it.
LEMMA SaidOne ==
    ASSUME Typed, One(inFlight, toRadio, fromRadio), toRadio # <<>>,
           NEW says \in Seq(Replies),
           \A i \in 1 .. Len(says) :
              /\ says[i].kind # "spontaneous" /\ says[i].of = toRadio[1]
              /\ says[i].kind = "echo" => dialect = "civ"
              /\ says[i].kind # "echo" => i = Len(says)
    PROVE  One(inFlight, Tail(toRadio), fromRadio \o says)
<1> DEFINE u == fromRadio \o says
           n == Len(fromRadio)
<1>1. /\ n \in Nat /\ Len(says) \in Nat /\ DOMAIN u = 1 .. n + Len(says)
      /\ \A i \in 1 .. n : u[i] = fromRadio[i] /\ i \in DOMAIN fromRadio
      /\ \A i \in DOMAIN u : i > n => u[i] = says[i - n] /\ i - n \in 1 .. Len(says)
  BY DEF Typed, LineTyped
<1>2. /\ toRadio[1] = inFlight.cmd /\ inFlight # Nothing /\ Tail(toRadio) = <<>>
      /\ \A i \in DOMAIN fromRadio : fromRadio[i].kind = "spontaneous"
  <2>1. toRadio \in Seq(Commands) /\ Len(toRadio) <= 1
    BY DEF One, Typed, TrafficTyped
  <2>2. 1 \in DOMAIN toRadio /\ Tail(toRadio) = <<>>
    BY <2>1
  <2>3. toRadio[1] = inFlight.cmd /\ inFlight # Nothing
    BY <2>2 DEF One
  <2>4. \A i \in DOMAIN fromRadio : fromRadio[i].kind = "spontaneous"
    BY DEF One
  <2> QED BY <2>2, <2>3, <2>4
<1> HIDE DEF u, n
<1>3. ASSUME NEW i \in DOMAIN u, u[i].kind # "spontaneous"
      PROVE  /\ u[i].of = inFlight.cmd /\ (u[i].kind = "echo" => dialect = "civ")
             /\ u[i].kind # "echo" => i = n + Len(says)
  <2>1. i > n /\ i \in Nat
    <3>1. i \in 1 .. n + Len(says)
      BY <1>1
    <3>2. i \in 1 .. n => u[i].kind = "spontaneous"
      BY <1>1, <1>2
    <3> QED BY <1>1, <1>3, <3>1, <3>2
  <2>2. u[i] = says[i - n] /\ i - n \in 1 .. Len(says)
    BY <1>1, <2>1
  <2> QED BY <1>1, <1>2, <2>1, <2>2
<1>4. ASSUME NEW i \in DOMAIN u, u[i].kind # "spontaneous", u[i].kind # "echo",
             NEW j \in DOMAIN u, j > i
      PROVE  FALSE
  BY <1>1, <1>3, <1>4
<1>5. One(inFlight, <<>>, u)
  BY <1>2, <1>3, <1>4 DEF One
<1> QED BY <1>2, <1>5 DEF u

LEMMA RadioTakesOne ==
    ASSUME Typed, OneAtATime, RadioTakes
    PROVE  OneAtATime'
<1> SUFFICES ASSUME line = "open" PROVE One(inFlight, toRadio, fromRadio)'
  BY DEF OneAtATime, RadioTakes
<1>1. /\ toRadio # <<>> /\ toRadio' = Tail(toRadio) /\ UNCHANGED <<inFlight, dialect>>
      /\ One(inFlight, toRadio, fromRadio)
  BY DEF RadioTakes, OneAtATime
<1>2. Head(toRadio) = toRadio[1] /\ toRadio[1] \in Commands
  BY <1>1 DEF Typed, TrafficTyped
<1>3. ASSUME NEW says \in SaysOf(Head(toRadio)), fromRadio' = fromRadio \o says
      PROVE  One(inFlight, toRadio, fromRadio)'
  <2>1. One(inFlight, Tail(toRadio), fromRadio \o says)
    BY <1>1, <1>2, SaysAre, SaidOne
  <2> QED BY <1>1, <1>3, <2>1 DEF One
<1>4. ASSUME fromRadio' = Append(fromRadio, [kind |-> "error", of |-> Head(toRadio)])
      PROVE  One(inFlight, toRadio, fromRadio)'
  <2> DEFINE e == [kind |-> "error", of |-> toRadio[1]]
             says == <<e>>
  <2>1. e \in Replies /\ e.kind = "error" /\ e.of = toRadio[1]
    BY <1>2 DEF Replies
  <2> HIDE DEF e
  <2>2. says \in Seq(Replies) /\ Len(says) = 1 /\ says[1] = e
    BY <2>1
  <2>3. Append(fromRadio, e) = fromRadio \o says
    BY <2>1 DEF Typed, LineTyped
  <2> HIDE DEF says
  <2>4. One(inFlight, Tail(toRadio), fromRadio \o says)
    <3>1. \A i \in 1 .. Len(says) : says[i] = e /\ i = Len(says)
      BY <2>2
    <3> QED BY <1>1, <2>1, <2>2, <3>1, SaidOne
  <2>5. fromRadio' = fromRadio \o says
    BY <1>2, <1>4, <2>3 DEF e
  <2> QED BY <1>1, <2>4, <2>5 DEF One
<1> QED BY <1>3, <1>4 DEF RadioTakes

LEMMA RadioSpeaksOne ==
    ASSUME Typed, OneAtATime, NEW code, RadioSpeaks(code)
    PROVE  OneAtATime'
<1> DEFINE r == [kind |-> "spontaneous", code |-> code]
           n == Len(fromRadio)
<1> SUFFICES ASSUME line = "open" PROVE One(inFlight, toRadio, fromRadio)'
  BY DEF OneAtATime, RadioSpeaks
<1>1. /\ fromRadio' = Append(fromRadio, r) /\ UNCHANGED <<inFlight, toRadio, dialect>>
      /\ One(inFlight, toRadio, fromRadio)
  BY DEF RadioSpeaks, traffic, OneAtATime
<1>2. /\ n \in Nat /\ DOMAIN fromRadio' = 1 .. n + 1 /\ DOMAIN fromRadio = 1 .. n
      /\ fromRadio'[n + 1].kind = "spontaneous"
      /\ \A i \in 1 .. n : fromRadio'[i] = fromRadio[i]
  BY <1>1 DEF Typed, LineTyped
<1> HIDE DEF n
<1>3. ASSUME NEW i \in DOMAIN fromRadio', fromRadio'[i].kind # "spontaneous"
      PROVE  /\ i \in DOMAIN fromRadio /\ fromRadio'[i] = fromRadio[i]
             /\ fromRadio'[i].kind # "echo" =>
                   \A j \in DOMAIN fromRadio' : j > i => fromRadio'[j].kind = "spontaneous"
  <2>1. i \in 1 .. n /\ fromRadio'[i] = fromRadio[i]
    BY <1>2, <1>3
  <2>2. ASSUME fromRadio'[i].kind # "echo", NEW j \in DOMAIN fromRadio', j > i
        PROVE  fromRadio'[j].kind = "spontaneous"
    <3>1. CASE j = n + 1
      BY <1>2, <3>1
    <3>2. CASE j # n + 1
      <4>1. j \in DOMAIN fromRadio /\ fromRadio'[j] = fromRadio[j]
        BY <1>2, <3>2
      <4>2. i \in DOMAIN fromRadio
        BY <1>2, <2>1
      <4> QED BY <1>1, <1>3, <2>1, <2>2, <4>1, <4>2 DEF One
    <3> QED BY <3>1, <3>2
  <2> QED BY <1>2, <2>1, <2>2
<1> QED BY <1>1, <1>3 DEF One

LEMMA OneStep ==
    ASSUME Typed, OneAtATime, Punctual, Asked \cap Spontaneous = {}, [Next]_vars
    PROVE  OneAtATime'
<1>1. CASE UNCHANGED vars
  BY <1>1, OneStays DEF vars, traffic, radio
<1>2. ASSUME NEW t \in Taps, Open(t) PROVE OneAtATime'
  BY <1>2, OneStays DEF Open, traffic, radio
<1>3. ASSUME NEW t \in Taps, Leave(t) PROVE OneAtATime'
  BY <1>3, OneStays DEF Leave, traffic, radio
<1>4. ASSUME NEW t \in Taps, NEW what, NEW code, Write(t, what, code) PROVE OneAtATime'
  BY <1>4, OneStays DEF Write, traffic, radio
<1>5. ASSUME NEW t \in Taps, OnTapData(t) PROVE OneAtATime'
  <2>1. CASE dialect = "silence"
    BY <1>5, <2>1, OneStays DEF OnTapData, traffic, radio
  <2>2. CASE dialect # "silence"
    <3>1. unread[t] \in Seq(Of(t)) /\ connected[t] /\ TakeTapCommands(t, unread[t])
          /\ UNCHANGED <<dialect, line, fromRadio>>
      BY <1>5, <2>2 DEF OnTapData, Typed, TapsTyped, radio
    <3> QED BY <3>1, TakeOne
  <2> QED BY <2>1, <2>2
<1>6. ASSUME NEW t \in Taps, Coalesced(t) PROVE OneAtATime'
  <2>1. inbox[t] \in Seq(Of(t)) /\ connected[t] /\ TakeTapCommands(t, inbox[t])
        /\ UNCHANGED <<dialect, line, fromRadio>>
    BY <1>6 DEF Coalesced, Typed, TapsTyped, radio
  <2> QED BY <2>1, TakeOne
<1>7. ASSUME NEW t \in Taps, Disconnected(t) PROVE OneAtATime'
  BY <1>7, GoneOne DEF Disconnected
<1>8. ASSUME NEW t \in Taps, PairLost(t) PROVE OneAtATime'
  BY <1>8, GoneOne DEF PairLost
<1>9. ASSUME NEW t \in Taps, PollPins(t) PROVE OneAtATime'
  BY <1>9, PollPinsOne
<1>10. ASSUME OnPhysicalData PROVE OneAtATime'
  BY <1>10, OnPhysicalDataOne
<1>11. ASSUME Timeout PROVE OneAtATime'
  BY <1>11, TimeoutOne
<1>12. ASSUME LineLost PROVE OneAtATime'
  BY <1>12 DEF LineLost, OneAtATime
<1>13. ASSUME Close PROVE OneAtATime'
  BY <1>13 DEF Close, OneAtATime
<1>14. ASSUME NEW b, SetPttAllowed(b) PROVE OneAtATime'
  BY <1>14, OneStays DEF SetPttAllowed, traffic, radio
<1>15. ASSUME RadioTakes PROVE OneAtATime'
  BY <1>15, RadioTakesOne
<1>16. ASSUME NEW code, RadioSpeaks(code) PROVE OneAtATime'
  BY <1>16, RadioSpeaksOne
<1>17. CASE Next
  BY <1>17, <1>2, <1>3, <1>4, <1>5, <1>6, <1>7, <1>8, <1>9, <1>10, <1>11, <1>12, <1>13, <1>14,
     <1>15, <1>16, Zenon DEF Next
<1> QED BY <1>1, <1>17

-----------------------------------------------------------------------------
(* The results                                                             *)

LEMMA AlwaysPtt == Spec => []PttInv
<1>1. Init => PttInv
  BY TypedInit, OwnedInit DEF PttInv
<1>2. PttInv /\ [Next]_vars => PttInv'
  BY TypedStep, OwnedStep DEF PttInv
<1> QED BY <1>1, <1>2, PTL DEF Spec

\* Whatever the programs and the radio do, the release of a radio left on
\* the air waits for nobody but the command in flight (clientGone puts it
\* ahead of what the other taps have queued), there is one of them at most,
\* and every command in the queue or in flight is of a tap that is there.
THEOREM ReleaseGoesFirst == Spec => [](TypeOK /\ ReleaseFirst)
<1>1. PttInv => TypeOK /\ ReleaseFirst
  BY TypedTypeOK, OwnedReleaseFirst DEF PttInv
<1> QED BY <1>1, AlwaysPtt, PTL

\* With a radio that does not refuse a command to transmit while it is on the
\* air (pump sets m_keyedTap when it writes the command, before any refusal),
\* and for any number of taps: while the line is up, the tap in m_keyedTap is
\* that of whoever holds the radio on the air, or will once the radio has read
\* what was written to it; or the release is queued.
THEOREM PttAlwaysHasAnOwner ==
    ASSUME ~RefusesBusy
    PROVE  Spec => []PttHasAnOwner
<1>1. PttInv => PttHasAnOwner
  BY OwnedHasAnOwner DEF PttInv
<1> QED BY <1>1, AlwaysPtt, PTL

\* With the same radio: close() leaves on the air nobody but one whose
\* release was queued and goes with the queue.
THEOREM CloseAlwaysReleases ==
    ASSUME ~RefusesBusy
    PROVE  Spec => ClosedReleases
<1> DEFINE Left == line = "open" /\ line' = "closed" /\ KnowsPtt /\ ~ReleaseQueued
                   => Holder' = Nothing
<1>1. PttInv /\ [Next]_vars => [Left]_vars
  <2>1. ASSUME Next, line = "open", line' = "closed" PROVE Close
    <3>1. CASE \E t \in Taps : \/ Open(t) \/ Leave(t)
                               \/ \E what \in {"key", "unkey", "ask"}, code \in Asked :
                                     Write(t, what, code)
                               \/ OnTapData(t) \/ Coalesced(t) \/ Disconnected(t)
                               \/ PairLost(t) \/ PollPins(t)
      BY <2>1, <3>1 DEF Open, Leave, Write, OnTapData, Coalesced, Disconnected, PairLost,
         GoneForGood, PollPins
    <3>2. CASE OnPhysicalData \/ Timeout \/ LineLost
      BY <2>1, <3>2 DEF OnPhysicalData, Timeout, LineLost
    <3>3. CASE \/ \E b \in BOOLEAN : SetPttAllowed(b)
               \/ RadioTakes
               \/ \E code \in Spontaneous : RadioSpeaks(code)
      BY <2>1, <3>3 DEF SetPttAllowed, RadioTakes, RadioSpeaks
    <3> QED BY <2>1, <3>1, <3>2, <3>3, Zenon DEF Next
  <2>2. ASSUME PttInv, Next PROVE Left
    BY <2>1, <2>2, CloseReleases DEF PttInv
  <2> QED BY <2>2
<1> QED BY <1>1, AlwaysPtt, PTL DEF Spec, ClosedReleases

\* Whatever the programs and the radio do: once transmission is forbidden
\* and no keying command of an untrusted program waits in the queue, none
\* gets into it and none is written to the radio.
THEOREM ForbiddenStaysOut == Spec => ForbiddenDies
<1>1. PttInv /\ [Next]_vars
      => [KnowsPtt /\ ~pttAllowed /\ ~WaitingToKey => ~WaitingToKey' /\ ~KeysAfter]_vars
  BY ForbiddenStep DEF PttInv
<1> QED BY <1>1, AlwaysPtt, PTL DEF Spec, ForbiddenDies

\* With a radio that answers a command before its timeout, if it answers it,
\* and whose own messages have codes that nobody asks for: the reply that
\* closes the command in flight (onPhysicalData) is the reply to that very
\* command.
THEOREM RepliesAlwaysBelong ==
    ASSUME Punctual, Asked \cap Spontaneous = {}
    PROVE  Spec => []AnswersBelong
<1>1. Init => Typed /\ OneAtATime
  <2>1. ASSUME Init PROVE OneAtATime
    <3>1. toRadio = <<>> /\ fromRadio = <<>>
      BY <2>1 DEF Init
    <3> QED BY <3>1 DEF OneAtATime, One
  <2> QED BY <2>1, TypedInit
<1>2. Typed /\ OneAtATime /\ [Next]_vars => (Typed /\ OneAtATime)'
  BY TypedStep, OneStep
<1>3. Typed /\ OneAtATime => AnswersBelong
  BY OneAnswersBelong
<1> QED BY <1>1, <1>2, <1>3, PTL DEF Spec

\* With such a radio on both counts, all of what the runs check of the
\* shared line in every state.
THEOREM MuxIsSound ==
    ASSUME Punctual, ~RefusesBusy, Asked \cap Spontaneous = {}
    PROVE  Spec => []MuxInv
<1>1. Spec => [](TypeOK /\ ReleaseFirst)
  BY ReleaseGoesFirst
<1>2. Spec => []PttHasAnOwner
  BY PttAlwaysHasAnOwner
<1>3. Spec => []AnswersBelong
  BY RepliesAlwaysBelong
<1>4. TypeOK /\ AnswersBelong /\ PttHasAnOwner /\ ReleaseFirst => MuxInv
  BY DEF MuxInv
<1> QED BY <1>1, <1>2, <1>3, <1>4, PTL
=============================================================================
