------------------------------- MODULE DecolinkRx ------------------------------
(***************************************************************************)
(* The lossless audio of a remote radio as DecolinkLink receives it        *)
(* (src/src/net/DecolinkLink.cpp): numbered blocks in UDP datagrams that   *)
(* are lost, repeated and overtake each other, a buffer that puts them     *)
(* back in order, the requests for what is missing, and the silence that   *)
(* replaces what does not come.                                            *)
(*                                                                         *)
(* Blocks are counted from 0; the datagram of block b carries the sequence *)
(* SeqOf(b), of 16 bits in the code and of Mod values here.  The clock is  *)
(* left out: a hole that has been waited for may be asked for again, or    *)
(* given up, or neither.                                                   *)
(***************************************************************************)
EXTENDS Integers, Sequences, FiniteSets

CONSTANTS
    Blocks,     \* how many blocks the station sends
    Start,      \* sequence of the first one
    Mod,        \* 65536
    Jump,       \* 200
    MaxFill,    \* kV3MaxGapBlocks
    MaxTries,   \* 4 requests for one hole
    MaxNack,    \* 32 sequences named in one of them
    MaxAhead,   \* bound: a block this far ahead of the one expected is lost
    Silence

ASSUME RxAssumption ==
    /\ Blocks \in Nat /\ Start \in Nat /\ Mod \in Nat /\ Start < Mod
    /\ 2 * Blocks <= Mod        \* no sequence is used twice, and none is half the range away
    /\ MaxFill \in 1 .. Jump /\ Jump \in Nat /\ MaxTries \in Nat /\ MaxNack \in Nat
    /\ MaxAhead \in Nat
    /\ Silence \notin 0 .. Blocks - 1

VARIABLES
    sent,       \* blocks sent by the station
    air,        \* datagrams under way
    on,         \* the gateway sends the lossless profile
    have,       \* m_v3Have
    expected,   \* m_v3Expected
    hold,       \* m_v3Hold: the blocks held
    waiting,    \* the hole was there before this call (m_v3GapSinceMs)
    tries,      \* m_v3NackTries
    played      \* what has been given to the decoder of this stream

network == <<sent, air, on>>
receiver == <<have, expected, hold, waiting, tries, played>>
vars == <<network, receiver>>

SeqOf(b) == (Start + b) % Mod
BlockOf(s) == (s + Mod - Start) % Mod

(* qint16(seq - m_v3Expected) *)
Ahead(s, e) == LET d == (s + Mod - e) % Mod IN IF d < Mod \div 2 THEN d ELSE d - Mod

Init == /\ sent = 0 /\ air = {} /\ on = TRUE
        /\ have = FALSE /\ expected = 0 /\ hold = {} /\ waiting = FALSE
        /\ tries = 0 /\ played = <<>>

-----------------------------------------------------------------------------
(* flushV3.  Each of these takes and gives back what the loop works on: the *)
(* sequence expected, the blocks held, what has been delivered so far.      *)

(* How many blocks in a row are held from the one expected on. *)
InARow(e, H) == CHOOSE n \in 0 .. Cardinality(H) :
                  /\ \A k \in 0 .. n - 1 : \E b \in H : SeqOf(b) = (e + k) % Mod
                  /\ \A b \in H : SeqOf(b) # (e + n) % Mod

Deliver(e, H) ==
    LET n == InARow(e, H)
        row == [k \in 1 .. n |-> BlockOf((e + k - 1) % Mod)]
    IN [e |-> (e + n) % Mod, hold |-> H \ {row[k] : k \in 1 .. n}, out |-> row]

\* Mutant: a hole is measured up to the last block held.
LastKey(H) == CHOOSE s \in {SeqOf(b) : b \in H} : \A b \in H : SeqOf(b) <= s

(* QMap::firstKey: the lowest sequence as a plain number. *)
FirstKey(H) == CHOOSE s \in {SeqOf(b) : b \in H} : \A b \in H : s <= SeqOf(b)

(* The blocks thrown away from the front of the map because they lie behind *)
(* the one expected.                                                        *)
Purge(e, H) == {b \in H : \/ Ahead(SeqOf(b), e) > 0
                          \/ \E c \in H : SeqOf(c) < SeqOf(b) /\ Ahead(SeqOf(c), e) > 0}

\* Mutant: the silence is one block short.
FillShort(gap) == [i \in 1 .. (IF gap > MaxFill THEN MaxFill ELSE gap) - 1 |-> Silence]

Fill(gap) == [i \in 1 .. (IF gap > MaxFill THEN MaxFill ELSE gap) |-> Silence]

(* The first pass of the loop, up to a hole or to the end of the buffer. *)
Pass(e, H, before) ==
    LET d == Deliver(e, H) IN [e |-> d.e, hold |-> Purge(d.e, d.hold), out |-> before \o d.out]

(* The hole given up: silence up to the first key, and the next pass, whose *)
(* hole has not been waited for.                                            *)
GiveUp(p) == Pass(FirstKey(p.hold), p.hold, p.out \o Fill(Ahead(FirstKey(p.hold), p.e)))

\* Mutant: what has been asked for is waited for until it comes.
OutcomesTrusting(p, waited) ==
    {p} \cup IF waited /\ p.out = <<>> /\ p.hold # {} /\ tries = 0 THEN {GiveUp(p)} ELSE {}

(* A call of flushV3: a hole that was there when it came may be given up,   *)
(* unless a block has been delivered in front of it.                        *)
Outcomes(p, waited) ==
    {p} \cup IF waited /\ p.out = <<>> /\ p.hold # {} THEN {GiveUp(p)} ELSE {}

Flush(e, H, waited, before) ==
    \E p \in {Pass(e, H, <<>>)} : \E r \in Outcomes(p, waited) :
        /\ expected' = r.e
        /\ hold' = r.hold
        /\ waiting' = (r.hold # {})
        /\ played' = before \o r.out
        /\ tries' = IF r.out # <<>> THEN 0 ELSE tries

-----------------------------------------------------------------------------
(* resetV3Rx, from setActiveProfile *)
Reset == /\ have' = FALSE /\ hold' = {} /\ waiting' = FALSE /\ tries' = 0
         /\ played' = <<>>
         /\ UNCHANGED expected

(* handleV3Audio *)
Receive(b) ==
    LET e == IF have THEN expected ELSE SeqOf(b)
        diff == Ahead(SeqOf(b), e)
        restarts == diff > Jump
    IN IF diff < 0 \/ (~restarts /\ b \in hold)
       THEN have' = TRUE /\ UNCHANGED <<expected, hold, waiting, tries, played>>
       ELSE /\ have' = TRUE
            /\ Flush(IF restarts THEN SeqOf(b) ELSE e,
                     (IF restarts THEN {} ELSE hold) \cup {b},
                     waiting, IF restarts THEN <<>> ELSE played)

(* A datagram arrives; the network may keep a copy of it. *)
Arrive(b) == /\ b \in air /\ on
             /\ have => Ahead(SeqOf(b), expected) <= MaxAhead
             /\ \E kept \in {{}, {b}} : air' = (air \ {b}) \cup kept
             /\ Receive(b)
             /\ UNCHANGED <<sent, on>>

(* onV3Tick, when the hole is not asked for. *)
Tick == /\ hold # {}
        /\ Flush(expected, hold, waiting, played)
        /\ UNCHANGED <<have, network>>

(* What a request names: the hole, from its beginning.                      *)
Missing == {b \in 0 .. sent - 1 :
              /\ Ahead(SeqOf(b), expected) \in 0 .. Ahead(FirstKey(hold), expected) - 1
              /\ Ahead(SeqOf(b), expected) < MaxNack}

\* Mutant: the requests for a hole are not counted.
NackForEver == /\ hold # {} /\ waiting
               /\ tries' = tries + 1
               /\ air' = air \cup Missing
               /\ UNCHANGED <<sent, on, have, expected, hold, waiting, played>>

(* sendV3Nack in a call of flushV3 that gives nothing up, and the station's *)
(* answer: what is asked for is under way again.                            *)
Nack == /\ hold # {} /\ waiting /\ tries < MaxTries
        /\ tries' = tries + 1
        /\ air' = air \cup Missing
        /\ UNCHANGED <<sent, on, have, expected, hold, waiting, played>>

(* A datagram of another profile, and the return of this one. *)
OtherProfile == on /\ on' = FALSE /\ Reset /\ UNCHANGED <<sent, air>>
ThisProfile == ~on /\ on' = TRUE /\ UNCHANGED <<sent, air, receiver>>

Send == /\ sent < Blocks
        /\ sent' = sent + 1
        /\ air' = IF on THEN air \cup {sent} ELSE air
        /\ UNCHANGED <<on, receiver>>

Lose(b) == b \in air /\ air' = air \ {b} /\ UNCHANGED <<sent, on, receiver>>

Next == \/ \E b \in 0 .. Blocks - 1 : Arrive(b) \/ Lose(b)
        \/ Tick \/ Nack \/ Send \/ OtherProfile \/ ThisProfile

GivesUp == Tick /\ played' # played

(* The 20 ms timer runs while blocks are held, and a hole is given up when  *)
(* its time is over.                                                        *)
Spec == Init /\ [][Next]_vars /\ WF_vars(GivesUp)

-----------------------------------------------------------------------------
TypeOK ==
    /\ sent \in 0 .. Blocks /\ air \subseteq 0 .. sent - 1 /\ on \in BOOLEAN
    /\ have \in BOOLEAN /\ expected \in 0 .. Mod - 1
    /\ hold \subseteq 0 .. sent - 1 /\ waiting \in BOOLEAN /\ (waiting => hold # {})
    /\ tries \in 0 .. MaxTries
    /\ played \in Seq((0 .. Blocks - 1) \cup {Silence})

Due == IF have THEN BlockOf(expected) ELSE 0

(* The buffer implements the promise of DecolinkPlayout. *)
Playout == INSTANCE DecolinkPlayout WITH on <- have, due <- Due
PlayoutKept == Playout!Spec

(* A block that is held is never replaced by silence, as long as no wrap of *)
(* the sequence lies between the block expected and the last one sent       *)
(* (flushV3).  Across the wrap it can be: QMap::firstKey is then a block of *)
(* after the wrap, and those held from before it are thrown away.           *)
Unwrapped == \A b \in Due .. sent - 1 : SeqOf(b) >= SeqOf(Due)
Added == Len(played) + 1 .. Len(played')
HeldIsPlayed ==
    [][Len(played') > Len(played) /\ have /\ Unwrapped
       => \A i \in Added : played'[i] = Silence => Due + i - Len(played) - 1 \notin hold]_vars

(* What is held is played: no block waits for ever for one that was lost.   *)
Drains == \A b \in 0 .. Blocks - 1 : b \in hold ~> b \notin hold
=============================================================================
