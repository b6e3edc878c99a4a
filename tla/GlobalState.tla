---------------------------- MODULE GlobalState ----------------------------
(***************************************************************************)
(* What src/global/mod.rs remembers with a time stamp: the peers that were *)
(* heard and the airtime that was used, as the LoRa actor records them and *)
(* the strategies, the logs and the REST API ask for them.                 *)
(*                                                                         *)
(* The stamps are wall clock seconds (unix_timestamp), and a wall clock is *)
(* set now and then, forwards or back.  `now` is the time that really      *)
(* passed; the program cannot see it.                                      *)
(***************************************************************************)
EXTENDS Integers, Sequences

CONSTANTS
    Peer,     \* nodes that may be heard
    MaxAge,   \* MAX_PEER_AGE
    Window,   \* the numbers of seconds airtime_last_secs is asked for
    Word,     \* number of values of u64
    Epoch,    \* the wall clock's time at the start
    MaxTime,  \* bound: seconds that pass
    MaxStep,  \* bound: seconds the clock is set by, in either direction
    MaxSets,  \* bound: times the clock is set
    MaxRecords \* bound: packets that are sent

\* The wall clock is past 1970 by more than any window, and u64 is large.
ASSUME AgeAssumption == MaxAge \in Nat
ASSUME WindowAssumption == Window \subseteq Nat
ASSUME BoundAssumption ==
    /\ MaxTime \in Nat /\ MaxStep \in Nat /\ MaxSets \in Nat /\ MaxRecords \in Nat
    /\ Epoch \in Nat /\ Epoch >= MaxStep * MaxSets
    /\ \A secs \in Window : Epoch >= MaxStep * MaxSets + secs
    /\ Word \in Nat /\ Word > Epoch + MaxTime + MaxAge + 2 * MaxStep * MaxSets

VARIABLES
    wall,     \* unix_timestamp()
    lastSeen, \* PEERS: Peer::last_seen of those that are listed
    airtimes, \* AIRTIMES: Airtime::time of each entry
    now,      \* history: seconds that really passed
    heardAt,  \* history: when each listed peer was heard
    sentAt,   \* history: when each airtime was recorded
    sets,     \* history: times the clock was set
    setBack   \* history: seconds the clock was set back, all in all

program == <<lastSeen, airtimes>>
history == <<now, heardAt, sentAt, sets, setBack>>
vars == <<wall, program, history>>

Listed == DOMAIN lastSeen

TypeOK ==
    /\ wall \in 0 .. Word - 1
    /\ Listed \subseteq Peer
    /\ lastSeen \in [Listed -> 0 .. Word - 1]
    /\ airtimes \in Seq(0 .. Word - 1)
    /\ now \in 0 .. MaxTime
    /\ heardAt \in [Listed -> 0 .. MaxTime]
    /\ sentAt \in Seq(0 .. MaxTime)
    /\ Len(sentAt) = Len(airtimes) /\ Len(airtimes) <= MaxRecords
    /\ sets \in 0 .. MaxSets
    /\ setBack \in 0 .. MaxStep * MaxSets

---------------------------------------------------------------------------
(* What the program computes.                                              *)

\* Peer::last_seen_secs, a u64 subtraction as a release build does it: a peer
\* from the clock's future gets a huge age.
LastSeenSecs(p) == (wall - lastSeen[p]) % Word

\* Mutant: a peer of exactly that age still counts.
HasSeenPeer_Inclusive(p, age) == p \in Listed /\ LastSeenSecs(p) <= age

HasSeenPeer(p, age) == p \in Listed /\ LastSeenSecs(p) < age

PeerNames(age) == {p \in Listed : HasSeenPeer(p, age)}

\* Mutant: the window is one second longer.
TooOld_OneMore(i, secs) == airtimes[i] < wall - secs - 1

TooOld(i, secs) == airtimes[i] < wall - secs

\* Mutant: the search stops at the newest entry that is recent enough.
Counted_FromTheFront(secs) ==
    {i \in DOMAIN airtimes : \A j \in 1 .. i : ~TooOld(j, secs)}

\* The entries that airtime_last_secs sums up: it goes back from the newest and
\* stops at the first one that is too old.
Counted(secs) ==
    {i \in DOMAIN airtimes : \A j \in i .. Len(airtimes) : ~TooOld(j, secs)}

---------------------------------------------------------------------------

Init ==
    /\ wall = Epoch
    /\ lastSeen = <<>>
    /\ airtimes = <<>>
    /\ now = 0
    /\ heardAt = <<>>
    /\ sentAt = <<>>
    /\ sets = 0
    /\ setBack = 0

Tick ==
    /\ now < MaxTime
    /\ now' = now + 1
    /\ wall' = wall + 1
    /\ UNCHANGED <<program, heardAt, sentAt, sets, setBack>>

\* The clock is set, by NTP or by hand.
SetClock(step) ==
    /\ sets < MaxSets
    /\ sets' = sets + 1
    /\ wall' = wall + step
    /\ setBack' = setBack + (IF step < 0 THEN 0 - step ELSE 0)
    /\ UNCHANGED <<program, now, heardAt, sentAt>>

\* Mutant: a peer that is listed already keeps its time.
Hear_Once(p) ==
    /\ heardAt' = [q \in Listed \cup {p} |-> IF q = p THEN now ELSE heardAt[q]]
    /\ lastSeen' = [q \in Listed \cup {p} |-> IF q \in Listed THEN lastSeen[q] ELSE wall]
    /\ UNCHANGED <<wall, airtimes, now, sentAt, sets, setBack>>

\* The LoRa actor gets an advertisement of p and updates or inserts the peer.
Hear(p) ==
    /\ heardAt' = [q \in Listed \cup {p} |-> IF q = p THEN now ELSE heardAt[q]]
    /\ lastSeen' = [q \in Listed \cup {p} |-> IF q = p THEN wall ELSE lastSeen[q]]
    /\ UNCHANGED <<wall, airtimes, now, sentAt, sets, setBack>>

\* Mutant: only the last packet is remembered.
RecordAirtime_LastOnly ==
    /\ Len(airtimes) < MaxRecords
    /\ airtimes' = <<wall>>
    /\ sentAt' = Append(sentAt, now)
    /\ UNCHANGED <<wall, lastSeen, now, heardAt, sets, setBack>>

\* record_airtime, which reads the clock while it holds the list.
RecordAirtime ==
    /\ Len(airtimes) < MaxRecords
    /\ airtimes' = Append(airtimes, wall)
    /\ sentAt' = Append(sentAt, now)
    /\ UNCHANGED <<wall, lastSeen, now, heardAt, sets, setBack>>

Next ==
    \/ Tick
    \/ \E step \in ((0 - MaxStep) .. MaxStep) \ {0} : SetClock(step)
    \/ \E p \in Peer : Hear(p)
    \/ RecordAirtime

Spec == Init /\ [][Next]_vars

---------------------------------------------------------------------------
(* Properties.                                                             *)

\* A peer that counts as seen was really heard within that time, or longer
\* ago by no more than the clock was set back, although the subtraction of two
\* stamps may wrap around.
SeenIsRecent ==
    \A p \in PeerNames(MaxAge) : now - heardAt[p] < MaxAge + setBack

\* As long as nobody sets the clock, a peer that was heard in time counts.
RecentIsSeen ==
    sets = 0 => \A p \in Listed :
        now - heardAt[p] < MaxAge => HasSeenPeer(p, MaxAge)

\* "We know that the list is sorted as the clock runs forward.  We can iterate
\* in reverse and stop as soon as we hit a time that is too old."
\* (global/mod.rs:279): as long as the clock is not set back, the early stop
\* loses nothing of the airtime in the window.
StopIsSafe ==
    setBack = 0 => \A secs \in Window :
        Counted(secs) = {i \in DOMAIN airtimes : ~TooOld(i, secs)}

\* Whatever is done to the clock, nothing is counted that was sent longer ago
\* than the window and all the time the clock was set back.
WindowIsRecent ==
    \A secs \in Window : \A i \in Counted(secs) : now - sentAt[i] <= secs + setBack
============================================================================
