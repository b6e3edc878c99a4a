--------------------------- MODULE PingPongProofs ---------------------------
(***************************************************************************)
(* Proofs about PingPong, for any nodes and any bounds.                    *)
(*                                                                         *)
(* NoPongStorm and OnlyWhatWasHeard speak of the ends of queues; the       *)
(* invariants say the same of what still waits in them.                    *)
(***************************************************************************)
EXTENDS PingPong, FiniteSetTheorems, TLAPS

\* Where the packets of a type are in a sequence, and how many they are.
At(s, type) == {i \in DOMAIN s : s[i].type = type}
Count(s, type) == Cardinality(At(s, type))

\* A node has heard the pings it has answered and those it has still to parse.
PingInv ==
    \A n \in Node : ponged[n] + Count(inbox[n], "ping") <= pinged[n]

\* The answers in a backlog are the ones heard after those collected so far.
Pending(box, res, hrd) ==
    \E f \in [At(box, "pong") -> Nat] :
        /\ \A i \in At(box, "pong") : f[i] \in (Len(res) + 1) .. Len(hrd) /\ hrd[f[i]] = box[i].id
        /\ \A i, j \in At(box, "pong") : i < j => f[i] < f[j]
        /\ \A k \in (Len(res) + 1) .. Len(hrd) : \E i \in At(box, "pong") : f[i] = k

AnswerInv ==
    /\ OnlyWhatWasHeard
    /\ arm = "none" => backlog = <<>> /\ result = <<>> /\ heard = <<>>
    /\ arm \in {"asked", "open"} => Pending(backlog, result, heard)

---------------------------------------------------------------------------
(* Packets in sequences.                                                   *)

LEMMA Counting ==
    ASSUME NEW S, NEW s \in Seq(S), NEW type
    PROVE  IsFiniteSet(At(s, type)) /\ Count(s, type) \in Nat
<1>1. DOMAIN s = 1 .. Len(s) /\ Len(s) \in Nat
  OBVIOUS
<1>2. IsFiniteSet(1 .. Len(s))
  BY <1>1, FS_Interval
<1>3. At(s, type) \subseteq 1 .. Len(s)
  BY <1>1 DEF At
<1> QED BY <1>2, <1>3, FS_Subset, FS_CardinalityType DEF Count

LEMMA TailAt ==
    ASSUME NEW S, NEW s \in Seq(S), s # <<>>, NEW type
    PROVE  /\ \A i \in Nat : i \in At(Tail(s), type) <=> i # 0 /\ i + 1 \in At(s, type)
           /\ \A i \in At(Tail(s), type) : i \in Nat \ {0} /\ Tail(s)[i] = s[i + 1]
           /\ 1 \in At(s, type) <=> Head(s).type = type
           /\ \A i \in At(s, type) : i \in Nat \ {0}
<1>1. Len(s) \in Nat \ {0} /\ Head(s) = s[1] /\ DOMAIN s = 1 .. Len(s)
  OBVIOUS
<1>2. /\ DOMAIN Tail(s) = 1 .. Len(s) - 1
      /\ \A i \in 1 .. Len(s) - 1 : Tail(s)[i] = s[i + 1]
  OBVIOUS
<1> QED BY <1>1, <1>2 DEF At

LEMMA TailCount ==
    ASSUME NEW S, NEW s \in Seq(S), s # <<>>, NEW type
    PROVE  Count(s, type) =
               Count(Tail(s), type) + (IF Head(s).type = type THEN 1 ELSE 0)
<1> DEFINE A == At(s, type)
           B == At(Tail(s), type)
           F == [i \in B |-> i + 1]
<1>1. /\ \A i \in Nat : i \in B <=> i # 0 /\ i + 1 \in A
      /\ \A i \in B : i \in Nat \ {0}
      /\ 1 \in A <=> Head(s).type = type
      /\ \A i \in A : i \in Nat \ {0}
  BY TailAt
<1>2. IsFiniteSet(A) /\ Cardinality(A) \in Nat /\ IsFiniteSet(B) /\ Cardinality(B) \in Nat
  <2>1. Tail(s) \in Seq(S)
    OBVIOUS
  <2> QED BY <2>1, Counting DEF Count
<1> HIDE DEF A, B
<1>3. F \in Bijection(B, A \ {1})
  <2>1. \A i \in B : F[i] \in A \ {1}
    BY <1>1
  <2>2. \A i, j \in B : F[i] = F[j] => i = j
    BY <1>1
  <2>3. \A k \in A \ {1} : \E i \in B : F[i] = k
    <3> SUFFICES ASSUME NEW k \in A \ {1} PROVE k - 1 \in B /\ F[k - 1] = k
      OBVIOUS
    <3>1. k \in Nat \ {0, 1}
      BY <1>1
    <3>2. k - 1 \in Nat /\ k - 1 # 0 /\ k - 1 + 1 = k
      BY <3>1
    <3> QED BY <1>1, <3>2
  <2> QED BY <2>1, <2>2, <2>3 DEF Bijection, Injection, Surjection, IsInjective
<1>4. Cardinality(B) = Cardinality(A \ {1})
  BY <1>2, <1>3, FS_Bijection DEF ExistsBijection
<1>5. Cardinality(A \ {1}) = IF 1 \in A THEN Cardinality(A) - 1 ELSE Cardinality(A)
  BY <1>2, FS_RemoveElement
<1> QED BY <1>1, <1>2, <1>4, <1>5 DEF Count, A, B

\* What is appended is the last, and moves nothing.
LEMMA AppendKeeps ==
    ASSUME NEW S, NEW s \in Seq(S), NEW e, NEW type, NEW i \in At(s, type)
    PROVE  i \in 1 .. Len(s) /\ Append(s, e)[i] = s[i]
<1>1. DOMAIN s = 1 .. Len(s) /\ \A k \in 1 .. Len(s) : Append(s, e)[k] = s[k]
  OBVIOUS
<1> QED BY <1>1 DEF At

LEMMA AppendAt ==
    ASSUME NEW S, NEW s \in Seq(S), NEW e, NEW type
    PROVE  /\ At(Append(s, e), type) =
                At(s, type) \cup {k \in {Len(s) + 1} : e.type = type}
           /\ Len(s) + 1 \notin At(s, type)
<1>1. /\ DOMAIN s = 1 .. Len(s) /\ Len(s) \in Nat
      /\ DOMAIN Append(s, e) = 1 .. (Len(s) + 1)
      /\ Append(s, e)[Len(s) + 1] = e
      /\ \A i \in 1 .. Len(s) : Append(s, e)[i] = s[i]
  OBVIOUS
<1> QED BY <1>1 DEF At

LEMMA AppendCount ==
    ASSUME NEW S, NEW s \in Seq(S), NEW e, NEW type
    PROVE  Count(Append(s, e), type) =
               Count(s, type) + (IF e.type = type THEN 1 ELSE 0)
<1> DEFINE last == {k \in {Len(s) + 1} : e.type = type}
<1>1. At(Append(s, e), type) = At(s, type) \cup last /\ Len(s) + 1 \notin At(s, type)
  BY AppendAt
<1>2. IsFiniteSet(At(s, type)) /\ Cardinality(At(s, type)) \in Nat
  BY Counting DEF Count
<1>3. CASE e.type = type
  <2>1. last = {Len(s) + 1}
    BY <1>3
  <2>2. At(Append(s, e), type) = At(s, type) \cup {Len(s) + 1}
    BY <1>1, <2>1
  <2>3. Cardinality(At(s, type) \cup {Len(s) + 1}) = Cardinality(At(s, type)) + 1
    BY <1>1, <1>2, FS_AddElement
  <2> QED BY <1>3, <2>2, <2>3 DEF Count
<1>4. CASE e.type # type
  <2>1. last = {}
    BY <1>4
  <2>2. At(Append(s, e), type) = At(s, type)
    BY <1>1, <2>1
  <2> QED BY <1>2, <1>4, <2>2 DEF Count
<1> QED BY <1>3, <1>4

---------------------------------------------------------------------------
(* Pending answers.                                                        *)

LEMMA NothingPending == Pending(<<>>, <<>>, <<>>)
<1>1. At(<<>>, "pong") = {} /\ Len(<<>>) = 0
  BY DEF At
<1>2. [i \in {} |-> 0] \in [At(<<>>, "pong") -> Nat]
  BY <1>1
<1>3. (Len(<<>>) + 1) .. Len(<<>>) = {}
  BY <1>1
<1> QED BY <1>1, <1>2, <1>3 DEF Pending

\* Whatever else comes changes nothing.
LEMMA OtherArrives ==
    ASSUME NEW S, NEW box \in Seq(S), NEW res \in Seq(Target), NEW hrd \in Seq(Target),
           NEW e, e.type # "pong", Pending(box, res, hrd)
    PROVE  Pending(Append(box, e), res, hrd)
<1> DEFINE A == At(box, "pong")
           A1 == At(Append(box, e), "pong")
<1>1. A1 = A
  <2>1. A1 = A \cup {k \in {Len(box) + 1} : e.type = "pong"}
    BY AppendAt
  <2> QED BY <2>1
<1>2. ASSUME NEW i \in A PROVE Append(box, e)[i] = box[i]
  BY AppendKeeps
<1>3. PICK f \in [A -> Nat] :
        /\ \A i \in A : f[i] \in (Len(res) + 1) .. Len(hrd) /\ hrd[f[i]] = box[i].id
        /\ \A i, j \in A : i < j => f[i] < f[j]
        /\ \A k \in (Len(res) + 1) .. Len(hrd) : \E i \in A : f[i] = k
  BY DEF Pending
<1> HIDE DEF A, A1
<1>4. \A i \in A1 :
        f[i] \in (Len(res) + 1) .. Len(hrd) /\ hrd[f[i]] = Append(box, e)[i].id
  BY <1>1, <1>2, <1>3
<1>5. /\ f \in [A1 -> Nat]
      /\ \A i, j \in A1 : i < j => f[i] < f[j]
      /\ \A k \in (Len(res) + 1) .. Len(hrd) : \E i \in A1 : f[i] = k
  BY <1>1, <1>3
<1> QED BY <1>4, <1>5 DEF Pending, A1

\* An answer is heard as it arrives.
LEMMA PongArrives ==
    ASSUME NEW S, NEW box \in Seq(S), NEW res \in Seq(Target), NEW hrd \in Seq(Target),
           NEW e, e.type = "pong", e.id \in Target, Len(res) <= Len(hrd),
           Pending(box, res, hrd)
    PROVE  Pending(Append(box, e), res, Append(hrd, e.id))
<1> DEFINE A == At(box, "pong")
           A1 == At(Append(box, e), "pong")
           h == Append(hrd, e.id)
<1>1. PICK f \in [A -> Nat] :
        /\ \A i \in A : f[i] \in (Len(res) + 1) .. Len(hrd) /\ hrd[f[i]] = box[i].id
        /\ \A i, j \in A : i < j => f[i] < f[j]
        /\ \A k \in (Len(res) + 1) .. Len(hrd) : \E i \in A : f[i] = k
  BY DEF Pending
<1>2. /\ A1 = A \cup {Len(box) + 1} /\ Len(box) + 1 \notin A
      /\ \A i \in A : i \in 1 .. Len(box)
      /\ \A i \in A : Append(box, e)[i] = box[i]
      /\ Append(box, e)[Len(box) + 1] = e
  <2>1. At(Append(box, e), "pong") = At(box, "pong") \cup {Len(box) + 1}
    BY AppendAt
  <2>2. Len(box) + 1 \notin At(box, "pong")
    BY AppendAt
  <2>3. ASSUME NEW i \in At(box, "pong")
        PROVE  i \in 1 .. Len(box) /\ Append(box, e)[i] = box[i]
    BY AppendKeeps
  <2>4. Append(box, e)[Len(box) + 1] = e
    OBVIOUS
  <2> QED BY <2>1, <2>2, <2>3, <2>4
<1>3. /\ Len(h) = Len(hrd) + 1 /\ h[Len(hrd) + 1] = e.id
      /\ \A k \in 1 .. Len(hrd) : h[k] = hrd[k]
      /\ Len(hrd) \in Nat /\ Len(res) \in Nat /\ Len(box) \in Nat
  OBVIOUS
<1> DEFINE g == [i \in A1 |-> IF i \in A THEN f[i] ELSE Len(hrd) + 1]
<1>4. g \in [A1 -> Nat]
  BY <1>1, <1>3
<1>5. (\A i \in A : g[i] = f[i]) /\ g[Len(box) + 1] = Len(hrd) + 1
  BY <1>2
<1> HIDE DEF g, h, A, A1
<1>6. ASSUME NEW i \in A1
      PROVE  g[i] \in (Len(res) + 1) .. Len(h) /\ h[g[i]] = Append(box, e)[i].id
  <2>1. CASE i \in A
    BY <1>1, <1>2, <1>3, <1>5, <2>1
  <2>2. CASE i = Len(box) + 1
    BY <1>2, <1>3, <1>5, <2>2
  <2> QED BY <1>2, <2>1, <2>2
<1>7. ASSUME NEW i \in A1, NEW j \in A1, i < j PROVE g[i] < g[j]
  BY <1>1, <1>2, <1>3, <1>5, <1>7
<1>8. ASSUME NEW k \in (Len(res) + 1) .. Len(h) PROVE \E i \in A1 : g[i] = k
  <2>1. CASE k = Len(hrd) + 1
    BY <1>2, <1>5, <2>1
  <2>2. CASE k # Len(hrd) + 1
    <3>1. k \in (Len(res) + 1) .. Len(hrd)
      BY <1>3, <2>2
    <3>2. PICK i \in A : f[i] = k
      BY <1>1, <3>1
    <3> QED BY <1>2, <1>5, <3>2
  <2> QED BY <2>1, <2>2
<1> QED BY <1>4, <1>6, <1>7, <1>8 DEF Pending, A1, h

\* What is read is the oldest; an answer among it is the next one heard.
LEMMA EventIsRead ==
    ASSUME NEW S, NEW box \in Seq(S), box # <<>>, NEW res \in Seq(Target),
           NEW hrd \in Seq(Target), Pending(box, res, hrd)
    PROVE  /\ Head(box).type # "pong" => Pending(Tail(box), res, hrd)
           /\ Head(box).type = "pong" =>
                /\ Len(res) + 1 \in 1 .. Len(hrd)
                /\ hrd[Len(res) + 1] = Head(box).id
                /\ Pending(Tail(box), Append(res, Head(box).id), hrd)
<1> DEFINE A == At(box, "pong")
           B == At(Tail(box), "pong")
           low == IF Head(box).type = "pong" THEN Len(res) + 1 ELSE Len(res)
<1>1. PICK f \in [A -> Nat] :
        /\ \A i \in A : f[i] \in (Len(res) + 1) .. Len(hrd) /\ hrd[f[i]] = box[i].id
        /\ \A i, j \in A : i < j => f[i] < f[j]
        /\ \A k \in (Len(res) + 1) .. Len(hrd) : \E i \in A : f[i] = k
  BY DEF Pending
<1>2. /\ \A i \in Nat : i \in B <=> i # 0 /\ i + 1 \in A
      /\ \A i \in B : i \in Nat \ {0} /\ Tail(box)[i] = box[i + 1]
      /\ 1 \in A <=> Head(box).type = "pong"
      /\ \A i \in A : i \in Nat \ {0}
  BY TailAt
<1>3. Len(res) \in Nat /\ Len(hrd) \in Nat /\ low \in Nat /\ box[1] = Head(box)
  OBVIOUS
<1> DEFINE g == [i \in B |-> f[i + 1]]
<1>4. g \in [B -> Nat] /\ \A i \in B : g[i] = f[i + 1] /\ i + 1 \in A
  BY <1>1, <1>2
<1> HIDE DEF g, A, B, low
<1>5. CASE 1 \in A
  <2>1. f[1] = Len(res) + 1
    <3>1. f[1] \in (Len(res) + 1) .. Len(hrd)
      BY <1>1, <1>5
    <3>2. Len(res) + 1 \in (Len(res) + 1) .. Len(hrd)
      BY <1>3, <3>1
    <3>3. PICK i \in A : f[i] = Len(res) + 1
      BY <1>1, <3>2
    <3>4. i \in Nat \ {0} /\ ~(f[1] < f[i])
      BY <1>2, <1>3, <3>1, <3>3
    <3>5. ~(1 < i)
      BY <1>1, <1>5, <3>4
    <3>6. i = 1
      BY <3>4, <3>5
    <3> QED BY <3>3, <3>6
  <2>2. Head(box).type = "pong" /\ low = Len(res) + 1
    BY <1>2, <1>5 DEF low
  <2>3. Len(res) + 1 \in 1 .. Len(hrd) /\ hrd[Len(res) + 1] = Head(box).id
    BY <1>1, <1>3, <1>5, <2>1
  <2>4. ASSUME NEW i \in B
        PROVE  g[i] \in (low + 1) .. Len(hrd) /\ hrd[g[i]] = Tail(box)[i].id
    <3>1. 1 < i + 1 /\ i + 1 \in A
      BY <1>2, <1>4
    <3>2. f[1] < f[i + 1] /\ f[i + 1] \in (Len(res) + 1) .. Len(hrd)
      BY <1>1, <1>5, <3>1
    <3>3. g[i] \in (low + 1) .. Len(hrd)
      BY <1>3, <1>4, <2>1, <2>2, <3>2
    <3>4. hrd[f[i + 1]] = box[i + 1].id
      BY <1>1, <3>1
    <3> QED BY <1>2, <1>4, <3>3, <3>4
  <2>5. ASSUME NEW k \in (low + 1) .. Len(hrd) PROVE \E i \in B : g[i] = k
    <3>1. k \in (Len(res) + 1) .. Len(hrd) /\ k # Len(res) + 1
      BY <1>3, <2>2
    <3>2. PICK i \in A : f[i] = k
      BY <1>1, <3>1
    <3>3. i # 1
      BY <2>1, <3>1, <3>2
    <3>4. i \in Nat \ {0}
      BY <1>2
    <3>5. i - 1 \in Nat /\ i - 1 # 0 /\ i - 1 + 1 = i
      BY <3>3, <3>4
    <3>6. i - 1 \in B
      BY <1>2, <3>5
    <3> QED BY <1>4, <3>2, <3>5, <3>6
  <2>6. \A i, j \in B : i < j => g[i] < g[j]
    BY <1>1, <1>2, <1>4
  <2>7. Len(Append(res, Head(box).id)) = low
    <3>1. Head(box).id \in Target
      BY <2>3
    <3> QED BY <2>2, <3>1
  <2>8. Pending(Tail(box), Append(res, Head(box).id), hrd)
    BY <1>4, <2>4, <2>5, <2>6, <2>7 DEF Pending, B
  <2> QED BY <2>2, <2>3, <2>8
<1>6. CASE 1 \notin A
  <2>1. Head(box).type # "pong"
    BY <1>2, <1>6
  <2>2. ASSUME NEW i \in B
        PROVE  g[i] \in (Len(res) + 1) .. Len(hrd) /\ hrd[g[i]] = Tail(box)[i].id
    <3>1. hrd[f[i + 1]] = box[i + 1].id /\ f[i + 1] \in (Len(res) + 1) .. Len(hrd)
      BY <1>1, <1>4
    <3> QED BY <1>2, <1>4, <3>1
  <2>3. ASSUME NEW k \in (Len(res) + 1) .. Len(hrd) PROVE \E i \in B : g[i] = k
    <3>1. PICK i \in A : f[i] = k
      BY <1>1
    <3>2. i \in Nat \ {0} /\ i # 1
      BY <1>2, <1>6
    <3>3. i - 1 \in Nat /\ i - 1 # 0 /\ i - 1 + 1 = i
      BY <3>2
    <3>4. i - 1 \in B
      BY <1>2, <3>3
    <3> QED BY <1>4, <3>1, <3>3, <3>4
  <2>4. \A i, j \in B : i < j => g[i] < g[j]
    BY <1>1, <1>2, <1>4
  <2> QED BY <1>4, <2>1, <2>2, <2>3, <2>4 DEF Pending, B
<1> QED BY <1>5, <1>6

---------------------------------------------------------------------------
(* Types.                                                                  *)

LEMMA Messages ==
    /\ NoName \in Target /\ \A n \in Node : NodeId(n) \in Target
    /\ Unmatched \in Event /\ Unmatched.type = "other" /\ Packet \subseteq Event
    /\ \A id \in Target : /\ Ping(id) \in Packet /\ Ping(id).type = "ping"
                          /\ Pong(id) \in Packet /\ Pong(id).type = "pong"
    /\ \A p \in Packet : p.type \in {"ping", "pong"} /\ p.id \in Target
    /\ \A e \in Event : e.type = "pong" => e.id \in Target
BY DEF Target, NodeId, Unmatched, Event, Packet, Ping, Pong

LEMMA TransmitType ==
    ASSUME TypeOK, NEW box \in [Node -> Seq(Packet)], NEW p \in Packet, NEW H,
           Transmit(p, box, H)
    PROVE  inbox' \in [Node -> Seq(Packet)] /\ pinged' \in [Node -> Nat]
<1>1. ASSUME NEW m \in Node
      PROVE  (IF m \in H THEN Append(box[m], p) ELSE box[m]) \in Seq(Packet)
  OBVIOUS
<1>2. ASSUME NEW m \in Node
      PROVE  (IF m \in H /\ p.type = "ping" THEN pinged[m] + 1 ELSE pinged[m]) \in Nat
  BY DEF TypeOK
<1> QED BY <1>1, <1>2 DEF Transmit

LEMMA ReportedType ==
    ASSUME TypeOK, NEW events \in Seq(Event)
    PROVE  Reported(events) \in Seq(Event)
BY DEF TypeOK, Reported

LEMMA InitType == Init => TypeOK
BY Messages, BoundAssumption, NodeAssumption DEF Init, TypeOK

LEMMA TypeStep == TypeOK /\ [Next]_vars => TypeOK'
<1> SUFFICES ASSUME TypeOK, [Next]_vars PROVE TypeOK'
  OBVIOUS
<1> USE BoundAssumption
<1>1. ASSUME NEW id \in Target, Ask(id) PROVE TypeOK'
  BY <1>1 DEF Ask, TypeOK, asked, history
<1>2. ASSUME NEW H \in SUBSET (Node \ {Asker}), SendPing(H) PROVE TypeOK'
  <2>1. Ping(target) \in Packet /\ Unmatched \in Event
    BY Messages DEF TypeOK
  <2>2. inbox' \in [Node -> Seq(Packet)] /\ pinged' \in [Node -> Nat]
    BY <1>2, <2>1, TransmitType DEF SendPing, TypeOK
  <2>3. backlog' \in Seq(Event) /\ pings' \in 0 .. MaxPings
    BY <1>2, <2>1 DEF SendPing, TypeOK
  <2>4. own' \in {Asker, NoName}
    BY <1>2 DEF SendPing, NodeId
  <2> QED BY <1>2, <2>1, <2>2, <2>3, <2>4 DEF SendPing, TypeOK
<1>3. ASSUME NEW n \in Node, NEW id \in Target, NEW H \in SUBSET (Node \ {n}),
             OtherAsks(n, id, H)
      PROVE  TypeOK'
  <2>1. inbox' \in [Node -> Seq(Packet)] /\ pinged' \in [Node -> Nat]
    BY <1>3, Messages, TransmitType DEF OtherAsks, TypeOK
  <2>2. <<Unmatched>> \in Seq(Event) /\ Raw(H) \in Seq(Event)
    BY Messages DEF Raw
  <2>3. Reported(<<Unmatched>>) \in Seq(Event) /\ Reported(Raw(H)) \in Seq(Event)
    BY <2>2, ReportedType
  <2>4. backlog' \in Seq(Event)
    BY <1>3, <2>3 DEF OtherAsks
  <2>5. pings' \in 0 .. MaxPings
    BY <1>3 DEF OtherAsks, TypeOK
  <2> QED BY <1>3, <2>1, <2>4, <2>5 DEF OtherAsks, TypeOK, asked
<1>4. ASSUME NEW n \in Node, NEW H \in SUBSET (Node \ {n}), Answer(n, H) PROVE TypeOK'
  <2>1. /\ inbox[n] \in Seq(Packet) /\ Head(inbox[n]) \in Event
        /\ [inbox EXCEPT ![n] = Tail(@)] \in [Node -> Seq(Packet)]
    BY <1>4, Messages DEF Answer, TypeOK
  <2>2. inbox' \in [Node -> Seq(Packet)] /\ pinged' \in [Node -> Nat]
    BY <1>4, <2>1, Messages, TransmitType DEF Answer
  <2>3. <<Head(inbox[n]), Unmatched>> \in Seq(Event) /\ Raw(H) \in Seq(Event)
    BY <2>1, Messages DEF Raw
  <2>4. backlog' \in Seq(Event)
    <3>1. Reported(<<Head(inbox[n]), Unmatched>>) \in Seq(Event)
      BY <2>3, ReportedType
    <3>2. Reported(Raw(H)) \in Seq(Event)
      BY <2>3, ReportedType
    <3> QED BY <1>4, <3>1, <3>2 DEF Answer
  <2>5. ponged' \in [Node -> Nat]
    BY <1>4 DEF Answer, TypeOK
  <2> QED BY <1>4, <2>2, <2>4, <2>5 DEF Answer, TypeOK, asked
<1>5. ASSUME NEW n \in Node, Ignore(n) PROVE TypeOK'
  <2>1. /\ Head(inbox[n]) \in Packet /\ Head(inbox[n]) \in Event
        /\ inbox' \in [Node -> Seq(Packet)]
    BY <1>5, Messages DEF Ignore, TypeOK
  <2>2. backlog' \in Seq(Event)
    <3>1. <<Head(inbox[n])>> \in Seq(Event)
      BY <2>1
    <3>2. Reported(<<Head(inbox[n])>>) \in Seq(Event)
      BY <3>1, ReportedType
    <3> QED BY <1>5, <3>2 DEF Ignore, TypeOK
  <2>3. heard' \in Seq(Target)
    BY <1>5, <2>1, Messages DEF Ignore, TypeOK
  <2> QED BY <1>5, <2>1, <2>2, <2>3 DEF Ignore, TypeOK, asked
<1>6. CASE OtherEvent
  <2>1. <<Unmatched>> \in Seq(Event)
    BY Messages
  <2>2. backlog' \in Seq(Event)
    BY <1>6, <2>1, ReportedType DEF OtherEvent
  <2>3. other' \in 0 .. MaxOther
    BY <1>6 DEF OtherEvent, TypeOK
  <2> QED BY <1>6, <2>2, <2>3 DEF OtherEvent, TypeOK, asked
<1>7. CASE ReadPong
  <2>1. Head(backlog).id \in Target
    BY <1>7, Messages DEF ReadPong, TypeOK
  <2> QED BY <1>7, <2>1 DEF ReadPong, TypeOK, asked, history
<1>8. CASE SkipPacket \/ CloseArm
  <2>1. backlog \in Seq(Event) /\ backlog # <<>> /\ backlog' = Tail(backlog)
    BY <1>8 DEF SkipPacket, CloseArm, TypeOK
  <2>2. backlog' \in Seq(Event)
    BY <2>1
  <2> QED BY <1>8, <2>2 DEF SkipPacket, CloseArm, TypeOK, asked, history
<1>9. CASE Timeout
  BY <1>9 DEF Timeout, TypeOK, asked, history
<1>10. CASE UNCHANGED vars
  BY <1>10 DEF vars, asked, history, TypeOK
<1>11. ASSUME NEW n \in Node, Rename(n) PROVE TypeOK'
  <2>1. named' \in SUBSET Node /\ renames' \in 0 .. MaxRenames
    BY <1>11 DEF Rename, TypeOK
  <2> QED BY <1>11, <2>1 DEF Rename, TypeOK, asked
<1> QED BY <1>1, <1>2, <1>3, <1>4, <1>5, <1>6, <1>7, <1>8, <1>9, <1>10, <1>11 DEF Next

\* For any nodes and any traffic the request and the LoRa actors find in their
\* queues only what they know.
THEOREM TypeCorrect == Spec => []TypeOK
<1> QED BY InitType, TypeStep, PTL DEF Spec

---------------------------------------------------------------------------
(* Pings and pongs.                                                        *)

LEMMA TransmitCounts ==
    ASSUME TypeOK, NEW box \in [Node -> Seq(Packet)], NEW p \in Packet, NEW H,
           Transmit(p, box, H), NEW m \in Node, NEW k \in Nat,
           k + Count(box[m], "ping") <= pinged[m]
    PROVE  k + Count(inbox'[m], "ping") <= pinged'[m]
<1>1. Count(box[m], "ping") \in Nat /\ pinged[m] \in Nat
  BY Counting DEF TypeOK
<1>2. CASE m \in H
  <2>1. inbox'[m] = Append(box[m], p)
    BY <1>2 DEF Transmit
  <2>2. pinged'[m] = pinged[m] + (IF p.type = "ping" THEN 1 ELSE 0)
    BY <1>1, <1>2 DEF Transmit
  <2>3. Count(inbox'[m], "ping") =
            Count(box[m], "ping") + (IF p.type = "ping" THEN 1 ELSE 0)
    BY <2>1, AppendCount
  <2> QED BY <1>1, <2>2, <2>3
<1>3. CASE m \notin H
  BY <1>3 DEF Transmit
<1> QED BY <1>2, <1>3

LEMMA PingStep == TypeOK /\ PingInv /\ [Next]_vars => PingInv'
<1> SUFFICES ASSUME TypeOK, PingInv, [Next]_vars, NEW m \in Node
             PROVE  ponged'[m] + Count(inbox'[m], "ping") <= pinged'[m]
  BY DEF PingInv
<1>0. /\ ponged[m] \in Nat /\ ponged[m] + Count(inbox[m], "ping") <= pinged[m]
      /\ \A n \in Node : inbox[n] \in Seq(Packet)
  BY DEF PingInv, TypeOK
<1>1. ASSUME NEW H, SendPing(H) PROVE ponged'[m] + Count(inbox'[m], "ping") <= pinged'[m]
  <2>1. Ping(target) \in Packet
    BY Messages DEF TypeOK
  <2> QED BY <1>0, <1>1, <2>1, TransmitCounts DEF SendPing, TypeOK
<1>2. ASSUME NEW n \in Node, NEW id \in Target, NEW H, OtherAsks(n, id, H)
      PROVE  ponged'[m] + Count(inbox'[m], "ping") <= pinged'[m]
  <2>1. Ping(id) \in Packet
    BY Messages
  <2> QED BY <1>0, <1>2, <2>1, TransmitCounts DEF OtherAsks, TypeOK
<1>3. ASSUME NEW n \in Node, NEW H, Answer(n, H)
      PROVE  ponged'[m] + Count(inbox'[m], "ping") <= pinged'[m]
  <2> DEFINE box == [inbox EXCEPT ![n] = Tail(@)]
  <2>1. box \in [Node -> Seq(Packet)] /\ Pong(NodeId(n)) \in Packet
    BY <1>3, Messages DEF Answer, TypeOK
  <2>2. ponged'[m] \in Nat /\ ponged'[m] + Count(box[m], "ping") <= pinged[m]
    <3>1. CASE m = n
      <4>1. box[m] = Tail(inbox[m]) /\ ponged'[m] = ponged[m] + 1
        BY <1>3, <3>1 DEF Answer, TypeOK
      <4>2. inbox[m] # <<>> /\ Head(inbox[m]).type = "ping"
        BY <1>3, <3>1 DEF Answer, Answers
      <4>3. Count(inbox[m], "ping") = Count(Tail(inbox[m]), "ping") + 1
        BY <1>0, <4>2, TailCount
      <4>4. Count(Tail(inbox[m]), "ping") \in Nat
        <5>1. Tail(inbox[m]) \in Seq(Packet)
          BY <1>0, <4>2
        <5> QED BY <5>1, Counting
      <4> QED BY <1>0, <4>1, <4>3, <4>4
    <3>2. CASE m # n
      BY <1>0, <1>3, <3>2 DEF Answer, TypeOK
    <3> QED BY <3>1, <3>2
  <2>3. Transmit(Pong(NodeId(n)), box, H)
    BY <1>3 DEF Answer
  <2> HIDE DEF box
  <2> QED BY <2>1, <2>2, <2>3, TransmitCounts
<1>4. ASSUME NEW n \in Node, Ignore(n)
      PROVE  ponged'[m] + Count(inbox'[m], "ping") <= pinged'[m]
  <2>1. ponged'[m] = ponged[m] /\ pinged'[m] = pinged[m] /\ pinged[m] \in Nat
    BY <1>4 DEF Ignore, TypeOK
  <2>2. CASE m = n
    <3>1. inbox'[m] = Tail(inbox[m]) /\ inbox[m] # <<>>
      BY <1>4, <2>2 DEF Ignore, TypeOK
    <3>2. Count(inbox[m], "ping") = Count(Tail(inbox[m]), "ping")
                                      + (IF Head(inbox[m]).type = "ping" THEN 1 ELSE 0)
      BY <1>0, <3>1, TailCount
    <3>3. Count(Tail(inbox[m]), "ping") \in Nat
      <4>1. Tail(inbox[m]) \in Seq(Packet)
        BY <1>0, <3>1
      <4> QED BY <4>1, Counting
    <3> QED BY <1>0, <2>1, <3>1, <3>2, <3>3
  <2>3. CASE m # n
    BY <1>0, <1>4, <2>1, <2>3 DEF Ignore, TypeOK
  <2> QED BY <2>2, <2>3
<1>5. CASE UNCHANGED <<inbox, pinged, ponged>>
  BY <1>0, <1>5
<1> QED BY <1>1, <1>2, <1>3, <1>4, <1>5
        DEF Next, Rename, Ask, OtherEvent, ReadPong, SkipPacket, CloseArm, Timeout, vars, history

\* However many nodes hear one another, registered or not: no node sends more
\* pongs than it has heard pings.
THEOREM AnswersBreedNoAnswers == Spec => []NoPongStorm
<1>1. Init => PingInv
  <2> SUFFICES ASSUME Init, NEW n \in Node
               PROVE  ponged[n] + Count(inbox[n], "ping") <= pinged[n]
    BY DEF PingInv
  <2>1. At(inbox[n], "ping") = {}
    BY DEF Init, At
  <2> QED BY <2>1, FS_EmptySet DEF Init, Count
<1>2. TypeOK /\ PingInv => NoPongStorm
  <2> SUFFICES ASSUME TypeOK, PingInv, NEW n \in Node PROVE ponged[n] <= pinged[n]
    BY DEF NoPongStorm
  <2>1. inbox[n] \in Seq(Packet) /\ ponged[n] \in Nat /\ pinged[n] \in Nat
    BY DEF TypeOK
  <2>2. Count(inbox[n], "ping") \in Nat
    BY <2>1, Counting
  <2> QED BY <2>1, <2>2 DEF PingInv
<1> QED BY <1>1, <1>2, TypeCorrect, PingStep, PTL DEF Spec

---------------------------------------------------------------------------
(* Answers.                                                                *)

\* Events that are no answers leave the answers where they are.
LEMMA Noise ==
    ASSUME TypeOK, AnswerInv, NEW events, events \in {<<>>, <<Unmatched>>},
           backlog' = Reported(events), UNCHANGED <<arm, result, heard>>
    PROVE  AnswerInv'
<1>1. OnlyWhatWasHeard'
  BY DEF AnswerInv, OnlyWhatWasHeard
<1>2. CASE Subscribed /\ events = <<Unmatched>>
  <2>1. backlog' = Append(backlog, Unmatched)
    BY <1>2, Messages DEF TypeOK, Reported
  <2>2. arm # "none"
    BY <1>2 DEF Subscribed
  <2>3. ASSUME arm \in {"asked", "open"} PROVE Pending(backlog', result, heard)
    BY <2>1, <2>3, Messages, OtherArrives DEF TypeOK, AnswerInv
  <2> QED BY <1>1, <2>2, <2>3 DEF AnswerInv
<1>3. CASE ~Subscribed \/ events = <<>>
  <2>1. backlog' = backlog
    BY <1>3 DEF TypeOK, Reported
  <2> QED BY <1>1, <2>1 DEF AnswerInv
<1> QED BY <1>2, <1>3

\* The parsed packet that is an answer is heard and awaits its turn at once.
LEMMA AnswerStep == TypeOK /\ AnswerInv /\ [Next]_vars => AnswerInv'
<1> SUFFICES ASSUME TypeOK, AnswerInv, [Next]_vars PROVE AnswerInv'
  OBVIOUS
<1>0. /\ backlog \in Seq(Event) /\ result \in Seq(Target) /\ heard \in Seq(Target)
      /\ OnlyWhatWasHeard
  BY DEF TypeOK, AnswerInv
<1>1. ASSUME NEW id \in Target, Ask(id) PROVE AnswerInv'
  <2>1. backlog = <<>> /\ result = <<>> /\ heard = <<>>
    BY <1>1 DEF Ask, AnswerInv
  <2> QED BY <1>0, <1>1, <2>1, NothingPending
          DEF Ask, AnswerInv, OnlyWhatWasHeard, history
<1>2. ASSUME NEW H, SendPing(H) PROVE AnswerInv'
  <2>1. Pending(backlog, result, heard)
    BY <1>2 DEF SendPing, AnswerInv
  <2>2. Pending(Append(backlog, Unmatched), result, heard)
    BY <1>0, <2>1, Messages, OtherArrives
  <2> QED BY <1>0, <1>2, <2>2 DEF SendPing, AnswerInv, OnlyWhatWasHeard
<1>3. ASSUME NEW n \in Node, NEW id, NEW H, OtherAsks(n, id, H) PROVE AnswerInv'
  <2> DEFINE events == IF n = Asker THEN <<Unmatched>> ELSE Raw(H)
  <2>1. events \in {<<>>, <<Unmatched>>}
    BY DEF Raw
  <2>2. backlog' = Reported(events) /\ UNCHANGED <<arm, result, heard>>
    BY <1>3 DEF OtherAsks
  <2> HIDE DEF events
  <2> QED BY <2>1, <2>2, Noise
<1>4. ASSUME NEW n \in Node, NEW H, Answer(n, H) PROVE AnswerInv'
  <2>1. UNCHANGED <<arm, result, heard>>
    BY <1>4 DEF Answer
  <2>2. CASE n = Asker
    <3> DEFINE p == Head(inbox[n])
    <3>1. p \in Event /\ p.type = "ping"
      BY <1>4, Messages DEF Answer, Answers, TypeOK
    <3>2. backlog' = Reported(<<p, Unmatched>>)
      BY <1>4, <2>2 DEF Answer
    <3> HIDE DEF p
    <3>3. CASE Subscribed
      <4>1. Append(backlog, p) \in Seq(Event)
        BY <1>0, <3>1
      <4>2. backlog' = Append(Append(backlog, p), Unmatched)
        BY <1>0, <3>1, <3>2, <3>3, Messages DEF Reported
      <4>3. ASSUME arm \in {"asked", "open"} PROVE Pending(backlog', result, heard)
        <5>1. Pending(Append(backlog, p), result, heard)
          BY <1>0, <3>1, <4>3, OtherArrives DEF AnswerInv
        <5> QED BY <1>0, <4>1, <4>2, <5>1, Messages, OtherArrives
      <4> QED BY <1>0, <2>1, <3>3, <4>3 DEF AnswerInv, OnlyWhatWasHeard, Subscribed
    <3>4. CASE ~Subscribed
      BY <1>0, <2>1, <3>2, <3>4 DEF AnswerInv, OnlyWhatWasHeard, Reported
    <3> QED BY <3>3, <3>4
  <2>3. CASE n # Asker
    <3>1. Raw(H) \in {<<>>, <<Unmatched>>} /\ backlog' = Reported(Raw(H))
      BY <1>4, <2>3 DEF Answer, Raw
    <3> QED BY <2>1, <3>1, Noise
  <2> QED BY <2>2, <2>3
<1>5. ASSUME NEW n \in Node, Ignore(n) PROVE AnswerInv'
  <2> DEFINE p == Head(inbox[n])
  <2>1. p \in Packet /\ p \in Event
    BY <1>5, Messages DEF Ignore, TypeOK
  <2>2. UNCHANGED <<arm, result>>
    BY <1>5 DEF Ignore
  <2>3. CASE n = Asker /\ Subscribed
    <3>1. backlog' = Append(backlog, p)
      BY <1>0, <1>5, <2>1, <2>3 DEF Ignore, Reported
    <3>2. heard' = IF p.type = "pong" THEN Append(heard, p.id) ELSE heard
      BY <1>5, <2>3 DEF Ignore
    <3> HIDE DEF p
    <3>3. p.id \in Target /\ arm # "none"
      BY <2>1, <2>3, Messages DEF Subscribed
    <3>4. OnlyWhatWasHeard'
      <4>1. /\ Len(heard') >= Len(heard)
            /\ \A i \in 1 .. Len(heard) : heard'[i] = heard[i]
        BY <1>0, <3>2, <3>3
      <4> QED BY <1>0, <2>2, <4>1 DEF OnlyWhatWasHeard
    <3>5. ASSUME arm \in {"asked", "open"} PROVE Pending(backlog', result, heard')
      <4>1. Pending(backlog, result, heard) /\ Len(result) <= Len(heard)
        BY <3>5 DEF AnswerInv, OnlyWhatWasHeard
      <4>2. CASE p.type = "pong"
        BY <1>0, <3>1, <3>2, <3>3, <4>1, <4>2, PongArrives
      <4>3. CASE p.type # "pong"
        BY <1>0, <3>1, <3>2, <4>1, <4>3, OtherArrives
      <4> QED BY <4>2, <4>3
    <3> QED BY <2>2, <3>3, <3>4, <3>5 DEF AnswerInv
  <2>4. CASE ~(n = Asker /\ Subscribed)
    <3>1. backlog' = backlog /\ heard' = heard
      BY <1>5, <2>4 DEF Ignore, Reported
    <3> QED BY <1>0, <2>2, <3>1 DEF AnswerInv, OnlyWhatWasHeard
  <2> QED BY <2>3, <2>4
<1>6. CASE OtherEvent
  BY <1>6, Noise DEF OtherEvent
<1>7. CASE ReadPong
  <2> DEFINE id == Head(backlog).id
  <2>1. /\ backlog # <<>> /\ Head(backlog).type = "pong"
        /\ result' = Append(result, id) /\ backlog' = Tail(backlog)
        /\ heard' = heard /\ Pending(backlog, result, heard) /\ arm' # "none"
    BY <1>7 DEF ReadPong, AnswerInv, history
  <2>2. /\ Len(result) + 1 \in 1 .. Len(heard)
        /\ heard[Len(result) + 1] = id
        /\ Pending(Tail(backlog), Append(result, id), heard)
    BY <1>0, <2>1, EventIsRead
  <2> HIDE DEF id
  <2>3. id \in Target
    BY <1>0, <2>2
  <2>4. OnlyWhatWasHeard'
    <3>1. /\ DOMAIN result' = 1 .. (Len(result) + 1)
          /\ result'[Len(result) + 1] = id
          /\ \A i \in 1 .. Len(result) : result'[i] = result[i]
          /\ Len(result') = Len(result) + 1 /\ Len(result) \in Nat
          /\ DOMAIN result = 1 .. Len(result)
      BY <1>0, <2>1, <2>3
    <3>2. ASSUME NEW i \in DOMAIN result' PROVE result'[i] = heard[i]
      BY <1>0, <2>2, <3>1 DEF OnlyWhatWasHeard
    <3> QED BY <2>1, <2>2, <3>1, <3>2 DEF OnlyWhatWasHeard
  <2> QED BY <2>1, <2>2, <2>4 DEF AnswerInv
<1>8. CASE SkipPacket \/ CloseArm
  <2>1. /\ backlog # <<>> /\ Head(backlog).type # "pong" /\ backlog' = Tail(backlog)
        /\ UNCHANGED <<result, heard>> /\ arm' # "none"
        /\ Pending(backlog, result, heard)
    BY <1>8, Messages DEF SkipPacket, CloseArm, AnswerInv, history
  <2>2. Pending(Tail(backlog), result, heard)
    BY <1>0, <2>1, EventIsRead
  <2> QED BY <1>0, <2>1, <2>2 DEF AnswerInv, OnlyWhatWasHeard
<1>9. CASE Timeout
  BY <1>0, <1>9 DEF Timeout, AnswerInv, OnlyWhatWasHeard, history
<1>10. CASE UNCHANGED vars
  BY <1>0, <1>10 DEF vars, history, AnswerInv, OnlyWhatWasHeard
<1>11. ASSUME NEW n \in Node, Rename(n) PROVE AnswerInv'
  BY <1>0, <1>11 DEF Rename, AnswerInv, OnlyWhatWasHeard
<1> QED BY <1>1, <1>2, <1>3, <1>4, <1>5, <1>6, <1>7, <1>8, <1>9, <1>10, <1>11 DEF Next

\* However long the request waits and whatever else is on the bus: what it
\* returns are the first answers that reached the node, in their order.
THEOREM AnswersInOrder == Spec => []OnlyWhatWasHeard
<1>1. Init => AnswerInv
  BY DEF Init, AnswerInv, OnlyWhatWasHeard
<1>2. AnswerInv => OnlyWhatWasHeard
  BY DEF AnswerInv
<1> QED BY <1>1, <1>2, TypeCorrect, AnswerStep, PTL DEF Spec

=============================================================================
