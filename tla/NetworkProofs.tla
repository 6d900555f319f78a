--------------------------- MODULE NetworkProofs ----------------------------
(***************************************************************************)
(* Proofs about a connection, for any callers, commands, frames, policies, *)
(* packets and closers: the send queue keeps the order of the commands and *)
(* the latest frame of a stream (OutboundQueue), a session calls its       *)
(* remove callback once and Close waits for it (TcpSession), the response  *)
(* to a request reaches the caller that waits for it (RequestRouter), and  *)
(* the ends agree on a protocol version (ProtocolNegotiation).             *)
(***************************************************************************)
EXTENDS OutboundQueue, TcpSession, RequestRouter, ProtocolNegotiation, TLAPS

\* Leaves with arithmetic or a large case split cite SMT.
USE Zenon

-----------------------------------------------------------------------------
(* OutboundQueue *)

QueueTypes ==
  /\ items \in Seq(Packets) /\ admitted \in Seq(Commands)
  /\ coalesceKey \in [Frames -> CoalesceKeys] /\ DOMAIN fate = Packets
  /\ latest \in [CoalesceKeys -> Frames \cup {NoFrame}]
  /\ offered \in [CoalesceKeys -> Frames \cup {NoFrame}]

InOrder == \E slot \in [DOMAIN admitted -> DOMAIN items] : CommandSlots(slot)

\* A frame is in the queue once, after it was sent, and as the latest of its stream.
FrameSlots ==
  /\ \A i \in DOMAIN items : items[i] \in Frames =>
       /\ fate[items[i]] = "queued" /\ latest[coalesceKey[items[i]]] = items[i]
       /\ \A j \in DOMAIN items : items[j] = items[i] => j = i
  /\ \A k \in CoalesceKeys : latest[k] # NoFrame =>
       /\ coalesceKey[latest[k]] = k /\ offered[k] = latest[k]
       /\ \E i \in DOMAIN items : items[i] = latest[k]

QueueInv == QueueTypes /\ InOrder /\ FrameSlots

LEMMA QueueInitially == QueueInit => QueueInv
  <1> SUFFICES ASSUME QueueInit PROVE QueueInv OBVIOUS
  <1>1. QueueTypes BY SMT DEF QueueInit, QueueTypes
  <1>2. DOMAIN items = {} /\ DOMAIN admitted = {} BY SMT DEF QueueInit
  <1>3. PICK slot : slot = [n \in DOMAIN admitted |-> n] OBVIOUS
  <1>4. slot \in [DOMAIN admitted -> DOMAIN items] BY SMT, <1>2, <1>3
  <1>5. InOrder BY <1>2, <1>4 DEF InOrder, CommandSlots
  <1>6. FrameSlots BY <1>2 DEF QueueInit, FrameSlots
  <1> QED BY <1>1, <1>5, <1>6 DEF QueueInv

\* What is appended to the queue
LEMMA Pushed ==
  ASSUME QueueTypes, NEW p \in Packets, items' = Append(items, p)
  PROVE  /\ items' \in Seq(Packets) /\ Len(items) \in Nat
         /\ DOMAIN items = 1..Len(items) /\ DOMAIN items' = 1..(Len(items) + 1)
         /\ items'[Len(items) + 1] = p /\ \A i \in DOMAIN items : items'[i] = items[i]
  BY SMT DEF QueueTypes

\* What is left when the head is taken
LEMMA Popped ==
  ASSUME QueueTypes, items # <<>>, items' = Tail(items)
  PROVE  /\ items' \in Seq(Packets) /\ Len(items) \in Nat /\ Len(items) >= 1
         /\ DOMAIN items = 1..Len(items) /\ DOMAIN items' = 1..(Len(items) - 1)
         /\ items[1] = Head(items) /\ Head(items) \in Packets
         /\ \A i \in DOMAIN items' : i + 1 \in DOMAIN items /\ items'[i] = items[i + 1]
         /\ \A i \in DOMAIN items : i # 1 => i - 1 \in DOMAIN items' /\ items'[i - 1] = items[i]
  BY SMT DEF QueueTypes

\* CommandSlots, for sequences adm and its of the lengths a and l
OrderMap(slot, adm, a, its, l) ==
  /\ slot \in [1..a -> 1..l]
  /\ \A m, n \in 1..a : m < n => slot[m] < slot[n]
  /\ \A n \in 1..a : its[slot[n]] = adm[n]
  /\ \A i \in 1..l : its[i] \in Commands => \E n \in 1..a : slot[n] = i

LEMMA OrderMapGiven ==
  ASSUME DOMAIN admitted = 1..Len(admitted), DOMAIN items = 1..Len(items), InOrder
  PROVE  \E slot : OrderMap(slot, admitted, Len(admitted), items, Len(items))
  <1>1. PICK slot \in [DOMAIN admitted -> DOMAIN items] : CommandSlots(slot) BY DEF InOrder
  <1>2. OrderMap(slot, admitted, Len(admitted), items, Len(items)) BY <1>1 DEF CommandSlots, OrderMap
  <1> QED BY <1>2

LEMMA OrderMapGives ==
  ASSUME DOMAIN admitted' = 1..Len(admitted'), DOMAIN items' = 1..Len(items'),
         NEW new, OrderMap(new, admitted', Len(admitted'), items', Len(items'))
  PROVE  InOrder'
  <1>1. CommandSlots(new)' BY DEF CommandSlots, OrderMap
  <1>2. new \in [DOMAIN admitted' -> DOMAIN items'] BY DEF OrderMap
  <1> QED BY <1>1, <1>2 DEF InOrder

\* long is s, of length n, with p behind it.
Longer(s, n, p, long) == long[n + 1] = p /\ \A i \in 1..n : long[i] = s[i]

LEMMA OrderMapPush ==
  ASSUME NEW a \in Nat, NEW l \in Nat, NEW adm, NEW its, NEW adm2, NEW its2, NEW slot, NEW p,
         OrderMap(slot, adm, a, its, l), Longer(adm, a, p, adm2), Longer(its, l, p, its2)
  PROVE  \E new : OrderMap(new, adm2, a + 1, its2, l + 1)
  <1>1. PICK new : new = [n \in 1..(a + 1) |-> IF n \in 1..a THEN slot[n] ELSE l + 1] OBVIOUS
  <1>2. /\ \A n \in 1..a : n \in 1..(a + 1) /\ new[n] = slot[n] /\ new[n] \in 1..l
        /\ a + 1 \in 1..(a + 1) /\ new[a + 1] = l + 1
    <2>1. slot \in [1..a -> 1..l] BY DEF OrderMap
    <2>2. a + 1 \in 1..(a + 1) /\ a + 1 \notin 1..a /\ \A n \in 1..a : n \in 1..(a + 1) BY SMT
    <2> QED BY <1>1, <2>1, <2>2
  <1>3. \A n \in 1..(a + 1) : n \in 1..a \/ n = a + 1 BY SMT
  <1>4. new \in [1..(a + 1) -> 1..(l + 1)]
    <2>1. DOMAIN new = 1..(a + 1) /\ new = [n \in 1..(a + 1) |-> new[n]] BY <1>1
    <2>2. l + 1 \in 1..(l + 1) /\ \A i \in 1..l : i \in 1..(l + 1) BY SMT
    <2>3. \A n \in 1..(a + 1) : new[n] \in 1..(l + 1) BY <1>2, <1>3, <2>2
    <2> QED BY <2>1, <2>3
  <1>5. \A m, n \in 1..(a + 1) : m < n => new[m] < new[n]
    <2>1. \A m, n \in 1..a : m < n => slot[m] < slot[n] BY DEF OrderMap
    <2> QED BY SMT, <1>2, <1>3, <2>1
  <1>6. \A n \in 1..(a + 1) : its2[new[n]] = adm2[n]
    <2>1. \A n \in 1..a : its[slot[n]] = adm[n] BY DEF OrderMap
    <2> QED BY <1>2, <1>3, <2>1 DEF Longer
  <1>7. \A i \in 1..(l + 1) : i \in 1..l \/ i = l + 1 BY SMT
  <1>8. \A i \in 1..(l + 1) : its2[i] \in Commands => \E n \in 1..(a + 1) : new[n] = i
    BY <1>2, <1>7 DEF OrderMap, Longer
  <1>9. OrderMap(new, adm2, a + 1, its2, l + 1) BY <1>4, <1>5, <1>6, <1>8 DEF OrderMap
  <1> QED BY <1>9

LEMMA OrderMapPop ==
  ASSUME NEW a \in Nat, NEW l \in Nat, NEW adm, NEW its, NEW its2, NEW slot,
         OrderMap(slot, adm, a, its, l + 1), its[1] \notin Commands,
         \A n \in 1..a : adm[n] \in Commands, \A i \in 1..l : its2[i] = its[i + 1]
  PROVE  \E new : OrderMap(new, adm, a, its2, l)
  <1>1. PICK new : new = [n \in 1..a |-> slot[n] - 1] OBVIOUS
  <1>2. \A n \in 1..a : slot[n] \in 1..(l + 1) /\ slot[n] # 1 BY DEF OrderMap
  <1>3. \A n \in 1..a : new[n] \in 1..l /\ slot[n] = new[n] + 1 BY SMT, <1>1, <1>2
  <1>4. new \in [1..a -> 1..l] BY <1>1, <1>3
  <1>5. \A m, n \in 1..a : m < n => new[m] < new[n]
    <2> SUFFICES ASSUME NEW m \in 1..a, NEW n \in 1..a, m < n PROVE new[m] < new[n] OBVIOUS
    <2>1. slot[m] < slot[n] BY DEF OrderMap
    <2> QED BY SMT, <1>3, <2>1
  <1>6. \A n \in 1..a : its2[new[n]] = adm[n]
    <2> SUFFICES ASSUME NEW n \in 1..a PROVE its2[new[n]] = adm[n] OBVIOUS
    <2>1. its[slot[n]] = adm[n] BY DEF OrderMap
    <2> QED BY <1>3, <2>1
  <1>7. \A i \in 1..l : its2[i] \in Commands => \E n \in 1..a : new[n] = i
    <2> SUFFICES ASSUME NEW i \in 1..l, its2[i] \in Commands PROVE \E n \in 1..a : new[n] = i OBVIOUS
    <2>1. i + 1 \in 1..(l + 1) /\ its[i + 1] \in Commands BY SMT
    <2>2. PICK n \in 1..a : slot[n] = i + 1 BY <2>1 DEF OrderMap
    <2>3. new[n] \in 1..l /\ i + 1 = new[n] + 1 BY <1>3, <2>2
    <2>4. new[n] = i BY SMT, <2>3
    <2> QED BY <2>4
  <1>8. OrderMap(new, adm, a, its2, l) BY <1>4, <1>5, <1>6, <1>7 DEF OrderMap
  <1> QED BY <1>8

LEMMA OrderMapPopBoth ==
  ASSUME NEW a \in Nat, NEW l \in Nat, NEW adm, NEW its, NEW adm2, NEW its2, NEW slot,
         OrderMap(slot, adm, a, its, l + 1), its[1] \in Commands,
         \A n \in 1..(a - 1) : adm2[n] = adm[n + 1], \A i \in 1..l : its2[i] = its[i + 1]
  PROVE  a # 0 /\ \E new : OrderMap(new, adm2, a - 1, its2, l)
  <1>1. PICK first \in 1..a : slot[first] = 1 BY SMT DEF OrderMap
  <1>2. first = 1 /\ 1 \in 1..a
    <2>1. 1 \in 1..a /\ (first # 1 => 1 < first) BY SMT
    <2>2. slot[1] \in 1..(l + 1) BY <2>1 DEF OrderMap
    <2>3. ~(slot[1] < 1) BY SMT, <2>2
    <2> QED BY <1>1, <2>1, <2>3 DEF OrderMap
  <1>3. \A n \in 1..(a - 1) : n + 1 \in 1..a /\ 1 < n + 1 BY SMT
  <1>4. \A n \in 1..(a - 1) : slot[n + 1] \in 1..(l + 1) /\ 1 < slot[n + 1] BY <1>1, <1>2, <1>3 DEF OrderMap
  <1>5. PICK new : new = [n \in 1..(a - 1) |-> slot[n + 1] - 1] OBVIOUS
  <1>6. \A n \in 1..(a - 1) : new[n] \in 1..l /\ slot[n + 1] = new[n] + 1 BY SMT, <1>4, <1>5
  <1>7. new \in [1..(a - 1) -> 1..l] BY <1>5, <1>6
  <1>8. \A m, n \in 1..(a - 1) : m < n => new[m] < new[n]
    <2> SUFFICES ASSUME NEW m \in 1..(a - 1), NEW n \in 1..(a - 1), m < n PROVE new[m] < new[n] OBVIOUS
    <2>1. m + 1 < n + 1 BY SMT
    <2>2. slot[m + 1] < slot[n + 1] BY <1>3, <2>1 DEF OrderMap
    <2> QED BY SMT, <1>6, <2>2
  <1>9. \A n \in 1..(a - 1) : its2[new[n]] = adm2[n]
    <2> SUFFICES ASSUME NEW n \in 1..(a - 1) PROVE its2[new[n]] = adm2[n] OBVIOUS
    <2>1. its[slot[n + 1]] = adm[n + 1] BY <1>3 DEF OrderMap
    <2> QED BY <1>6, <2>1
  <1>10. \A i \in 1..l : its2[i] \in Commands => \E n \in 1..(a - 1) : new[n] = i
    <2> SUFFICES ASSUME NEW i \in 1..l, its2[i] \in Commands PROVE \E n \in 1..(a - 1) : new[n] = i OBVIOUS
    <2>1. i + 1 \in 1..(l + 1) /\ its[i + 1] \in Commands /\ i + 1 # 1 BY SMT
    <2>2. PICK m \in 1..a : slot[m] = i + 1 BY <2>1 DEF OrderMap
    <2>3. m # 1 BY <1>1, <1>2, <2>1, <2>2
    <2>4. m - 1 \in 1..(a - 1) /\ (m - 1) + 1 = m BY SMT, <2>3
    <2>5. new[m - 1] \in 1..l /\ i + 1 = new[m - 1] + 1 BY <1>6, <2>2, <2>4
    <2>6. new[m - 1] = i BY SMT, <2>5
    <2> QED BY <2>4, <2>6
  <1>11. a # 0 BY SMT, <1>2
  <1>12. OrderMap(new, adm2, a - 1, its2, l) BY <1>7, <1>8, <1>9, <1>10 DEF OrderMap
  <1> QED BY <1>11, <1>12

\* A command is appended to both.
LEMMA OrderPush ==
  ASSUME QueueTypes, InOrder, NEW p \in Commands, items' = Append(items, p), admitted' = Append(admitted, p)
  PROVE  InOrder' /\ admitted' \in Seq(Commands)
  <1>1. /\ items' \in Seq(Packets) /\ Len(items) \in Nat /\ Len(items') = Len(items) + 1
        /\ DOMAIN items = 1..Len(items) /\ DOMAIN items' = 1..Len(items')
        /\ items'[Len(items) + 1] = p /\ \A i \in 1..Len(items) : items'[i] = items[i]
    BY SMT DEF QueueTypes, Packets
  <1>2. /\ admitted' \in Seq(Commands) /\ Len(admitted) \in Nat /\ Len(admitted') = Len(admitted) + 1
        /\ DOMAIN admitted = 1..Len(admitted) /\ DOMAIN admitted' = 1..Len(admitted')
        /\ admitted'[Len(admitted) + 1] = p /\ \A n \in 1..Len(admitted) : admitted'[n] = admitted[n]
    BY SMT DEF QueueTypes
  <1>3. PICK slot : OrderMap(slot, admitted, Len(admitted), items, Len(items)) BY <1>1, <1>2, OrderMapGiven
  <1>4. PICK its, adm, its2, adm2, l, a :
          /\ its = items /\ adm = admitted /\ its2 = items' /\ adm2 = admitted' /\ l = Len(items) /\ a = Len(admitted)
    OBVIOUS
  <1>5. \E new : OrderMap(new, adm2, a + 1, its2, l + 1)
    <2>1. a \in Nat /\ l \in Nat /\ OrderMap(slot, adm, a, its, l) BY <1>1, <1>2, <1>3, <1>4
    <2>2. Longer(adm, a, p, adm2) /\ Longer(its, l, p, its2) BY <1>1, <1>2, <1>4 DEF Longer
    <2> QED BY <2>1, <2>2, OrderMapPush
  <1>6. \E new : OrderMap(new, admitted', Len(admitted'), items', Len(items')) BY <1>1, <1>2, <1>4, <1>5
  <1> QED BY <1>1, <1>2, <1>6, OrderMapGives

\* Frames come into slots that hold none of the commands.
LEMMA OrderFrames ==
  ASSUME QueueTypes, InOrder, UNCHANGED admitted, DOMAIN items \subseteq DOMAIN items',
         \A i \in DOMAIN items : items[i] \in Commands => items'[i] = items[i],
         \A i \in DOMAIN items' : items'[i] \in Commands => i \in DOMAIN items /\ items[i] \in Commands
  PROVE  InOrder'
  <1>1. PICK slot \in [DOMAIN admitted -> DOMAIN items] : CommandSlots(slot) BY DEF InOrder
  <1>2. slot \in [DOMAIN admitted -> DOMAIN items'] BY SMT, <1>1
  <1>3. \A n \in DOMAIN admitted : admitted[n] \in Commands BY SMT DEF QueueTypes
  <1>4. \A n \in DOMAIN admitted : slot[n] \in DOMAIN items BY SMT, <1>1
  <1>5. CommandSlots(slot)' BY <1>1, <1>3, <1>4 DEF CommandSlots
  <1> QED BY <1>2, <1>5 DEF InOrder

\* The head is taken; when it is a command it is the first that was accepted.
LEMMA OrderPop ==
  ASSUME QueueTypes, InOrder, items # <<>>, items' = Tail(items),
         admitted' = (IF Head(items) \in Commands THEN Tail(admitted) ELSE admitted)
  PROVE  InOrder' /\ admitted' \in Seq(Commands)
  <1>1. /\ Len(items) - 1 \in Nat /\ Len(items) = (Len(items) - 1) + 1 /\ Len(items') = Len(items) - 1
        /\ DOMAIN items = 1..Len(items) /\ DOMAIN items' = 1..Len(items') /\ items[1] = Head(items)
        /\ \A i \in 1..(Len(items) - 1) : items'[i] = items[i + 1]
    BY SMT DEF QueueTypes
  <1>2. /\ admitted \in Seq(Commands) /\ Len(admitted) \in Nat /\ DOMAIN admitted = 1..Len(admitted)
        /\ \A n \in 1..Len(admitted) : admitted[n] \in Commands
    BY SMT DEF QueueTypes
  <1>3. PICK slot : OrderMap(slot, admitted, Len(admitted), items, Len(items)) BY <1>1, <1>2, OrderMapGiven
  <1>4. PICK its, its2, adm, l, a :
          its = items /\ its2 = items' /\ adm = admitted /\ l = Len(items) - 1 /\ a = Len(admitted)
    OBVIOUS
  <1>5. /\ a \in Nat /\ l \in Nat /\ OrderMap(slot, adm, a, its, l + 1)
        /\ \A i \in 1..l : its2[i] = its[i + 1]
    BY <1>1, <1>2, <1>3, <1>4
  <1>6. CASE Head(items) \in Commands
    <2>1. PICK adm2 : adm2 = Tail(admitted) OBVIOUS
    <2>2. \A n \in 1..(a - 1) : adm2[n] = adm[n + 1] BY SMT, <1>2, <1>4, <2>1
    <2>3. its[1] \in Commands BY <1>1, <1>4, <1>6
    <2>4. a # 0 /\ \E new : OrderMap(new, adm2, a - 1, its2, l) BY <1>5, <2>2, <2>3, OrderMapPopBoth
    <2>5. Len(admitted) # 0 BY <1>4, <2>4
    <2>6. admitted' = Tail(admitted) BY <1>6
    <2>7. admitted' \in Seq(Commands) /\ Len(admitted') = Len(admitted) - 1 /\ DOMAIN admitted' = 1..Len(admitted')
      <3>1. PICK adm1 \in Seq(Commands) : adm1 = admitted BY <1>2
      <3>2. adm2 \in Seq(Commands) /\ Len(adm2) = Len(adm1) - 1 /\ DOMAIN adm2 = 1..Len(adm2)
        BY SMT, <2>1, <2>5, <3>1
      <3> QED BY <2>1, <2>6, <3>1, <3>2
    <2>8. \E new : OrderMap(new, admitted', Len(admitted'), items', Len(items'))
      BY <1>1, <1>4, <2>1, <2>4, <2>6, <2>7
    <2> QED BY <1>1, <2>7, <2>8, OrderMapGives
  <1>7. CASE Head(items) \notin Commands
    <2>1. its[1] \notin Commands /\ \A n \in 1..a : adm[n] \in Commands BY <1>1, <1>2, <1>4, <1>7
    <2>2. \E new : OrderMap(new, adm, a, its2, l) BY <1>5, <2>1, OrderMapPop
    <2>3. UNCHANGED admitted BY <1>7
    <2>4. \E new : OrderMap(new, admitted', Len(admitted'), items', Len(items')) BY <1>1, <1>4, <2>2, <2>3
    <2> QED BY <1>1, <1>2, <2>3, <2>4, OrderMapGives
  <1> QED BY <1>6, <1>7

-----------------------------------------------------------------------------
(* The frames in the queue *)

\* The queue is as it was and no frame in it has left.
LEMMA QueueSide ==
  ASSUME QueueInv, UNCHANGED <<items, latest, coalesceKey, admitted, offered>>,
         DOMAIN fate' = Packets, \A p \in Packets : fate[p] = "queued" => fate'[p] = "queued"
  PROVE  QueueInv'
  <1>1. QueueTypes' BY DEF QueueInv, QueueTypes
  <1>2. InOrder' BY OrderFrames DEF QueueInv
  <1>3. Frames \subseteq Packets BY DEF Packets
  <1>4. FrameSlots' BY SMT, <1>3 DEF QueueInv, FrameSlots
  <1> QED BY <1>1, <1>2, <1>4 DEF QueueInv

\* The frame p takes slot n, where the frame o was, or the free slot at the end.
FrameTakes(p, n, o, k) ==
  /\ p \in Frames /\ fate[p] = "new" /\ fate'[p] = "queued" /\ \A q \in Frames \ {o, p} : fate'[q] = fate[q]
  /\ k \in CoalesceKeys /\ k = coalesceKey[p] /\ (latest[k] = NoFrame \/ latest[k] = o) /\ UNCHANGED coalesceKey
  /\ n \in DOMAIN items' /\ items'[n] = p /\ DOMAIN items \subseteq DOMAIN items'
  /\ \A i \in DOMAIN items' \ {n} : i \in DOMAIN items /\ items[i] # o
  /\ \A i \in DOMAIN items : items[i] # o => items'[i] = items[i] /\ i # n
  /\ latest'[k] = p /\ offered'[k] = p
  /\ \A j \in CoalesceKeys \ {k} : /\ latest'[j] = IF latest[j] = o THEN NoFrame ELSE latest[j]
                                   /\ offered'[j] = offered[j]

LEMMA FrameEnters ==
  ASSUME QueueInv, NEW p, NEW n, NEW o, NEW k, FrameTakes(p, n, o, k)
  PROVE  FrameSlots'
  <1>1. /\ \A i \in DOMAIN items' : i # n => i \in DOMAIN items /\ items[i] # o /\ items'[i] = items[i]
        /\ \A i \in DOMAIN items : items[i] # o => i \in DOMAIN items' /\ items'[i] = items[i]
        /\ p \in Frames /\ k \in CoalesceKeys /\ n \in DOMAIN items' /\ items'[n] = p /\ UNCHANGED coalesceKey
    BY DEF FrameTakes
  <1>2. \A i \in DOMAIN items : items[i] # p BY DEF QueueInv, FrameSlots, FrameTakes
  <1>3. \A i \in DOMAIN items' : items'[i] = p => i = n BY <1>1, <1>2
  <1>4. fate'[p] = "queued" /\ latest'[k] = p /\ coalesceKey[p] = k /\ offered'[k] = p BY DEF FrameTakes
  <1>5. ASSUME NEW i \in DOMAIN items', items'[i] \in Frames
        PROVE  /\ fate'[items'[i]] = "queued" /\ latest'[coalesceKey[items'[i]]] = items'[i]
               /\ \A j \in DOMAIN items' : items'[j] = items'[i] => j = i
    <2>1. CASE i = n BY <1>1, <1>3, <1>4, <2>1
    <2>2. CASE i # n
      <3>1. i \in DOMAIN items /\ items[i] # o /\ items'[i] = items[i] /\ items[i] # p /\ items[i] \in Frames
        BY <1>1, <1>2, <1>5, <2>2
      <3>2. /\ fate[items[i]] = "queued" /\ latest[coalesceKey[items[i]]] = items[i]
            /\ \A j \in DOMAIN items : items[j] = items[i] => j = i
        BY <3>1 DEF QueueInv, FrameSlots
      <3>3. fate'[items[i]] = "queued" BY <3>1, <3>2 DEF FrameTakes
      <3>4. coalesceKey[items[i]] \in CoalesceKeys /\ items[i] # NoFrame
        BY <3>1, ClassesAssumption DEF QueueInv, QueueTypes
      <3>5. coalesceKey[items[i]] # k BY <3>1, <3>2, <3>4 DEF FrameTakes
      <3>6. latest'[coalesceKey[items[i]]] = items[i] BY <3>1, <3>2, <3>4, <3>5 DEF FrameTakes
      <3>7. \A j \in DOMAIN items' : items'[j] = items[i] => j = i BY <1>1, <3>1, <3>2
      <3> QED BY <3>1, <3>3, <3>6, <3>7
    <2> QED BY <2>1, <2>2
  <1>6. ASSUME NEW j \in CoalesceKeys, latest'[j] # NoFrame
        PROVE  /\ coalesceKey[latest'[j]] = j /\ offered'[j] = latest'[j]
               /\ \E i \in DOMAIN items' : items'[i] = latest'[j]
    <2>1. CASE j = k BY <1>1, <1>4, <2>1
    <2>2. CASE j # k
      <3>1. latest'[j] = latest[j] /\ latest[j] # o /\ latest[j] # NoFrame /\ offered'[j] = offered[j]
        BY <1>6, <2>2 DEF FrameTakes
      <3>2. /\ coalesceKey[latest[j]] = j /\ offered[j] = latest[j]
            /\ \E i \in DOMAIN items : items[i] = latest[j]
        BY <3>1 DEF QueueInv, FrameSlots
      <3> QED BY <1>1, <3>1, <3>2
    <2> QED BY <2>1, <2>2
  <1> QED BY <1>1, <1>5, <1>6 DEF FrameSlots

\* p is the latest frame of its stream k, and o is that of no stream.
Displaced(o, p, k) ==
  /\ latest' \in [CoalesceKeys -> Frames \cup {NoFrame}] /\ latest'[k] = p /\ offered' = [offered EXCEPT ![k] = p]
  /\ \A j \in CoalesceKeys \ {k} : latest'[j] = IF latest[j] = o THEN NoFrame ELSE latest[j]

LEMMA FrameOverwrites ==
  ASSUME QueueInv, NEW p \in Frames, fate[p] = "new", NEW o \in Frames, NEW n \in DOMAIN items, items[n] = o,
         Overwrite(o, p), NEW k \in CoalesceKeys, k = coalesceKey[p], (latest[k] = NoFrame \/ latest[k] = o),
         Displaced(o, p, k), UNCHANGED <<coalesceKey, admitted>>
  PROVE  QueueInv'
  <1>1. /\ DOMAIN items' = DOMAIN items
        /\ \A i \in DOMAIN items : items'[i] = IF items[i] = o THEN p ELSE items[i]
    BY DEF Overwrite
  <1>2. p \in Packets /\ o \in Packets /\ o # NoFrame BY ClassesAssumption DEF Packets
  <1>3. items' \in Seq(Packets)
    <2>1. PICK l \in Nat : DOMAIN items = 1..l /\ \A i \in 1..l : items[i] \in Packets
      BY SMT DEF QueueInv, QueueTypes
    <2>2. items' = [i \in 1..l |-> IF items[i] = o THEN p ELSE items[i]] BY <2>1 DEF Overwrite
    <2> QED BY SMT, <1>2, <2>1, <2>2
  <1>4. fate[o] = "queued" /\ \A i \in DOMAIN items : items[i] = o => i = n BY DEF QueueInv, FrameSlots
  <1>5. o # p BY <1>4
  <1>6. DOMAIN fate' = Packets /\ fate'[p] = "queued" /\ \A q \in Packets \ {o, p} : fate'[q] = fate[q]
    BY SMT, <1>2 DEF Overwrite, QueueInv, QueueTypes
  <1>7. offered' \in [CoalesceKeys -> Frames \cup {NoFrame}] BY SMT DEF QueueInv, QueueTypes, Displaced
  <1>8. offered'[k] = p /\ \A j \in CoalesceKeys \ {k} : offered'[j] = offered[j] BY DEF QueueInv, QueueTypes, Displaced
  <1>9. QueueTypes' BY <1>3, <1>6, <1>7 DEF QueueInv, QueueTypes, Displaced
  <1>10. Frames \subseteq Packets BY DEF Packets
  <1>11. FrameTakes(p, n, o, k) BY <1>1, <1>4, <1>6, <1>8, <1>10 DEF FrameTakes, Displaced
  <1>12. p \notin Commands /\ o \notin Commands BY ClassesAssumption
  <1>13. InOrder' BY <1>1, <1>12, OrderFrames DEF QueueInv
  <1>14. FrameSlots' BY <1>11, FrameEnters
  <1> QED BY <1>9, <1>13, <1>14 DEF QueueInv

LEMMA FramePushed ==
  ASSUME QueueInv, NEW p \in Frames, fate[p] = "new", Push(p), Becomes(p, "queued"),
         NEW k \in CoalesceKeys, k = coalesceKey[p], latest[k] = NoFrame,
         UNCHANGED <<coalesceKey, admitted>>,
         latest' = [latest EXCEPT ![k] = p], offered' = [offered EXCEPT ![k] = p]
  PROVE  QueueInv'
  <1>1. p \in Packets /\ p \notin Commands /\ QueueTypes /\ items' = Append(items, p)
    BY ClassesAssumption DEF Packets, QueueInv, Push
  <1>2. PICK l \in Nat : /\ items' \in Seq(Packets) /\ DOMAIN items = 1..l /\ DOMAIN items' = 1..(l + 1)
                        /\ items'[l + 1] = p /\ \A i \in 1..l : items'[i] = items[i]
    BY <1>1, Pushed
  <1>3. l + 1 \in 1..(l + 1) /\ \A i \in 1..l : i \in 1..(l + 1) /\ i # l + 1 BY SMT
  <1>4. \A i \in 1..(l + 1) : i \in 1..l \/ i = l + 1 BY SMT
  <1>5. DOMAIN fate' = Packets /\ fate'[p] = "queued" /\ \A q \in Packets \ {p} : fate'[q] = fate[q]
    BY SMT, <1>1 DEF Becomes, QueueTypes
  <1>6. /\ latest' \in [CoalesceKeys -> Frames \cup {NoFrame}]
        /\ offered' \in [CoalesceKeys -> Frames \cup {NoFrame}]
    BY SMT, <1>1 DEF QueueTypes
  <1>7. /\ latest'[k] = p /\ \A j \in CoalesceKeys \ {k} : latest'[j] = latest[j]
        /\ offered'[k] = p /\ \A j \in CoalesceKeys \ {k} : offered'[j] = offered[j]
    BY <1>1 DEF QueueTypes
  <1>8. QueueTypes' BY <1>1, <1>2, <1>5, <1>6 DEF QueueTypes
  <1>9. InOrder' BY <1>1, <1>2, <1>3, <1>4, OrderFrames DEF QueueInv
  <1>10. PICK o : o \notin Packets \cup {NoFrame} BY NoSetContainsEverything
  <1>11. \A i \in DOMAIN items : items[i] # o BY SMT, <1>1, <1>10 DEF QueueTypes
  <1>12. \A j \in CoalesceKeys : latest[j] # o BY <1>1, <1>10 DEF QueueTypes, Packets
  <1>13. Frames \subseteq Packets BY DEF Packets
  <1>14. FrameTakes(p, l + 1, o, k) BY <1>2, <1>3, <1>4, <1>5, <1>7, <1>11, <1>12, <1>13 DEF FrameTakes
  <1>15. FrameSlots' BY <1>14, FrameEnters
  <1> QED BY <1>8, <1>9, <1>15 DEF QueueInv

LEMMA QueueEnqueue == ASSUME QueueInv, NEW p \in Packets, Enqueue(p) PROVE QueueInv'
  <1>1. /\ p \in Commands /\ p \notin Frames /\ fate[p] \in {"new", "woken"} /\ QueueTypes
        /\ UNCHANGED <<latest, coalesceKey, offered>>
    BY ClassesAssumption DEF Enqueue, QueueInv
  <1>2. ASSUME NEW f, Becomes(p, f)
        PROVE  DOMAIN fate' = Packets /\ \A q \in Packets \ {p} : fate'[q] = fate[q]
    BY SMT, <1>1, <1>2 DEF Becomes, QueueTypes
  <1>3. CASE UNCHANGED <<items, ready, admitted>> /\ \E f : Becomes(p, f)
    <2>1. DOMAIN fate' = Packets /\ \A q \in Packets : fate[q] = "queued" => fate'[q] = "queued"
      BY <1>1, <1>2, <1>3
    <2> QED BY <1>1, <1>3, <2>1, QueueSide
  <1>4. CASE Push(p) /\ Becomes(p, "queued") /\ admitted' = Append(admitted, p)
    <2>1. items' = Append(items, p) BY <1>4 DEF Push
    <2>2. InOrder' /\ admitted' \in Seq(Commands) BY <1>1, <1>4, <2>1, OrderPush DEF QueueInv
    <2>3. PICK l \in Nat : /\ items' \in Seq(Packets) /\ DOMAIN items = 1..l /\ DOMAIN items' = 1..(l + 1)
                          /\ items'[l + 1] = p /\ \A i \in 1..l : items'[i] = items[i]
      BY <1>1, <2>1, Pushed
    <2>4. DOMAIN fate' = Packets /\ \A q \in Packets \ {p} : fate'[q] = fate[q] BY <1>2, <1>4
    <2>5. QueueTypes' BY <1>1, <2>2, <2>3, <2>4 DEF QueueTypes
    <2>6. /\ \A i \in DOMAIN items' : items'[i] \in Frames => i \in DOMAIN items /\ items'[i] = items[i]
          /\ \A i \in DOMAIN items : i \in DOMAIN items' /\ items'[i] = items[i]
      <3>1. /\ \A i \in 1..(l + 1) : i \in 1..l \/ i = l + 1
            /\ \A i \in 1..l : i \in 1..(l + 1)
        BY SMT
      <3> QED BY <1>1, <2>3, <3>1
    <2>7. \A q \in Frames : fate'[q] = fate[q] BY <1>1, <2>4 DEF Packets
    <2>8. FrameSlots'
      <3>1. ASSUME NEW i \in DOMAIN items', items'[i] \in Frames
            PROVE  /\ fate'[items'[i]] = "queued" /\ latest[coalesceKey[items'[i]]] = items'[i]
                   /\ \A j \in DOMAIN items' : items'[j] = items'[i] => j = i
        <4>1. /\ i \in DOMAIN items /\ items'[i] = items[i]
              /\ \A j \in DOMAIN items' : items'[j] = items[i] => j \in DOMAIN items /\ items[j] = items[i]
          BY <2>6, <3>1
        <4>2. /\ fate[items[i]] = "queued" /\ latest[coalesceKey[items[i]]] = items[i]
              /\ \A j \in DOMAIN items : items[j] = items[i] => j = i
          BY <3>1, <4>1 DEF QueueInv, FrameSlots
        <4> QED BY <2>7, <3>1, <4>1, <4>2
      <3>2. ASSUME NEW k \in CoalesceKeys, latest[k] # NoFrame
            PROVE  /\ coalesceKey[latest[k]] = k /\ offered[k] = latest[k]
                   /\ \E i \in DOMAIN items' : items'[i] = latest[k]
        <4>1. /\ coalesceKey[latest[k]] = k /\ offered[k] = latest[k]
              /\ \E i \in DOMAIN items : items[i] = latest[k]
          BY <3>2 DEF QueueInv, FrameSlots
        <4> QED BY <2>6, <4>1
      <3> QED BY <1>1, <3>1, <3>2 DEF FrameSlots
    <2> QED BY <2>2, <2>5, <2>8 DEF QueueInv
  <1> QED BY <1>3, <1>4 DEF Enqueue

LEMMA QueueEnqueueLatest == ASSUME QueueInv, NEW p \in Packets, EnqueueLatest(p) PROVE QueueInv'
  <1>1. PICK k : k = coalesceKey[p] OBVIOUS
  <1>2. /\ p \in Frames /\ fate[p] = "new" /\ UNCHANGED <<coalesceKey, admitted>> /\ QueueTypes
    BY DEF EnqueueLatest, QueueInv
  <1>3. k \in CoalesceKeys BY <1>1, <1>2 DEF QueueTypes
  <1>4. CASE UNCHANGED <<items, latest, ready, offered>> /\ \E f : Becomes(p, f)
    <2>1. DOMAIN fate' = Packets /\ \A q \in Packets \ {p} : fate'[q] = fate[q]
      BY SMT, <1>2, <1>4 DEF Becomes, QueueTypes
    <2>2. \A q \in Packets : fate[q] = "queued" => fate'[q] = "queued" BY <1>2, <2>1
    <2> QED BY <1>2, <1>4, <2>1, <2>2, QueueSide
  <1>5. CASE /\ latest[k] # NoFrame /\ Overwrite(latest[k], p)
             /\ latest' = [latest EXCEPT ![k] = p] /\ offered' = [offered EXCEPT ![k] = p]
    <2>1. PICK o \in Frames : o = latest[k] BY <1>2, <1>3, <1>5 DEF QueueTypes
    <2>2. PICK n \in DOMAIN items : items[n] = o BY <1>3, <1>5, <2>1 DEF QueueInv, FrameSlots
    <2>3. latest' \in [CoalesceKeys -> Frames \cup {NoFrame}]
      <3>1. latest \in [CoalesceKeys -> Frames \cup {NoFrame}] BY <1>2 DEF QueueTypes
      <3> QED BY <1>2, <1>3, <1>5, <3>1
    <2>4. latest'[k] = p /\ \A j \in CoalesceKeys \ {k} : latest'[j] = latest[j]
      BY <1>2, <1>3, <1>5 DEF QueueTypes
    <2>5. \A j \in CoalesceKeys \ {k} : latest[j] # o
      BY <1>3, <1>5, <2>1, ClassesAssumption DEF QueueInv, FrameSlots
    <2>6. Displaced(o, p, k) BY <1>5, <2>3, <2>4, <2>5 DEF Displaced
    <2>7. Overwrite(o, p) BY <1>5, <2>1
    <2> QED BY <1>1, <1>2, <1>3, <2>1, <2>2, <2>6, <2>7, FrameOverwrites
  <1>6. CASE /\ latest[k] = NoFrame
             /\ \E o \in Packets :
                  /\ OldestFrame(o) /\ Overwrite(o, p)
                  /\ latest' = [j \in CoalesceKeys |-> IF j = k THEN p ELSE IF latest[j] = o THEN NoFrame
                                                      ELSE latest[j]]
                  /\ offered' = [offered EXCEPT ![k] = p]
    <2>1. PICK o \in Packets :
            /\ OldestFrame(o) /\ Overwrite(o, p)
            /\ latest' = [j \in CoalesceKeys |-> IF j = k THEN p ELSE IF latest[j] = o THEN NoFrame ELSE latest[j]]
            /\ offered' = [offered EXCEPT ![k] = p]
      BY <1>6
    <2>2. PICK n \in DOMAIN items : items[n] = o /\ o \in Frames BY <2>1 DEF OldestFrame
    <2>3. latest' \in [CoalesceKeys -> Frames \cup {NoFrame}] BY SMT, <1>2, <2>1 DEF QueueTypes
    <2>4. /\ latest'[k] = p
          /\ \A j \in CoalesceKeys \ {k} : latest'[j] = IF latest[j] = o THEN NoFrame ELSE latest[j]
      BY SMT, <1>3, <2>1
    <2>5. Displaced(o, p, k) BY <2>1, <2>3, <2>4 DEF Displaced
    <2>6. Overwrite(o, p) BY <2>1
    <2> QED BY <1>1, <1>2, <1>3, <1>6, <2>2, <2>5, <2>6, FrameOverwrites
  <1>7. CASE /\ latest[k] = NoFrame /\ Push(p) /\ Becomes(p, "queued")
             /\ latest' = [latest EXCEPT ![k] = p] /\ offered' = [offered EXCEPT ![k] = p]
    BY <1>1, <1>2, <1>3, <1>7, FramePushed
  <1> QED BY <1>1, <1>4, <1>5, <1>6, <1>7 DEF EnqueueLatest

LEMMA QueueTryDequeue == ASSUME QueueInv, TryDequeue PROVE QueueInv'
  <1>1. QueueTypes BY DEF QueueInv
  <1>2. CASE items = <<>>
    <2>1. UNCHANGED <<items, latest, coalesceKey, fate, admitted, offered>> BY <1>2 DEF TryDequeue
    <2> QED BY <1>1, <2>1, QueueSide DEF QueueTypes
  <1>3. CASE items # <<>>
    <2>1. PICK p : p = Head(items) OBVIOUS
    <2>2. /\ items' = Tail(items) /\ \E f : SignalChanged([fate EXCEPT ![p] = f])
          /\ latest' = IF p \in Frames THEN [latest EXCEPT ![coalesceKey[p]] = NoFrame] ELSE latest
          /\ admitted' = IF p \in Commands THEN Tail(admitted) ELSE admitted
          /\ UNCHANGED <<coalesceKey, offered>>
      BY <1>3, <2>1 DEF TryDequeue
    <2>3. InOrder' /\ admitted' \in Seq(Commands) BY <1>1, <1>3, <2>1, <2>2, OrderPop DEF QueueInv
    <2>4. PICK l \in Nat : /\ items' \in Seq(Packets) /\ p \in Packets /\ items[1] = p
                          /\ DOMAIN items = 1..(l + 1) /\ DOMAIN items' = 1..l
                          /\ \A i \in 1..l : items'[i] = items[i + 1]
      <3>1. Len(items) - 1 \in Nat /\ (Len(items) - 1) + 1 = Len(items) BY SMT, <1>1, <1>3, <2>2, Popped
      <3> QED BY <1>1, <1>3, <2>1, <2>2, <3>1, Popped
    <2>5. /\ DOMAIN fate' = Packets
          /\ \A q \in Packets \ {p} : fate[q] = "queued" => fate'[q] = "queued"
      <3>1. PICK f : fate' = [q \in Packets |-> IF [fate EXCEPT ![p] = f][q] = "waiting" THEN "woken"
                                                ELSE [fate EXCEPT ![p] = f][q]]
        BY <2>2 DEF SignalChanged
      <3> QED BY SMT, <1>1, <2>4, <3>1 DEF QueueTypes
    <2>6. latest' \in [CoalesceKeys -> Frames \cup {NoFrame}] BY SMT, <1>1, <2>2 DEF QueueTypes
    <2>7. QueueTypes' BY <1>1, <2>2, <2>3, <2>4, <2>5, <2>6 DEF QueueTypes
    <2>8. /\ 1 \in 1..(l + 1)
          /\ \A i \in 1..l : i + 1 \in 1..(l + 1) /\ i + 1 # 1
          /\ \A i \in 1..(l + 1) : i # 1 => i - 1 \in 1..l /\ (i - 1) + 1 = i
          /\ \A i, j \in 1..l : i + 1 = j + 1 => i = j
      BY SMT
    <2>9. \A j \in CoalesceKeys : latest'[j] = IF latest[j] = p THEN NoFrame ELSE latest[j]
      <3>1. CASE p \notin Frames
        <4>1. \A j \in CoalesceKeys : latest[j] = p => latest[j] = NoFrame BY <1>1, <3>1 DEF QueueTypes
        <4> QED BY <2>2, <3>1, <4>1
      <3>2. CASE p \in Frames
        <4>1. coalesceKey[p] \in CoalesceKeys /\ p # NoFrame BY <1>1, <3>2, ClassesAssumption DEF QueueTypes
        <4>2. latest[coalesceKey[p]] = p BY <2>4, <2>8, <3>2 DEF QueueInv, FrameSlots
        <4>3. \A j \in CoalesceKeys \ {coalesceKey[p]} : latest[j] # p BY <4>1 DEF QueueInv, FrameSlots
        <4>4. /\ latest'[coalesceKey[p]] = NoFrame
              /\ \A j \in CoalesceKeys \ {coalesceKey[p]} : latest'[j] = latest[j]
          BY <1>1, <2>2, <3>2, <4>1 DEF QueueTypes
        <4> QED BY <4>2, <4>3, <4>4
      <3> QED BY <3>1, <3>2
    <2>10. ASSUME NEW i \in DOMAIN items', items'[i] \in Frames
           PROVE  /\ fate'[items'[i]] = "queued" /\ latest'[coalesceKey[items'[i]]] = items'[i]
                  /\ \A j \in DOMAIN items' : items'[j] = items'[i] => j = i
      <3>1. /\ i + 1 \in DOMAIN items /\ items'[i] = items[i + 1]
            /\ \A j \in DOMAIN items' : j + 1 \in DOMAIN items /\ items'[j] = items[j + 1] BY <2>4, <2>8
      <3>2. /\ fate[items[i + 1]] = "queued" /\ latest[coalesceKey[items[i + 1]]] = items[i + 1]
            /\ \A j \in DOMAIN items : items[j] = items[i + 1] => j = i + 1
        BY <2>10, <3>1 DEF QueueInv, FrameSlots
      <3>3. items[i + 1] # p BY <2>4, <2>8, <3>2
      <3>4. fate'[items[i + 1]] = "queued" BY <2>5, <2>10, <3>1, <3>2, <3>3 DEF Packets
      <3>5. coalesceKey[items[i + 1]] \in CoalesceKeys BY <1>1, <2>10, <3>1 DEF QueueTypes
      <3>6. latest'[coalesceKey[items[i + 1]]] = items[i + 1] BY <2>9, <3>2, <3>3, <3>5
      <3>7. \A j \in DOMAIN items' : items'[j] = items[i + 1] => j = i
        <4> SUFFICES ASSUME NEW j \in DOMAIN items', items'[j] = items[i + 1] PROVE j = i OBVIOUS
        <4>1. j + 1 = i + 1 BY <3>1, <3>2
        <4> QED BY <2>4, <2>8, <4>1
      <3> QED BY <2>2, <3>1, <3>4, <3>6, <3>7
    <2>11. ASSUME NEW j \in CoalesceKeys, latest'[j] # NoFrame
           PROVE  /\ coalesceKey[latest'[j]] = j /\ offered[j] = latest'[j]
                  /\ \E i \in DOMAIN items' : items'[i] = latest'[j]
      <3>1. latest'[j] = latest[j] /\ latest[j] # p /\ latest[j] # NoFrame BY <2>9, <2>11
      <3>2. coalesceKey[latest[j]] = j /\ offered[j] = latest[j] BY <3>1 DEF QueueInv, FrameSlots
      <3>3. PICK i \in DOMAIN items : items[i] = latest[j] BY <3>1 DEF QueueInv, FrameSlots
      <3>4. i # 1 BY <2>4, <3>1, <3>3
      <3>5. i - 1 \in DOMAIN items' /\ items'[i - 1] = items[i] BY <2>4, <2>8, <3>4
      <3> QED BY <3>1, <3>2, <3>3, <3>5
    <2>12. coalesceKey' = coalesceKey /\ offered' = offered BY <2>2
    <2>13. FrameSlots' BY <2>10, <2>11, <2>12 DEF FrameSlots
    <2> QED BY <2>3, <2>7, <2>13 DEF QueueInv
  <1> QED BY <1>2, <1>3

LEMMA QueueKept == QueueInv /\ [QueueNext]_queueVars => QueueInv'
  <1> SUFFICES ASSUME QueueInv, [QueueNext]_queueVars PROVE QueueInv' OBVIOUS
  <1>1. QueueTypes BY DEF QueueInv
  <1>2. ASSUME NEW p \in Packets, EnqueueCanceled(p) PROVE QueueInv'
    <2>1. DOMAIN fate' = Packets /\ \A q \in Packets \ {p} : fate'[q] = fate[q]
      BY SMT, <1>1, <1>2 DEF EnqueueCanceled, Becomes, QueueTypes
    <2>2. fate[p] # "queued" /\ UNCHANGED <<items, latest, coalesceKey, admitted, offered>>
      BY <1>2 DEF EnqueueCanceled
    <2> QED BY <2>1, <2>2, QueueSide
  <1>3. CASE Close
    <2>1. DOMAIN fate' = Packets /\ \A q \in Packets : fate[q] = "queued" => fate'[q] = "queued"
      BY SMT, <1>1, <1>3 DEF Close, SignalChanged, QueueTypes
    <2> QED BY <1>3, <2>1, QueueSide DEF Close
  <1>4. CASE Receive \/ ContextDone \/ UNCHANGED queueVars
    <2>1. UNCHANGED <<items, latest, coalesceKey, fate, admitted, offered>>
      BY <1>4 DEF Receive, ContextDone, queueVars
    <2> QED BY <1>1, <2>1, QueueSide DEF QueueTypes
  <1> QED BY <1>2, <1>3, <1>4, QueueEnqueue, QueueEnqueueLatest, QueueTryDequeue DEF QueueNext

LEMMA QueueInvExact == ASSUME QueueInv PROVE QueueExact
  <1>1. \E slot \in [DOMAIN admitted -> DOMAIN items] : CommandSlots(slot) BY DEF QueueInv, InOrder
  <1> SUFFICES ASSUME NEW k \in CoalesceKeys
               PROVE  /\ {p \in Range(items) \cap Frames : coalesceKey[p] = k} = {latest[k]} \ {NoFrame}
                      /\ {p \in Range(items) \cap Frames : coalesceKey[p] = k} \subseteq {offered[k]}
    BY <1>1 DEF QueueExact
  <1>2. \A p : p \in Range(items) <=> \E i \in DOMAIN items : items[i] = p BY DEF Range
  <1>3. ASSUME NEW p \in Range(items) \cap Frames, coalesceKey[p] = k
        PROVE  p = latest[k] /\ p # NoFrame /\ p = offered[k]
    <2>1. PICK i \in DOMAIN items : items[i] = p BY <1>2, <1>3
    <2>2. p = latest[k] /\ p # NoFrame BY <1>3, <2>1, ClassesAssumption DEF QueueInv, FrameSlots
    <2> QED BY <2>2 DEF QueueInv, FrameSlots
  <1>4. ASSUME latest[k] # NoFrame
        PROVE  latest[k] \in Range(items) \cap Frames /\ coalesceKey[latest[k]] = k
    <2>1. latest[k] \in Frames BY <1>4 DEF QueueInv, QueueTypes
    <2> QED BY <1>2, <1>4, <2>1 DEF QueueInv, FrameSlots
  <1> QED BY <1>3, <1>4

\* For any packets, streams and capacity, the commands and events that Enqueue accepted leave the
\* queue in order, and a stream has one frame in it, the newest (QueueExact: outboundQueue in
\* delivery.go).
THEOREM QueueIsExact == QueueSpec => []QueueExact
  BY QueueInitially, QueueKept, QueueInvExact, PTL DEF QueueSpec

-----------------------------------------------------------------------------
(* TcpSession *)

\* The callback has been called once it was begun, and a goroutine that is done has seen it return.
CallbackInv ==
  /\ callback \in {"none", "receive", "process", "done"}
  /\ removed = (IF callback = "none" THEN 0 ELSE 1)
  /\ receivePc = "done" \/ processPc = "done" => callback = "done"
  /\ closePc \in [Closers -> {"idle", "cancel", "conn", "wait", "returned"}]
  /\ \A c \in Closers : closePc[c] = "returned" => AllDone

LEMMA CallbackInit == Start => CallbackInv
  BY SMT DEF Start, CallbackInv

\* A step that runs no callback and ends neither of the goroutines that call it
CallbackQuiet ==
  /\ UNCHANGED <<callback, removed, closePc>>
  /\ receivePc' = receivePc \/ (receivePc \notin {"done", "trigger"} /\ receivePc' # "done")
  /\ processPc' = processPc \/ (processPc \notin {"done", "trigger"} /\ processPc' # "done")
  /\ heartbeatPc' = heartbeatPc \/ heartbeatPc # "done"

LEMMA CallbackSide == ASSUME CallbackInv, CallbackQuiet PROVE CallbackInv'
  BY SMT DEF CallbackInv, CallbackQuiet, AllDone

LEMMA CallbackReceive == ASSUME CallbackInv, ReceiveStep PROVE CallbackInv'
  <1>1. CASE ReceiveLoop \/ ReceiveRead \/ ReceivePush
    <2>1. CallbackQuiet
      BY <1>1 DEF CallbackQuiet, ReceiveStep, ReceiveLoop, ReceiveRead, ReceivePush, ReceiveCancel, ReceiveTrigger, callbackVars
    <2> QED BY <2>1, CallbackSide
  <1>2. CASE ReceiveCancel
    <2>1. CallbackQuiet
      BY <1>2 DEF CallbackQuiet, ReceiveCancel, callbackVars
    <2> QED BY <2>1, CallbackSide
  <1>3. CASE ReceiveTrigger
    <2>1. receivePc # "done" /\ UNCHANGED <<processPc, heartbeatPc, closePc>> BY <1>3 DEF ReceiveTrigger
    <2>2. \A c \in Closers : closePc[c] # "returned" BY <2>1 DEF CallbackInv, AllDone
    <2>3. CASE TriggerOnClose("receive") /\ UNCHANGED receivePc
      BY SMT, <2>1, <2>2, <2>3 DEF CallbackInv, TriggerOnClose
    <2>4. CASE CallbackReturns("receive") \/ CallbackRan
      BY SMT, <2>1, <2>2, <2>4 DEF CallbackInv, CallbackReturns, CallbackRan, callbackVars
    <2> QED BY <1>3, <2>3, <2>4 DEF ReceiveTrigger
  <1> QED BY <1>1, <1>2, <1>3 DEF ReceiveStep

LEMMA CallbackProcess == ASSUME CallbackInv, ProcessStep PROVE CallbackInv'
  <1>1. CASE ProcessSelect \/ ProcessSend \/ ProcessDrain \/ ProcessCloseQueue \/ ProcessDrainQueue \/ ProcessCloseConn
    <2>1. CallbackQuiet
      BY <1>1 DEF CallbackQuiet, ProcessSelect, ProcessSend, ProcessDrain, ProcessCloseQueue, ProcessDrainQueue, ProcessCloseConn, callbackVars
    <2> QED BY <2>1, CallbackSide
  <1>2. CASE \/ processPc = "dispatch" /\ ProcessDispatch("select")
             \/ processPc = "drainDispatch" /\ ProcessDispatch("drain")
    <2>1. CallbackQuiet
      BY <1>2 DEF CallbackQuiet, ProcessDispatch, callbackVars
    <2> QED BY <2>1, CallbackSide
  <1>3. CASE \/ processPc = "blocked" /\ ProcessBlocked("dispatch")
             \/ processPc = "drainBlocked" /\ ProcessBlocked("drainDispatch")
    <2>1. CallbackQuiet
      BY <1>3 DEF CallbackQuiet, ProcessBlocked, callbackVars
    <2> QED BY <2>1, CallbackSide
  <1>4. CASE ProcessTrigger
    <2>1. processPc # "done" /\ UNCHANGED <<receivePc, heartbeatPc, closePc>> BY <1>4 DEF ProcessTrigger
    <2>2. \A c \in Closers : closePc[c] # "returned" BY <2>1 DEF CallbackInv, AllDone
    <2>3. CASE TriggerOnClose("process") /\ UNCHANGED processPc
      BY SMT, <2>1, <2>2, <2>3 DEF CallbackInv, TriggerOnClose
    <2>4. CASE CallbackReturns("process") \/ CallbackRan
      BY SMT, <2>1, <2>2, <2>4 DEF CallbackInv, CallbackReturns, CallbackRan, callbackVars
    <2> QED BY <1>4, <2>3, <2>4 DEF ProcessTrigger
  <1> QED BY <1>1, <1>2, <1>3, <1>4 DEF ProcessStep

LEMMA CallbackClose ==
  ASSUME CallbackInv, NEW c \in Closers, CloseQueue(c) \/ CloseStep(c)
  PROVE  CallbackInv'
  <1>1. UNCHANGED <<callbackVars, receivePc, processPc, heartbeatPc>>
    BY DEF CloseQueue, CloseStep, CloseCancel, CloseConn, CloseJoin
  <1>2. PICK p \in {"cancel", "conn", "wait", "returned"} :
          closePc' = [closePc EXCEPT ![c] = p] /\ (p = "returned" => AllDone)
    BY DEF CloseQueue, CloseStep, CloseCancel, CloseConn, CloseJoin
  <1> QED BY SMT, <1>1, <1>2 DEF CallbackInv, AllDone, callbackVars

LEMMA CallbackKept == CallbackInv /\ [SessionNext]_sessionVars => CallbackInv'
  <1> SUFFICES ASSUME CallbackInv, [SessionNext]_sessionVars PROVE CallbackInv' OBVIOUS
  <1>1. CASE HeartbeatTimeout \/ HeartbeatDone \/ Send \/ PeerLost
    <2>1. CallbackQuiet
      BY <1>1 DEF CallbackQuiet, HeartbeatTimeout, HeartbeatDone, Send, PeerLost, callbackVars
    <2> QED BY <2>1, CallbackSide
  <1>2. CASE UNCHANGED sessionVars
    <2>1. CallbackQuiet
      BY <1>2 DEF CallbackQuiet, sessionVars, callbackVars
    <2> QED BY <2>1, CallbackSide
  <1> QED BY <1>1, <1>2, CallbackReceive, CallbackProcess, CallbackClose DEF SessionNext

\* The remove callback of a session runs once, and has returned before a Close returns, for any
\* number of closers and packets (RemovedOnce: closeOnce in TcpServerSession.go).
THEOREM CallbackOnce == SessionSpec => []RemovedOnce
  <1>1. CallbackInv => RemovedOnce
    BY SMT DEF CallbackInv, RemovedOnce, AllDone
  <1> QED BY <1>1, CallbackInit, CallbackKept, PTL DEF SessionSpec

-----------------------------------------------------------------------------
(* RequestRouter *)

\* What Cardinality is of the empty set and of a singleton, from its definition.
LEMMA CountNone == Cardinality({}) = 0
  <1> DEFINE CS == CHOOSE f : f = [T \in SUBSET {} |-> IF T = {} THEN 0 ELSE 1 + f[T \ {CHOOSE x : x \in T}]]
             g == [T \in SUBSET {} |-> 0]
  <1>1. g = [T \in SUBSET {} |-> IF T = {} THEN 0 ELSE 1 + g[T \ {CHOOSE x : x \in T}]]
    BY SMT
  <1>2. CS = [T \in SUBSET {} |-> IF T = {} THEN 0 ELSE 1 + CS[T \ {CHOOSE x : x \in T}]]
    BY <1>1
  <1>3. CS[{}] = 0 BY <1>2
  <1> QED BY <1>3 DEF Cardinality

LEMMA CountOne == ASSUME NEW a PROVE Cardinality({a}) = 1
  <1> DEFINE CS == CHOOSE f : f = [T \in SUBSET {a} |-> IF T = {} THEN 0 ELSE 1 + f[T \ {CHOOSE x : x \in T}]]
             g == [T \in SUBSET {a} |-> IF T = {} THEN 0 ELSE 1]
  <1>1. g = [T \in SUBSET {a} |-> IF T = {} THEN 0 ELSE 1 + g[T \ {CHOOSE x : x \in T}]]
    <2>1. \A T \in SUBSET {a} : T = {} \/ T = {a} OBVIOUS
    <2>2. {a} \ {CHOOSE x : x \in {a}} = {} OBVIOUS
    <2>3. g[{}] = 0 OBVIOUS
    <2>4. \A T \in SUBSET {a} : g[T] = (IF T = {} THEN 0 ELSE 1 + g[T \ {CHOOSE x : x \in T}])
      BY SMT, <2>1, <2>2, <2>3
    <2> QED BY SMT, <2>4
  <1>2. CS = [T \in SUBSET {a} |-> IF T = {} THEN 0 ELSE 1 + CS[T \ {CHOOSE x : x \in T}]]
    BY <1>1
  <1>3. {a} \ {CHOOSE x : x \in {a}} = {} OBVIOUS
  <1>4. CS[{}] = 0 BY <1>2
  <1>5. CS[{a}] = 1 + CS[{a} \ {CHOOSE x : x \in {a}}] BY <1>2
  <1>6. CS[{a}] = 1 + 0 BY <1>3, <1>4, <1>5
  <1>7. 1 + 0 = 1 BY SMT
  <1> QED BY <1>6, <1>7 DEF Cardinality

RouterTypes ==
  /\ pending \subseteq Callers
  /\ id \in [Callers -> SUBSET Ids] /\ ch \in [Callers -> {<<>>, <<"result">>}]
  /\ seen \in [Callers -> SUBSET Callers] /\ carry \in [Senders -> SUBSET Callers]
  /\ call \in [Callers -> {"idle", "register", "reread", "send", "wait", "remove", "returned", "removed"}]

\* What a caller reads back is a registration of its id, its own or another call's.
SameId ==
  \A c \in Callers : \A d \in seen[c] : id[d] = id[c] /\ call[c] # "idle" /\ call[d] # "idle"

InFlight(c) == \E s \in Senders : c \in carry[s]

\* The result of a caller is in one place at most, in one as long as the caller waits and no other
\* has taken its registration out, and in none before it is registered.
OnePlace ==
  /\ \A c \in Callers : \A s, t \in Senders : c \in carry[s] /\ c \in carry[t] => s = t
  /\ \A c \in pending : ~InFlight(c) /\ ch[c] = <<>>
  /\ \A c \in Callers : InFlight(c) => ch[c] = <<>>
  /\ \A c \in Callers : call[c] \in {"reread", "send", "wait"} =>
       c \in pending \/ InFlight(c) \/ ch[c] # <<>> \/ Withdrawn(c)
  /\ \A c \in Callers : call[c] \in {"idle", "register"} => c \notin pending /\ ~InFlight(c) /\ ch[c] = <<>>

ClosedRouter == IF routerClosed THEN pending = {} ELSE carry["close"] = {}

RouterInv == RouterTypes /\ SameId /\ OnePlace /\ ClosedRouter /\ routerClosed \in BOOLEAN

LEMMA RouterInitially == RouterInit => RouterInv
  <1> SUFFICES ASSUME RouterInit PROVE RouterInv OBVIOUS
  <1>1. RouterTypes BY SMT DEF RouterInit, RouterTypes
  <1>2. SameId BY SMT DEF RouterInit, SameId
  <1>3. OnePlace BY SMT DEF RouterInit, OnePlace, InFlight
  <1>4. ClosedRouter /\ routerClosed \in BOOLEAN BY DEF RouterInit, ClosedRouter, Senders
  <1> QED BY <1>1, <1>2, <1>3, <1>4 DEF RouterInv

\* A caller whose registration another took out stays one: a call that has removed is over.
LEMMA WithdrawnStays ==
  ASSUME \A d \in Callers : call[d] = "removed" => call'[d] = "removed" /\ seen'[d] = seen[d] /\ id'[d] = id[d],
         NEW c \in Callers, call[c] # "idle", id'[c] = id[c], Withdrawn(c)
  PROVE  Withdrawn(c)'
  BY DEF Withdrawn

\* A caller moves on and its results stay where they are.
LEMMA RouterSide ==
  ASSUME RouterInv, NEW c \in Callers, call[c] \notin {"idle", "register", "removed"},
         NEW p \in {"send", "wait", "remove", "returned"}, call' = [call EXCEPT ![c] = p],
         UNCHANGED <<pending, routerClosed, id, ch, carry>>,
         seen' \in [Callers -> SUBSET Callers], \A d \in Callers \ {c} : seen'[d] = seen[d],
         \A d \in seen'[c] : id[d] = id[c] /\ call[d] # "idle",
         p \in {"send", "wait"} => call[c] \in {"reread", "send", "wait"}
  PROVE  RouterInv'
  <1>1. /\ call' \in [Callers -> {"idle", "register", "reread", "send", "wait", "remove", "returned", "removed"}]
        /\ call'[c] = p /\ \A d \in Callers \ {c} : call'[d] = call[d]
    BY SMT DEF RouterInv, RouterTypes
  <1>2. RouterTypes' BY <1>1 DEF RouterInv, RouterTypes
  <1>3. SameId'
    <2>1. \A d \in Callers : call'[d] = "idle" <=> call[d] = "idle" BY <1>1
    <2>2. \A d \in Callers : \A e \in seen'[d] : e \in Callers BY DEF RouterTypes
    <2> QED BY <2>1, <2>2 DEF RouterInv, SameId
  <1>4. OnePlace'
    <2>1. \A d : InFlight(d)' <=> InFlight(d) BY DEF InFlight
    <2>2. \A d \in Callers : call'[d] \in {"idle", "register"} => call[d] \in {"idle", "register"} BY <1>1
    <2>3. \A d \in Callers : call'[d] \in {"reread", "send", "wait"} => call[d] \in {"reread", "send", "wait"}
      BY <1>1
    <2>4. \A d \in Callers : call[d] # "idle" /\ Withdrawn(d) => Withdrawn(d)' BY <1>1, WithdrawnStays
    <2> QED BY <2>1, <2>2, <2>3, <2>4 DEF RouterInv, OnePlace
  <1> QED BY <1>2, <1>3, <1>4 DEF RouterInv, ClosedRouter

LEMMA RouterRequestID == ASSUME RouterInv, NEW c \in Callers, RequestID(c) PROVE RouterInv'
  <1>1. PICK i \in Ids : id' = [id EXCEPT ![c] = {i}] BY DEF RequestID
  <1>2. /\ call[c] = "idle" /\ call' = [call EXCEPT ![c] = "register"]
        /\ UNCHANGED <<pending, routerClosed, ch, seen, carry>>
    BY DEF RequestID, CallAt
  <1>3. RouterTypes' BY SMT, <1>1, <1>2 DEF RouterInv, RouterTypes
  <1>4. /\ id'[c] = {i} /\ \A d \in Callers \ {c} : id'[d] = id[d]
        /\ call'[c] = "register" /\ \A d \in Callers \ {c} : call'[d] = call[d]
    BY <1>1, <1>2 DEF RouterInv, RouterTypes
  <1>5. SameId'
    <2> SUFFICES ASSUME NEW d \in Callers, NEW e \in seen[d]
                 PROVE  id'[e] = id'[d] /\ call'[d] # "idle" /\ call'[e] # "idle" BY <1>2 DEF SameId
    <2>1. e \in Callers BY DEF RouterInv, RouterTypes
    <2>2. id[e] = id[d] /\ call[d] # "idle" /\ call[e] # "idle" BY DEF RouterInv, SameId
    <2>3. d # c /\ e # c BY <1>2, <2>2
    <2> QED BY <1>4, <2>1, <2>2, <2>3
  <1>6. OnePlace'
    <2>1. \A d : InFlight(d)' <=> InFlight(d) BY <1>2 DEF InFlight
    <2>2. \A d \in Callers : call[d] # "idle" /\ Withdrawn(d) => Withdrawn(d)' BY <1>2, <1>4, WithdrawnStays
    <2> QED BY <1>2, <1>4, <2>1, <2>2 DEF RouterInv, OnePlace
  <1> QED BY <1>2, <1>3, <1>5, <1>6 DEF RouterInv, ClosedRouter

LEMMA RouterRegister == ASSUME RouterInv, NEW c \in Callers, TryRegisterPending(c) PROVE RouterInv'
  <1>1. call[c] = "register" /\ UNCHANGED <<routerClosed, id, ch, seen, carry>> BY DEF TryRegisterPending
  <1>2. PICK p \in {"reread", "returned"} :
          /\ call' = [call EXCEPT ![c] = p]
          /\ \/ p = "returned" /\ pending' = pending
             \/ p = "reread" /\ pending' = pending \cup {c} /\ ~routerClosed
    BY DEF TryRegisterPending, CallAt
  <1>3. RouterTypes' BY SMT, <1>1, <1>2 DEF RouterInv, RouterTypes
  <1>4. call'[c] = p /\ \A d \in Callers \ {c} : call'[d] = call[d] BY <1>2 DEF RouterInv, RouterTypes
  <1>5. SameId'
    <2>1. \A d \in Callers : \A e \in seen[d] : e \in Callers BY DEF RouterInv, RouterTypes
    <2>2. \A d \in Callers : call'[d] = "idle" <=> call[d] = "idle" BY <1>1, <1>2, <1>4
    <2> QED BY <1>1, <2>1, <2>2 DEF RouterInv, SameId
  <1>6. OnePlace'
    <2>1. \A d : InFlight(d)' <=> InFlight(d) BY <1>1 DEF InFlight
    <2>2. ch[c] = <<>> /\ ~InFlight(c) BY <1>1 DEF RouterInv, OnePlace
    <2>3. \A d \in Callers : call[d] # "idle" /\ Withdrawn(d) => Withdrawn(d)' BY <1>1, <1>4, WithdrawnStays
    <2> QED BY <1>1, <1>2, <1>4, <2>1, <2>2, <2>3 DEF RouterInv, OnePlace
  <1>7. ClosedRouter' BY <1>1, <1>2 DEF RouterInv, ClosedRouter
  <1> QED BY <1>1, <1>3, <1>5, <1>6, <1>7 DEF RouterInv

LEMMA RouterReread == ASSUME RouterInv, NEW c \in Callers, Reread(c) PROVE RouterInv'
  <1>1. PICK S : S = {o \in pending : id[o] = id[c]} OBVIOUS
  <1>2. S \subseteq Callers /\ \A d \in S : id[d] = id[c] /\ call[d] # "idle"
    BY <1>1 DEF RouterInv, RouterTypes, OnePlace
  <1>3. seen' = [seen EXCEPT ![c] = S] BY <1>1 DEF Reread
  <1>4. /\ seen' \in [Callers -> SUBSET Callers] /\ seen'[c] = S
        /\ \A d \in Callers \ {c} : seen'[d] = seen[d]
    BY SMT, <1>2, <1>3 DEF RouterInv, RouterTypes
  <1>5. /\ call[c] = "reread" /\ call' = [call EXCEPT ![c] = "send"]
        /\ UNCHANGED <<pending, routerClosed, id, ch, carry>>
    BY DEF Reread, CallAt
  <1> QED BY <1>2, <1>4, <1>5, RouterSide

LEMMA RouterSend == ASSUME RouterInv, NEW c \in Callers, SendFn(c) \/ GiveUp(c) PROVE RouterInv'
  <1>1. PICK p \in {"wait", "remove"} : call' = [call EXCEPT ![c] = p] BY DEF SendFn, GiveUp, CallAt
  <1>2. call[c] \in {"send", "wait"} /\ UNCHANGED <<pending, routerClosed, id, ch, seen, carry>>
    BY DEF SendFn, GiveUp
  <1>3. /\ seen' \in [Callers -> SUBSET Callers] /\ \A d \in Callers \ {c} : seen'[d] = seen[d]
        /\ \A d \in seen'[c] : id[d] = id[c] /\ call[d] # "idle"
    BY <1>2 DEF RouterInv, RouterTypes, SameId
  <1> QED BY <1>1, <1>2, <1>3, RouterSide

LEMMA RouterReceive == ASSUME RouterInv, NEW c \in Callers, ReceiveResult(c) PROVE RouterInv'
  <1>1. /\ call[c] = "wait" /\ ch[c] # <<>> /\ call' = [call EXCEPT ![c] = "returned"]
        /\ UNCHANGED <<pending, routerClosed, id, seen, carry>>
    BY DEF ReceiveResult, CallAt
  <1>2. ch[c] = <<"result">> BY <1>1 DEF RouterInv, RouterTypes
  <1>3. Tail(ch[c]) = <<>> BY SMT, <1>2
  <1>4. ch' = [ch EXCEPT ![c] = <<>>] BY <1>3 DEF ReceiveResult
  <1>5. RouterTypes' BY SMT, <1>1, <1>4 DEF RouterInv, RouterTypes
  <1>6. /\ ch'[c] = <<>> /\ \A d \in Callers \ {c} : ch'[d] = ch[d]
        /\ call'[c] = "returned" /\ \A d \in Callers \ {c} : call'[d] = call[d]
    BY <1>1, <1>4 DEF RouterInv, RouterTypes
  <1>7. SameId'
    <2>1. \A d \in Callers : \A e \in seen[d] : e \in Callers BY DEF RouterInv, RouterTypes
    <2> QED BY <1>1, <1>6, <2>1 DEF RouterInv, SameId
  <1>8. OnePlace'
    <2>1. \A d : InFlight(d)' <=> InFlight(d) BY <1>1 DEF InFlight
    <2>2. pending \subseteq Callers BY DEF RouterInv, RouterTypes
    <2>3. \A d \in Callers : call[d] # "idle" /\ Withdrawn(d) => Withdrawn(d)' BY <1>1, <1>6, WithdrawnStays
    <2> QED BY <1>1, <1>6, <2>1, <2>2, <2>3 DEF RouterInv, OnePlace
  <1> QED BY <1>1, <1>5, <1>7, <1>8 DEF RouterInv, ClosedRouter

\* The caller that is taken out of the map without being the one that removes is withdrawn.
LEMMA RouterRemove == ASSUME RouterInv, NEW c \in Callers, RemovePending(c) PROVE RouterInv'
  <1>1. /\ call[c] = "remove" /\ call' = [call EXCEPT ![c] = "removed"]
        /\ pending' = pending \ seen[c] /\ UNCHANGED <<routerClosed, id, ch, seen, carry>>
    BY DEF RemovePending, CallAt
  <1>2. RouterTypes' BY SMT, <1>1 DEF RouterInv, RouterTypes
  <1>3. call'[c] = "removed" /\ \A d \in Callers \ {c} : call'[d] = call[d] BY <1>1 DEF RouterInv, RouterTypes
  <1>4. pending' \subseteq pending /\ \A d \in pending : d \in pending' \/ d \in seen[c] BY <1>1
  <1>5. SameId'
    <2>1. \A d \in Callers : \A e \in seen[d] : e \in Callers BY DEF RouterInv, RouterTypes
    <2> QED BY <1>1, <1>3, <2>1 DEF RouterInv, SameId
  <1>6. OnePlace'
    <2>1. \A d : InFlight(d)' <=> InFlight(d) BY <1>1 DEF InFlight
    <2>2. pending \subseteq Callers BY DEF RouterInv, RouterTypes
    <2>3. \A d \in Callers : call[d] # "idle" /\ Withdrawn(d) => Withdrawn(d)' BY <1>1, <1>3, WithdrawnStays
    <2>4. \A d \in Callers \ {c} : d \in seen[c] => Withdrawn(d)'
      BY <1>1, <1>3 DEF RouterInv, SameId, Withdrawn
    <2>5. \A d \in Callers : call'[d] \in {"reread", "send", "wait"} =>
            d \in pending' \/ InFlight(d)' \/ ch'[d] # <<>> \/ Withdrawn(d)'
      <3> SUFFICES ASSUME NEW d \in Callers, call'[d] \in {"reread", "send", "wait"}
                   PROVE  d \in pending' \/ InFlight(d)' \/ ch'[d] # <<>> \/ Withdrawn(d)' OBVIOUS
      <3>1. d # c /\ call[d] \in {"reread", "send", "wait"} BY <1>3
      <3>2. d \in pending \/ InFlight(d) \/ ch[d] # <<>> \/ Withdrawn(d) BY <3>1 DEF RouterInv, OnePlace
      <3> QED BY <1>1, <1>4, <2>1, <2>3, <2>4, <3>1, <3>2
    <2> QED BY <1>1, <1>3, <1>4, <2>1, <2>2, <2>5 DEF RouterInv, OnePlace
  <1>7. ClosedRouter' BY <1>1, <1>4 DEF RouterInv, ClosedRouter
  <1> QED BY <1>1, <1>2, <1>5, <1>6, <1>7 DEF RouterInv

\* A sender takes registrations out of the map and carries them.
LEMMA RouterCarry ==
  ASSUME RouterInv, NEW s \in Senders, carry[s] = {}, NEW S \in SUBSET pending,
         carry' = [carry EXCEPT ![s] = S], pending' = pending \ S, routerClosed' \in BOOLEAN, ClosedRouter',
         UNCHANGED <<id, ch, seen, call>>
  PROVE  RouterInv'
  <1>1. RouterTypes' BY SMT DEF RouterInv, RouterTypes
  <1>2. carry'[s] = S /\ \A t \in Senders \ {s} : carry'[t] = carry[t] BY DEF RouterInv, RouterTypes
  <1>3. pending \subseteq Callers BY DEF RouterInv, RouterTypes
  <1>4. \A d : InFlight(d)' <=> InFlight(d) \/ d \in S BY <1>2 DEF InFlight
  <1>5. \A d \in S : d \in pending /\ d \notin pending' OBVIOUS
  <1>6. \A d \in pending : d \in pending' \/ d \in S OBVIOUS
  <1>7. OnePlace'
    <2>1. \A d \in Callers : \A t, u \in Senders : d \in carry'[t] /\ d \in carry'[u] => t = u
      <3> SUFFICES ASSUME NEW d \in Callers, NEW t \in Senders, NEW u \in Senders, d \in carry'[t], d \in carry'[u], t # u
                   PROVE  FALSE OBVIOUS
      <3>1. CASE t # s /\ u # s BY <1>2, <3>1 DEF RouterInv, OnePlace
      <3>2. CASE t = s \/ u = s
        <4>1. d \in S /\ \E v \in Senders : d \in carry[v] BY <1>2, <3>2
        <4> QED BY <4>1 DEF RouterInv, OnePlace, InFlight
      <3> QED BY <3>1, <3>2
    <2>2. \A d \in Callers : Withdrawn(d)' <=> Withdrawn(d) BY DEF Withdrawn
    <2> QED BY <1>3, <1>4, <1>5, <1>6, <2>1, <2>2 DEF RouterInv, OnePlace
  <1> QED BY <1>1, <1>7 DEF RouterInv, SameId

LEMMA RouterComplete == ASSUME RouterInv, NEW s \in Senders, CompleteRequest(s) PROVE RouterInv'
  <1>1. PICK i \in Ids : /\ carry' = [carry EXCEPT ![s] = {c \in pending : i \in id[c]}]
                         /\ pending' = pending \ {c \in pending : i \in id[c]}
    BY DEF CompleteRequest, Carry
  <1>2. PICK S \in SUBSET pending : carry' = [carry EXCEPT ![s] = S] /\ pending' = pending \ S BY <1>1
  <1>3. carry[s] = {} /\ s # "close" /\ UNCHANGED <<routerClosed, id, ch, seen, call>>
    BY CompletersAssumption DEF CompleteRequest
  <1>4. carry'["close"] = carry["close"] BY <1>2, <1>3 DEF RouterInv, RouterTypes, Senders
  <1>5. ClosedRouter' BY <1>2, <1>3, <1>4 DEF RouterInv, ClosedRouter
  <1> QED BY <1>2, <1>3, <1>5, RouterCarry DEF RouterInv

LEMMA RouterCleanup == ASSUME RouterInv, Cleanup PROVE RouterInv'
  <1>1. PICK S \in SUBSET pending : carry' = [carry EXCEPT !["cleanup"] = S] /\ pending' = pending \ S
    BY DEF Cleanup, Carry
  <1>2. carry["cleanup"] = {} /\ UNCHANGED <<routerClosed, id, ch, seen, call>> BY DEF Cleanup
  <1>3. carry'["close"] = carry["close"] BY <1>1 DEF RouterInv, RouterTypes, Senders
  <1>4. ClosedRouter' BY <1>1, <1>2, <1>3 DEF RouterInv, ClosedRouter
  <1>5. "cleanup" \in Senders BY DEF Senders
  <1> QED BY <1>1, <1>2, <1>4, <1>5, RouterCarry DEF RouterInv

LEMMA RouterCloses == ASSUME RouterInv, CloseRouter PROVE RouterInv'
  <1>1. /\ carry' = [carry EXCEPT !["close"] = pending] /\ pending' = pending \ pending
        /\ routerClosed' = TRUE /\ UNCHANGED <<id, ch, seen, call>>
    BY DEF CloseRouter, Carry
  <1>2. carry["close"] = {} BY DEF CloseRouter, RouterInv, ClosedRouter
  <1>3. ClosedRouter' BY <1>1 DEF ClosedRouter
  <1>4. PICK S \in SUBSET pending : S = pending OBVIOUS
  <1>5. "close" \in Senders BY DEF Senders
  <1> QED BY <1>1, <1>2, <1>3, <1>4, <1>5, RouterCarry

LEMMA RouterResult == ASSUME RouterInv, NEW s \in Senders, SendResult(s) PROVE RouterInv'
  <1>1. PICK c \in carry[s] : /\ ch[c] = <<>> /\ ch' = [ch EXCEPT ![c] = <<"result">>]
                              /\ carry' = [carry EXCEPT ![s] = carry[s] \ {c}]
    BY DEF SendResult, Carry
  <1>2. UNCHANGED <<pending, routerClosed, id, seen, call>> BY DEF SendResult
  <1>3. c \in Callers BY DEF RouterInv, RouterTypes
  <1>4. RouterTypes' BY SMT, <1>1, <1>2, <1>3 DEF RouterInv, RouterTypes
  <1>5. /\ ch'[c] = <<"result">> /\ \A d \in Callers \ {c} : ch'[d] = ch[d]
        /\ carry'[s] = carry[s] \ {c} /\ \A t \in Senders \ {s} : carry'[t] = carry[t]
    BY <1>1, <1>3 DEF RouterInv, RouterTypes
  <1>6. \A t \in Senders : carry'[t] \subseteq carry[t] BY <1>5
  <1>7. \A d \in Callers \ {c} : InFlight(d)' <=> InFlight(d) BY <1>5, <1>6 DEF InFlight
  <1>8. ~InFlight(c)' BY <1>1, <1>3, <1>5, <1>6 DEF RouterInv, OnePlace, InFlight
  <1>9. InFlight(c) BY <1>1 DEF InFlight
  <1>10. OnePlace'
    <2>1. pending \subseteq Callers BY DEF RouterInv, RouterTypes
    <2>2. <<"result">> # <<>> OBVIOUS
    <2>3. \A d \in Callers : \A t, u \in Senders : d \in carry'[t] /\ d \in carry'[u] => t = u
      BY <1>6 DEF RouterInv, OnePlace
    <2>4. c \notin pending /\ call[c] \notin {"idle", "register"}
      <3>1. /\ \A d \in pending : ~InFlight(d)
            /\ \A d \in Callers : call[d] \in {"idle", "register"} => ~InFlight(d)
        BY DEF RouterInv, OnePlace
      <3> QED BY <1>3, <1>9, <3>1
    <2>5. \A d \in pending : ~InFlight(d)' /\ ch'[d] = <<>> BY <1>5, <1>7, <2>1, <2>4 DEF RouterInv, OnePlace
    <2>6. \A d \in Callers : InFlight(d)' => ch'[d] = <<>>
      <3>1. \A d \in Callers : InFlight(d) => ch[d] = <<>> BY DEF RouterInv, OnePlace
      <3> QED BY <1>5, <1>7, <1>8, <3>1
    <2>7. \A d \in Callers : call[d] \in {"reread", "send", "wait"} =>
            d \in pending \/ InFlight(d)' \/ ch'[d] # <<>> \/ Withdrawn(d)'
      <3>1. \A d \in Callers : Withdrawn(d)' <=> Withdrawn(d) BY <1>2 DEF Withdrawn
      <3> QED BY <1>5, <1>7, <2>2, <3>1 DEF RouterInv, OnePlace
    <2>8. \A d \in Callers : call[d] \in {"idle", "register"} => d \notin pending /\ ~InFlight(d)' /\ ch'[d] = <<>>
      BY <1>5, <1>7, <2>4 DEF RouterInv, OnePlace
    <2> QED BY <1>2, <2>3, <2>5, <2>6, <2>7, <2>8 DEF OnePlace
  <1>11. ClosedRouter' BY <1>2, <1>6 DEF RouterInv, ClosedRouter, Senders
  <1>12. SameId' BY <1>2 DEF RouterInv, SameId
  <1> QED BY <1>2, <1>4, <1>10, <1>11, <1>12 DEF RouterInv

LEMMA RouterKept == RouterInv /\ [RouterNext]_routerVars => RouterInv'
  <1> SUFFICES ASSUME RouterInv, [RouterNext]_routerVars PROVE RouterInv' OBVIOUS
  <1>1. CASE \E c \in Callers : CallStep(c)
    BY <1>1, RouterRequestID, RouterRegister, RouterReread, RouterSend, RouterReceive, RouterRemove DEF CallStep
  <1>2. CASE UNCHANGED routerVars
    <2>1. UNCHANGED <<pending, routerClosed, id, ch, seen, call, carry>> BY <1>2 DEF routerVars
    <2>2. (\A c : InFlight(c)' <=> InFlight(c)) /\ (\A c : Withdrawn(c)' <=> Withdrawn(c))
      BY <2>1 DEF InFlight, Withdrawn
    <2>3. OnePlace' BY <2>1, <2>2 DEF RouterInv, OnePlace
    <2>4. RouterTypes' /\ SameId' BY <2>1 DEF RouterInv, RouterTypes, SameId
    <2>5. ClosedRouter' /\ routerClosed' \in BOOLEAN BY <2>1 DEF RouterInv, ClosedRouter
    <2> QED BY <2>3, <2>4, <2>5 DEF RouterInv
  <1> QED BY <1>1, <1>2, RouterComplete, RouterCleanup, RouterCloses, RouterResult DEF RouterNext

LEMMA RouterServes == ASSUME RouterInv PROVE WaiterServed
  <1> SUFFICES ASSUME NEW c \in Callers
               PROVE  Owed(c) <= 1 /\ (call[c] \in {"reread", "send", "wait"} => Owed(c) = 1 \/ Withdrawn(c))
    BY DEF WaiterServed, RouterInv, ClosedRouter
  <1> DEFINE Carriers == {s \in Senders : c \in carry[s]}
  <1>1. CASE InFlight(c)
    <2>1. PICK s \in Senders : c \in carry[s] BY <1>1 DEF InFlight
    <2>2. Carriers = {s} BY <2>1 DEF RouterInv, OnePlace
    <2>3. Cardinality(Carriers) = 1 BY <2>2, CountOne
    <2>4. ch[c] = <<>> /\ c \notin pending BY <1>1 DEF RouterInv, OnePlace
    <2> HIDE DEF Carriers
    <2>5. Owed(c) = Len(ch[c]) + Cardinality(Carriers) + (IF c \in pending THEN 1 ELSE 0) BY DEF Owed, Carriers
    <2> QED BY SMT, <2>3, <2>4, <2>5
  <1>2. CASE ~InFlight(c)
    <2>1. Carriers = {} BY <1>2 DEF InFlight
    <2>2. Cardinality(Carriers) = 0 BY <2>1, CountNone
    <2>3. /\ c \in pending => ch[c] = <<>>
          /\ call[c] \in {"reread", "send", "wait"} =>
               c \in pending \/ ch[c] # <<>> \/ Withdrawn(c)
          /\ ch[c] \in {<<>>, <<"result">>}
      BY <1>2 DEF RouterInv, OnePlace, RouterTypes
    <2>4. Len(ch[c]) = (IF ch[c] = <<>> THEN 0 ELSE 1)
      <3>1. CASE ch[c] = <<>> BY SMT, <3>1
      <3>2. CASE ch[c] = <<"result">> BY SMT, <3>2
      <3> QED BY <2>3, <3>1, <3>2
    <2> HIDE DEF Carriers
    <2>5. Owed(c) = Len(ch[c]) + Cardinality(Carriers) + (IF c \in pending THEN 1 ELSE 0) BY DEF Owed, Carriers
    <2> QED BY SMT, <2>2, <2>3, <2>4, <2>5
  <1> QED BY <1>1, <1>2

\* For any ids, unique or used again, and any number of callers and of goroutines that complete
\* requests, a caller that waits is owed exactly one result, unless an earlier call of its id has
\* taken its registration out, and nobody is owed two (WaiterServed: RequestRouter in
\* request_correlator.go).
THEOREM ResponsesServed == RouterSpec => []WaiterServed
  BY RouterInitially, RouterKept, RouterServes, PTL DEF RouterSpec

-----------------------------------------------------------------------------
(* ProtocolNegotiation *)

LEMMA Appended ==
  ASSUME NEW S, NEW seq \in Seq(S), NEW x \in S
  PROVE  /\ Append(seq, x) \in Seq(S) /\ Append(seq, x) # <<>> /\ Len(Append(seq, x)) = Len(seq) + 1
         /\ \A i \in 1..Len(seq) : Append(seq, x)[i] = seq[i]
         /\ Append(seq, x)[Len(seq) + 1] = x
BY SMT

\* What the two policies of the connection give
Result == Compatibility(policy["client"], policy["server"])
BothEnabled == policy["client"].enabled /\ policy["server"].enabled

AppPacket(c) == [kind |-> "app", version |-> c.version, under |-> c]

\* What may be on its way to an end: the frame of the other one, and what that one's
\* compatibility lets it send
PacketsTo(e) ==
  {p \in {Frame(Other(e))} : policy[Other(e)].enabled} \cup {AppPacket(c) : c \in Effective(Other(e))}

NegotiationTypes ==
  /\ policy \in [Ends -> {p \in Policies : Validate(p)}]
  /\ DOMAIN agreed = Ends /\ DOMAIN wire = Ends /\ alive \in [Ends -> BOOLEAN]
  /\ \A e \in Ends : wire[e] \in Seq(PacketsTo(e))
  /\ \A e \in Ends : /\ agreed[e] \in {{}, {Legacy}, Result}
                     /\ ~policy[e].enabled => agreed[e] = {}

LegacyAllowed == \A e \in Ends : Legacy \in agreed[e] => \E o \in Ends : policy[o].acceptLegacy

\* The frame of the other end is next, or it has done its work.
FrameNext(e) == wire[e] # <<>> /\ Head(wire[e]).kind = "frame"
Greeted(e) == ~alive[e] \/ (Result # {} /\ agreed[e] = Result)

\* The client has not agreed on a version but may be about to fall back, or has.
Falling == \/ agreed["client"] = {Legacy}
           \/ pc \in {"wait", "fallback"} /\ agreed["client"] = {}

\* Between two enabled ends nothing overtakes a frame that it must not overtake.
FramesLead ==
  BothEnabled =>
    /\ agreed["server"] \in {{}, Result}
    /\ FrameNext("client") \/ Greeted("client")
    /\ Falling => FrameNext("server") \/ Greeted("server")
    /\ pc = "send" => \A i \in 1..Len(wire["server"]) : wire["server"][i].kind = "app"

AcceptedUnder(a) == a.to \in Ends /\ Effective(a.to) = {a.under} /\ Effective(Other(a.to)) = {a.under}
SameView == \A a \in accepted : AcceptedUnder(a)

ClientKnows ==
  /\ pc \in {"send", "wait", "fallback"} => policy["client"].enabled
  /\ policy["client"].enabled /\ result = "nil" => agreed["client"] # {}
  /\ pc = "connected" => Effective("client") # {}

NegotiationInv == NegotiationTypes /\ LegacyAllowed /\ FramesLead /\ SameView /\ ClientKnows

LEMMA OtherEnd ==
  /\ Other("client") = "server" /\ Other("server") = "client"
  /\ \A e \in Ends : Other(e) \in Ends /\ Other(e) # e /\ Other(Other(e)) = e
BY SMT DEF Other, Ends

LEMMA LegacyVersion == Legacy.version = 0
BY DEF Legacy

LEMMA AppFields ==
  ASSUME NEW c PROVE AppPacket(c).kind = "app" /\ AppPacket(c).version = c.version /\ AppPacket(c).under = c
BY DEF AppPacket

\* What the two policies give, whichever end computes it.
LEMMA CompatibilityIs ==
  ASSUME NEW p \in Policies, NEW q \in Policies, Validate(p), Validate(q)
  PROVE  /\ Compatibility(p, q) = Compatibility(q, p)
         /\ Compatibility(p, q) = {} \/ \E c : Compatibility(p, q) = {c}
         /\ ~(p.enabled /\ q.enabled) => Compatibility(p, q) \in {{}, {Legacy}}
         /\ (p.enabled \/ q.enabled) /\ ~(p.enabled /\ q.enabled) /\ Compatibility(p, q) # {}
              => p.acceptLegacy \/ q.acceptLegacy
         /\ p.enabled /\ q.enabled => \A c \in Compatibility(p, q) :
              /\ c.version # 0 /\ c # Legacy
              /\ c.version \in p.min .. p.max /\ c.version \in q.min .. q.max
              /\ \A v \in Nat : v > c.version => v > p.max \/ v > q.max
<1> USE PoliciesAssumption
<1>1. Smaller(p.max, q.max) = Smaller(q.max, p.max) /\ Larger(p.min, q.min) = Larger(q.min, p.min)
  BY SMT DEF Smaller, Larger
<1>2. p.capabilities \cap q.capabilities = q.capabilities \cap p.capabilities
  OBVIOUS
<1>3. Compatibility(p, q) = Compatibility(q, p)
  <2>1. CASE p.enabled /\ q.enabled
    BY <2>1, <1>1, <1>2 DEF Compatibility
  <2>2. CASE ~(p.enabled /\ q.enabled)
    BY <2>2 DEF Compatibility
  <2> QED
    BY <2>1, <2>2
<1>4. Compatibility(p, q) = {} \/ \E c : Compatibility(p, q) = {c}
  BY DEF Compatibility
<1>5. ~(p.enabled /\ q.enabled) => Compatibility(p, q) \in {{}, {Legacy}}
  BY SMT DEF Compatibility
<1>6. (p.enabled \/ q.enabled) /\ ~(p.enabled /\ q.enabled) /\ Compatibility(p, q) # {}
        => p.acceptLegacy \/ q.acceptLegacy
  BY SMT DEF Compatibility
<1>7. ASSUME p.enabled, q.enabled, NEW c \in Compatibility(p, q)
      PROVE  /\ c.version # 0 /\ c # Legacy
             /\ c.version \in p.min .. p.max /\ c.version \in q.min .. q.max
             /\ \A v \in Nat : v > c.version => v > p.max \/ v > q.max
  <2>1. ~(Larger(p.min, q.min) > Smaller(p.max, q.max)) /\ c.version = Smaller(p.max, q.max)
    BY <1>7, SMT DEF Compatibility
  <2>2. c.version # 0
    BY <1>7, <2>1, SMT DEF Larger, Smaller, Validate
  <2>3. c.version \in p.min .. p.max /\ c.version \in q.min .. q.max
    BY <1>7, <2>1, SMT DEF Larger, Smaller, Validate
  <2>4. \A v \in Nat : v > c.version => v > p.max \/ v > q.max
    BY <1>7, <2>1, SMT DEF Larger, Smaller, Validate
  <2> QED
    BY <2>2, <2>3, <2>4, LegacyVersion
<1> QED
  BY <1>3, <1>4, <1>5, <1>6, <1>7

\* What a policy accepts without a frame
LEMMA WithoutFrame ==
  ASSUME NEW p \in Policies, p.enabled
  PROVE  Compatibility(p, Disabled) = IF p.acceptLegacy THEN {Legacy} ELSE {}
BY PoliciesAssumption, SMT DEF Compatibility, Disabled

LEMMA PolicyTypes ==
  ASSUME NegotiationTypes, NEW e \in Ends
  PROVE  policy[e] \in Policies /\ Validate(policy[e]) /\ policy[e].enabled \in BOOLEAN
BY PoliciesAssumption DEF NegotiationTypes

\* The compatibility as each end computes it
LEMMA ResultIs ==
  ASSUME NegotiationTypes
  PROVE  /\ \A e \in Ends : Compatibility(policy[e], policy[Other(e)]) = Result
         /\ Result = {} \/ \E c : Result = {c}
         /\ ~BothEnabled => Result \in {{}, {Legacy}}
         /\ (\E e \in Ends : policy[e].enabled) /\ ~BothEnabled /\ Result # {}
              => \E o \in Ends : policy[o].acceptLegacy
         /\ BothEnabled => \A c \in Result :
              /\ c.version # 0 /\ c # Legacy
              /\ \A e \in Ends : c.version \in policy[e].min .. policy[e].max
              /\ \A v \in Nat : v > c.version => \E e \in Ends : v > policy[e].max
<1> DEFINE p == policy["client"]
           q == policy["server"]
<1>1. p \in Policies /\ q \in Policies /\ Validate(p) /\ Validate(q)
  BY PolicyTypes DEF Ends
<1> HIDE DEF p, q
<1>2. /\ Compatibility(p, q) = Compatibility(q, p)
      /\ Compatibility(p, q) = {} \/ \E c : Compatibility(p, q) = {c}
      /\ ~(p.enabled /\ q.enabled) => Compatibility(p, q) \in {{}, {Legacy}}
      /\ (p.enabled \/ q.enabled) /\ ~(p.enabled /\ q.enabled) /\ Compatibility(p, q) # {}
           => p.acceptLegacy \/ q.acceptLegacy
      /\ p.enabled /\ q.enabled => \A c \in Compatibility(p, q) :
           /\ c.version # 0 /\ c # Legacy
           /\ c.version \in p.min .. p.max /\ c.version \in q.min .. q.max
           /\ \A v \in Nat : v > c.version => v > p.max \/ v > q.max
  BY <1>1, CompatibilityIs
<1>3. Result = Compatibility(p, q) /\ (BothEnabled <=> p.enabled /\ q.enabled)
  BY DEF Result, BothEnabled, p, q
<1>4. \A e \in Ends : (e = "client" /\ policy[e] = p /\ policy[Other(e)] = q)
                      \/ (e = "server" /\ policy[e] = q /\ policy[Other(e)] = p)
  BY OtherEnd DEF Ends, p, q
<1>5. "client" \in Ends /\ "server" \in Ends /\ policy["client"] = p /\ policy["server"] = q
  BY DEF Ends, p, q
<1>6. \A e \in Ends : Compatibility(policy[e], policy[Other(e)]) = Result
  BY <1>2, <1>3, <1>4
<1>7. (\E e \in Ends : policy[e].enabled) /\ ~BothEnabled /\ Result # {}
        => \E o \in Ends : policy[o].acceptLegacy
  BY <1>2, <1>3, <1>4, <1>5
<1>8. BothEnabled => \A c \in Result :
              /\ c.version # 0 /\ c # Legacy
              /\ \A e \in Ends : c.version \in policy[e].min .. policy[e].max
              /\ \A v \in Nat : v > c.version => \E e \in Ends : v > policy[e].max
  BY <1>2, <1>3, <1>4, <1>5
<1> QED
  BY <1>2, <1>3, <1>6, <1>7, <1>8

\* What an end agreed on stays.
Steady ==
  /\ policy' = policy /\ DOMAIN agreed' = Ends
  /\ \A e \in Ends : agreed[e] # {} => agreed'[e] = agreed[e]

LEMMA SeqGrows == ASSUME NEW S, NEW T, S \subseteq T, NEW s \in Seq(S) PROVE s \in Seq(T)
BY SMT

LEMMA HeadOne == ASSUME NEW x PROVE <<x>> # <<>> /\ Head(<<x>>) = x
BY SMT

LEMMA AppendAt ==
  ASSUME NEW S, NEW s \in Seq(S), NEW x
  PROVE  /\ Append(s, x) # <<>> /\ Head(Append(s, x)) = IF s = <<>> THEN x ELSE Head(s)
         /\ \A i \in 1..Len(Append(s, x)) : \/ i \in 1..Len(s) /\ Append(s, x)[i] = s[i]
                                            \/ Append(s, x)[i] = x
BY SMT

LEMMA TailAt ==
  ASSUME NEW S, NEW s \in Seq(S), s # <<>>
  PROVE  /\ Head(s) \in S /\ Tail(s) \in Seq(S) /\ 1 \in 1..Len(s) /\ Head(s) = s[1]
         /\ \A i \in 1..Len(Tail(s)) : \E j \in 1..Len(s) : Tail(s)[i] = s[j]
BY SMT

LEMMA Steadily ==
  ASSUME NegotiationTypes, Steady
  PROVE  /\ Result' = Result /\ (BothEnabled' <=> BothEnabled)
         /\ \A e \in Ends : Effective(e) # {} => Effective(e)' = Effective(e)
         /\ \A e \in Ends : Seq(PacketsTo(e)) \subseteq Seq(PacketsTo(e)')
         /\ \A a \in accepted : AcceptedUnder(a) => AcceptedUnder(a)'
<1>1. Result' = Result /\ (BothEnabled' <=> BothEnabled)
  BY DEF Steady, Result, BothEnabled
<1>2. \A e \in Ends : Effective(e) # {} => Effective(e)' = Effective(e)
  BY DEF Steady, Effective
<1>3. ASSUME NEW e \in Ends PROVE PacketsTo(e) \subseteq PacketsTo(e)'
  <2>1. Other(e) \in Ends
    BY OtherEnd
  <2>2. Frame(Other(e))' = Frame(Other(e))
    BY DEF Steady, Frame
  <2>3. Effective(Other(e)) \subseteq Effective(Other(e))'
    BY <2>1, <1>2
  <2> QED
    BY <2>2, <2>3 DEF PacketsTo, Steady
<1>4. ASSUME NEW e \in Ends PROVE Seq(PacketsTo(e)) \subseteq Seq(PacketsTo(e)')
  BY <1>3, SeqGrows
<1>5. ASSUME NEW a \in accepted, AcceptedUnder(a) PROVE AcceptedUnder(a)'
  <2>1. a.to \in Ends /\ Other(a.to) \in Ends
    BY <1>5, OtherEnd DEF AcceptedUnder
  <2>2. Effective(a.to) # {} /\ Effective(Other(a.to)) # {}
    BY <1>5 DEF AcceptedUnder
  <2> QED
    BY <1>5, <1>2, <2>1, <2>2 DEF AcceptedUnder
<1> QED
  BY <1>1, <1>2, <1>4, <1>5

LEMMA NegotiationTypesInit == NegotiationInit => NegotiationInv
<1> SUFFICES ASSUME NegotiationInit PROVE NegotiationInv
  OBVIOUS
<1> USE DEF NegotiationInit
<1>1. ASSUME NEW e \in Ends PROVE wire[e] \in Seq(PacketsTo(e))
  <2>1. CASE e = "client" /\ policy["server"].enabled
    <3>1. wire[e] = <<Frame("server")>>
      BY <2>1 DEF Ends
    <3>2. Frame("server") \in PacketsTo(e)
      BY <2>1, OtherEnd DEF PacketsTo
    <3> QED
      BY <3>1, <3>2, SMT
  <2>2. CASE ~(e = "client" /\ policy["server"].enabled)
    <3>1. wire[e] = <<>>
      BY <2>2
    <3> QED
      BY <3>1, SMT
  <2> QED
    BY <2>1, <2>2
<1>2. NegotiationTypes
  BY <1>1 DEF NegotiationTypes
<1>3. LegacyAllowed
  BY DEF LegacyAllowed
<1>4. SameView
  BY DEF SameView
<1>5. ClientKnows
  <2>1. policy["client"].enabled \in BOOLEAN
    BY <1>2, PolicyTypes DEF Ends
  <2>2. result # "nil" /\ (pc = "connected" => ~policy["client"].enabled)
    BY <2>1
  <2>3. pc \in {"send", "wait", "fallback"} => policy["client"].enabled
    BY <2>1
  <2> QED
    BY <2>2, <2>3 DEF ClientKnows, Effective
<1>6. FramesLead
  <2> SUFFICES ASSUME BothEnabled
               PROVE  /\ agreed["server"] \in {{}, Result}
                      /\ FrameNext("client") \/ Greeted("client")
                      /\ Falling => FrameNext("server") \/ Greeted("server")
                      /\ pc = "send" => \A i \in 1..Len(wire["server"]) : wire["server"][i].kind = "app"
    BY DEF FramesLead
  <2>1. agreed["server"] = {} /\ agreed["client"] = {} /\ pc = "send"
    BY DEF Ends, BothEnabled
  <2>2. wire["client"] = <<Frame("server")>> /\ wire["server"] = <<>>
    BY DEF Ends, BothEnabled
  <2>3. FrameNext("client")
    <3>1. Frame("server").kind = "frame"
      BY DEF Frame
    <3> QED
      BY <2>2, <3>1, HeadOne DEF FrameNext
  <2>4. ~Falling
    BY <2>1 DEF Falling
  <2>5. \A i \in 1..Len(wire["server"]) : wire["server"][i].kind = "app"
    BY <2>2, SMT
  <2> QED
    BY <2>1, <2>3, <2>4, <2>5
<1> QED
  BY <1>2, <1>3, <1>4, <1>5, <1>6 DEF NegotiationInv

\* What an end sends joins the other packets, behind the frame if that is there.
LEMMA SendAppKeeps ==
  ASSUME NegotiationInv, NEW e \in Ends, SendApp(e)
  PROVE  NegotiationInv' /\ Steady
<1> USE DEF NegotiationInv
<1>0. PICK c \in Effective(e) : wire' = [wire EXCEPT ![Other(e)] = Append(@, AppPacket(c))]
  BY DEF SendApp, AppPacket
<1>1. UNCHANGED <<policy, agreed, alive, accepted, result, pc>>
  BY DEF SendApp
<1>2. Steady
  BY <1>1 DEF Steady, NegotiationTypes
<1> DEFINE o == Other(e)
<1>3. o \in Ends /\ Other(o) = e
  BY OtherEnd
<1> HIDE DEF o
<1>4. /\ DOMAIN wire' = Ends /\ wire'[o] = Append(wire[o], AppPacket(c))
      /\ \A d \in Ends : d # o => wire'[d] = wire[d]
  BY <1>0, <1>3 DEF o, NegotiationTypes
<1>5. AppPacket(c) \in PacketsTo(o)
  BY <1>3 DEF PacketsTo
<1>6. ASSUME NEW d \in Ends PROVE wire[d] \in Seq(PacketsTo(d)) /\ wire'[d] \in Seq(PacketsTo(d))
  <2>1. wire[d] \in Seq(PacketsTo(d))
    BY DEF NegotiationTypes
  <2>2. CASE d = o
    <3> DEFINE s == wire[o]
               x == AppPacket(c)
               S == PacketsTo(o)
    <3>1. s \in Seq(S) /\ x \in S
      BY <2>1, <2>2, <1>5
    <3> HIDE DEF s, x, S
    <3>2. Append(s, x) \in Seq(S)
      BY <3>1, Appended
    <3> QED
      BY <2>1, <2>2, <3>2, <1>4 DEF s, x, S
  <2> QED
    BY <2>1, <2>2, <1>4
<1>7. NegotiationTypes'
  <2>1. \A d \in Ends : wire'[d] \in Seq(PacketsTo(d)')
    BY <1>2, <1>6, Steadily
  <2> QED
    BY <1>1, <1>2, <1>4, <2>1, Steadily DEF NegotiationTypes
<1>8. ASSUME NEW d \in Ends
      PROVE  /\ FrameNext(d) => FrameNext(d)'
             /\ (\A i \in 1..Len(wire[d]) : wire[d][i].kind = "app")
                  => \A i \in 1..Len(wire'[d]) : wire'[d][i].kind = "app"
  <2>1. CASE d = o
    <3> DEFINE s == wire[o]
               x == AppPacket(c)
               t == wire'[o]
    <3>1. s \in Seq(PacketsTo(o)) /\ t = Append(s, x) /\ x.kind = "app"
      BY <1>3, <1>4, <1>6, AppFields
    <3> HIDE DEF s, x, t
    <3>2. /\ t # <<>> /\ Head(t) = IF s = <<>> THEN x ELSE Head(s)
          /\ \A i \in 1..Len(t) : (i \in 1..Len(s) /\ t[i] = s[i]) \/ t[i] = x
      BY <3>1, AppendAt, SMT
    <3>3. s # <<>> /\ Head(s).kind = "frame" => t # <<>> /\ Head(t).kind = "frame"
      BY <3>2
    <3>4. (\A i \in 1..Len(s) : s[i].kind = "app") => \A i \in 1..Len(t) : t[i].kind = "app"
      BY <3>1, <3>2
    <3>5. s = wire[d] /\ t = wire'[d]
      BY <2>1 DEF s, t
    <3> QED
      BY <3>3, <3>4, <3>5 DEF FrameNext
  <2>2. CASE d # o
    BY <2>2, <1>4 DEF FrameNext
  <2> QED
    BY <2>1, <2>2
<1>9. FramesLead'
  BY <1>1, <1>2, <1>8, Steadily DEF FramesLead, Greeted, Falling, Ends
<1>10. LegacyAllowed' /\ ClientKnows'
  BY <1>1 DEF LegacyAllowed, ClientKnows, Effective
<1>11. SameView'
  BY <1>1, <1>2, Steadily DEF SameView
<1> QED
  BY <1>2, <1>7, <1>9, <1>10, <1>11

\* What an end receives: the rest of the packets for it stays.
LEMMA ReadKeeps ==
  ASSUME NegotiationInv, NEW e \in Ends, Steady, Read(e, Head(wire[e]))
  PROVE  /\ Head(wire[e]) \in PacketsTo(e)
         /\ DOMAIN wire' = Ends /\ \A d \in Ends : wire'[d] \in Seq(PacketsTo(d)')
         /\ \A d \in Ends : d # e => wire'[d] = wire[d] /\ (FrameNext(d)' <=> FrameNext(d))
         /\ (\A i \in 1..Len(wire["server"]) : wire["server"][i].kind = "app")
              => \A i \in 1..Len(wire'["server"]) : wire'["server"][i].kind = "app"
         /\ e = "server" /\ (\A i \in 1..Len(wire["server"]) : wire["server"][i].kind = "app")
              => Head(wire[e]).kind = "app"
<1> USE DEF NegotiationInv
<1>1. /\ DOMAIN wire' = Ends /\ wire'[e] = Tail(wire[e]) /\ wire[e] # <<>>
      /\ \A d \in Ends : d # e => wire'[d] = wire[d]
  BY DEF Read, NegotiationTypes
<1>2. \A d \in Ends : wire[d] \in Seq(PacketsTo(d))
  BY DEF NegotiationTypes
<1>3. Head(wire[e]) \in PacketsTo(e) /\ wire'[e] \in Seq(PacketsTo(e))
  BY <1>1, <1>2, TailAt
<1>4. \A d \in Ends : wire'[d] \in Seq(PacketsTo(d)')
  BY <1>1, <1>2, <1>3, Steadily
<1>5. \A d \in Ends : d # e => (FrameNext(d)' <=> FrameNext(d))
  BY <1>1 DEF FrameNext
<1>6. ASSUME \A i \in 1..Len(wire["server"]) : wire["server"][i].kind = "app"
      PROVE  /\ \A i \in 1..Len(wire'["server"]) : wire'["server"][i].kind = "app"
             /\ e = "server" => Head(wire[e]).kind = "app"
  <2>1. CASE e = "server"
    <3> DEFINE s == wire[e]
               t == wire'[e]
    <3>1. s \in Seq(PacketsTo(e)) /\ s # <<>> /\ t = Tail(s) /\ \A i \in 1..Len(s) : s[i].kind = "app"
      BY <1>1, <1>2, <1>6, <2>1
    <3> HIDE DEF s, t
    <3>2. /\ 1 \in 1..Len(s) /\ Head(s) = s[1]
          /\ \A i \in 1..Len(t) : \E j \in 1..Len(s) : t[i] = s[j]
      BY <3>1, TailAt
    <3>3. Head(s).kind = "app" /\ \A i \in 1..Len(t) : t[i].kind = "app"
      BY <3>1, <3>2
    <3> QED
      BY <2>1, <3>3 DEF s, t
  <2>2. CASE e # "server"
    BY <1>1, <1>6, <2>2 DEF Ends
  <2> QED
    BY <2>1, <2>2
<1> QED
  BY <1>1, <1>3, <1>4, <1>5, <1>6

LEMMA PacketKinds ==
  ASSUME NEW e \in Ends, NEW p \in PacketsTo(e)
  PROVE  /\ p.kind = "frame" => policy[Other(e)].enabled /\ p.peer = policy[Other(e)]
         /\ p.kind = "app" => /\ Effective(Other(e)) # {} /\ p.under \in Effective(Other(e))
                              /\ p.version = p.under.version
<1>1. CASE p = Frame(Other(e)) /\ policy[Other(e)].enabled
  BY <1>1 DEF Frame
<1>2. ASSUME NEW c \in Effective(Other(e)), p = AppPacket(c) PROVE p.kind # "frame" /\ p.under = c /\ p.version = c.version
  BY <1>2, AppFields
<1> QED
  BY <1>1, <1>2 DEF PacketsTo

\* A frame: between enabled ends the compatibility it gives is the one the other end
\* computes, and after it the end has that or is gone.
LEMMA ReceiveFrameKeeps ==
  ASSUME NegotiationInv, NEW e \in Ends, ReceiveFrame(e)
  PROVE  NegotiationInv' /\ Steady
<1> USE DEF NegotiationInv
<1> DEFINE p == Head(wire[e])
<1>1. /\ p.kind = "frame" /\ Read(e, p) /\ policy' = policy
      /\ accepted' = accepted /\ pc' = pc
  BY DEF ReceiveFrame
<1>2. policy[e].enabled \in BOOLEAN
  BY PolicyTypes
<1>3. Steady
  BY <1>2 DEF ReceiveFrame, Steady, Freeze, NegotiationTypes
<1>4. p \in PacketsTo(e)
  BY <1>1, <1>3, ReadKeeps
<1>5. policy[Other(e)].enabled /\ p.peer = policy[Other(e)]
  BY <1>1, <1>4, PacketKinds
<1>6. Compatibility(policy[e], p.peer) = Result
  BY <1>5, ResultIs
<1>7. e = "client" \/ e = "server"
  BY DEF Ends
<1>8. SameView'
  BY <1>1, <1>3, Steadily DEF SameView
<1>9. CASE ~policy[e].enabled
  <2>1. UNCHANGED <<agreed, alive, result>>
    BY <1>9 DEF ReceiveFrame
  <2>2. ~BothEnabled
    BY <1>9, <1>7 DEF BothEnabled
  <2>3. NegotiationTypes'
    BY <1>1, <1>3, <2>1, ReadKeeps, Steadily DEF NegotiationTypes
  <2>4. FramesLead'
    BY <2>2, <1>3, Steadily DEF FramesLead
  <2>5. LegacyAllowed' /\ ClientKnows'
    BY <1>1, <2>1 DEF LegacyAllowed, ClientKnows, Effective
  <2> QED
    BY <1>3, <1>8, <2>3, <2>4, <2>5
<1>10. CASE policy[e].enabled
  <2>1. /\ agreed' = [agreed EXCEPT ![e] = Freeze(e, Result)]
        /\ IF Agrees(e, Result) THEN Notify(e, "nil") /\ UNCHANGED alive ELSE Break(e)
    BY <1>6, <1>10 DEF ReceiveFrame
  <2>2. BothEnabled
    BY <1>5, <1>7, <1>10, OtherEnd DEF BothEnabled
  <2>3. /\ agreed'[e] = Freeze(e, Result)
        /\ \A d \in Ends : d # e => agreed'[d] = agreed[d]
    BY <2>1 DEF NegotiationTypes
  <2>4. alive' \in [Ends -> BOOLEAN] /\ \A d \in Ends : d # e => alive'[d] = alive[d]
    BY <2>1 DEF NegotiationTypes, Break
  <2>5. \A c \in Result : c # Legacy
    BY <2>2, ResultIs
  <2>6. agreed'[e] = agreed[e] \/ agreed'[e] = Result
    BY <2>3 DEF Freeze
  <2>7. NegotiationTypes'
    <3>1. \A d \in Ends : agreed'[d] \in {{}, {Legacy}, Result} /\ (~policy[d].enabled => agreed'[d] = {})
      BY <2>3, <2>6, <1>10 DEF NegotiationTypes
    <3>2. DOMAIN wire' = Ends /\ \A d \in Ends : wire'[d] \in Seq(PacketsTo(d)')
      BY <1>1, <1>3, ReadKeeps
    <3>3. Result' = Result /\ policy' = policy /\ DOMAIN agreed' = Ends
      BY <1>3, Steadily DEF Steady
    <3> QED
      BY <3>1, <3>2, <3>3, <2>4 DEF NegotiationTypes
  <2>8. LegacyAllowed'
    BY <1>1, <2>3, <2>5, <2>6 DEF LegacyAllowed
  <2>10. Greeted(e)'
    <3>1. CASE Agrees(e, Result)
      <4>1. Result' = Result /\ Result # {} /\ agreed'[e] = Result
        BY <1>3, <2>3, <3>1, Steadily, SMT DEF Agrees, Freeze
      <4> QED
        BY <4>1 DEF Greeted
    <3>2. CASE ~Agrees(e, Result)
      BY <2>1, <3>2 DEF Break, Greeted, NegotiationTypes
    <3> QED
      BY <3>1, <3>2
  <2>11. \A d \in Ends : d # e => (Greeted(d)' <=> Greeted(d)) /\ (FrameNext(d)' <=> FrameNext(d))
    BY <1>1, <1>3, <2>3, <2>4, ReadKeeps, Steadily DEF Greeted
  <2>12. Falling' => Falling
    BY <1>1, <2>3, <2>5, <2>6 DEF Falling, Freeze, Ends
  <2>13. FramesLead'
    <3>1. agreed'["server"] \in {{}, Result}
      BY <2>2, <2>3, <2>6 DEF FramesLead, Ends
    <3>2. FrameNext("client")' \/ Greeted("client")'
      BY <2>2, <2>10, <2>11 DEF FramesLead, Ends
    <3>3. Falling' => FrameNext("server")' \/ Greeted("server")'
      BY <2>2, <2>10, <2>11, <2>12 DEF FramesLead, Ends
    <3>4. pc' = "send" => \A i \in 1..Len(wire'["server"]) : wire'["server"][i].kind = "app"
      BY <1>1, <1>3, <2>2, ReadKeeps DEF FramesLead
    <3> QED
      BY <1>3, <3>1, <3>2, <3>3, <3>4, Steadily DEF FramesLead
  <2>14. ClientKnows'
    <3>1. policy["client"].enabled /\ result' = "nil" => agreed'["client"] # {}
      <4>1. CASE e = "client" /\ Agrees(e, Result)
        BY <2>3, <4>1 DEF Agrees, Freeze
      <4>2. CASE ~(e = "client" /\ Agrees(e, Result))
        <5>1. result' = "nil" => result = "nil"
          BY <2>1, <4>2 DEF Break, Notify
        <5> QED
          BY <5>1, <1>3 DEF ClientKnows, Steady, Ends
      <4> QED
        BY <4>1, <4>2
    <3>2. Effective("client") # {} => Effective("client")' # {}
      BY <1>3, Steadily DEF Ends
    <3> QED
      BY <1>1, <3>1, <3>2 DEF ClientKnows
  <2> QED
    BY <1>3, <1>8, <2>7, <2>8, <2>13, <2>14
<1> QED
  BY <1>2, <1>9, <1>10

\* A packet that passes the check was sent under the compatibility the receiver has, or
\* gets with it: a legacy packet of an enabled client is behind that client's frame.
LEMMA PassingAgrees ==
  ASSUME NegotiationInv, NEW e \in Ends, alive[e], wire[e] # <<>>, NEW p, p = Head(wire[e]),
         p.kind = "app", p \in PacketsTo(e), Passes(e, p.version)
  PROVE  /\ Effective(Other(e)) = {p.under}
         /\ ~policy[e].enabled => p.under = Legacy
         /\ policy[e].enabled => /\ Freeze(e, {Legacy}) = {p.under}
                                 /\ agreed[e] = {} => ~BothEnabled /\ policy[e].acceptLegacy
<1> USE DEF NegotiationInv
<1> DEFINE o == Other(e)
<1>1. Effective(o) # {} /\ p.under \in Effective(o) /\ p.version = p.under.version
  BY PacketKinds
<1>2. o \in Ends /\ Other(o) = e /\ o # e
  BY OtherEnd
<1>3. policy[e].enabled \in BOOLEAN /\ policy[o].enabled \in BOOLEAN /\ policy[e] \in Policies
  BY <1>2, PolicyTypes
<1>4. /\ agreed[e] \in {{}, {Legacy}, Result} /\ agreed[o] \in {{}, {Legacy}, Result}
      /\ (Effective(o) = IF policy[o].enabled THEN agreed[o] ELSE {Legacy})
  BY <1>2 DEF NegotiationTypes, Effective
<1>5. BothEnabled <=> policy[e].enabled /\ policy[o].enabled
  BY <1>2 DEF BothEnabled, Ends
<1>6. ~FrameNext(e)
  BY DEF FrameNext
<1> HIDE DEF o
<1>7. policy[e].enabled => /\ agreed[e] = {} => p.version = 0 /\ policy[e].acceptLegacy
                           /\ agreed[e] # {} => \E c \in agreed[e] : c.version = p.version
  BY <1>3, WithoutFrame DEF Passes, Agrees
<1>8. CASE ~BothEnabled
  <2>1. Result \in {{}, {Legacy}}
    BY <1>8, ResultIs
  <2>2. Effective(o) = {Legacy}
    BY <1>1, <1>4, <2>1
  <2>3. Freeze(e, {Legacy}) = {Legacy}
    BY <1>4, <2>1 DEF Freeze
  <2> QED
    BY <1>1, <1>7, <1>8, <2>2, <2>3 DEF o
<1>9. CASE BothEnabled
  <2>1. Effective(o) = agreed[o] /\ policy[e].enabled
    BY <1>4, <1>5, <1>9
  <2>2. \A c \in Result : c.version # 0
    BY <1>9, ResultIs
  <2>3. PICK c : Result = {} \/ Result = {c}
    BY ResultIs
  <2>4. agreed[e] = Result /\ Result # {}
    <3>1. CASE e = "client"
      BY <1>6, <1>9, <3>1 DEF FramesLead, Greeted
    <3>2. CASE e = "server"
      <4>1. o = "client"
        BY <3>2, OtherEnd DEF o
      <4>2. agreed[e] \in {{}, Result}
        BY <1>9, <3>2 DEF FramesLead
      <4>3. ASSUME agreed[e] = {} PROVE FALSE
        <5>1. p.under.version = 0
          BY <1>1, <1>7, <2>1, <4>3
        <5>2. agreed[o] = {Legacy}
          BY <1>1, <1>4, <2>1, <2>2, <5>1
        <5>3. FrameNext(e) \/ Greeted(e)
          BY <1>9, <3>2, <4>1, <5>2 DEF FramesLead, Falling
        <5> QED
          BY <1>6, <4>3, <5>3 DEF Greeted
      <4> QED
        BY <4>2, <4>3
    <3> QED
      BY <3>1, <3>2 DEF Ends
  <2>5. Result = {c} /\ c.version = p.version /\ c.version # 0
    BY <1>7, <2>1, <2>2, <2>3, <2>4
  <2>6. agreed[o] = Result
    BY <1>1, <1>4, <2>1, <2>5, LegacyVersion
  <2>7. p.under = c /\ Effective(o) = {c} /\ agreed[e] = {c}
    BY <1>1, <2>1, <2>4, <2>5, <2>6
  <2>8. Freeze(e, {Legacy}) = {c} /\ agreed[e] # {}
    BY <2>7 DEF Freeze
  <2> QED
    BY <2>1, <2>7, <2>8 DEF o
<1> QED
  BY <1>8, <1>9

LEMMA ReceiveAppKeeps ==
  ASSUME NegotiationInv, NEW e \in Ends, ReceiveApp(e)
  PROVE  NegotiationInv' /\ Steady
<1> USE DEF NegotiationInv
<1> DEFINE p == Head(wire[e])
<1>1. wire[e] # <<>> /\ p.kind = "app" /\ Read(e, p) /\ alive[e] /\ policy' = policy /\ pc' = pc
  BY DEF ReceiveApp, Read
<1>2. policy[e].enabled \in BOOLEAN
  BY PolicyTypes
<1>3. IF Passes(e, p.version)
      THEN /\ agreed' = [agreed EXCEPT ![e] = IF policy[e].enabled THEN Freeze(e, {Legacy}) ELSE @]
           /\ accepted' = accepted \cup {[to |-> e, under |-> p.under]}
           /\ Notify(e, IF policy[e].enabled THEN "nil" ELSE "none") /\ UNCHANGED alive
      ELSE Break(e) /\ UNCHANGED <<agreed, accepted>>
  BY DEF ReceiveApp
<1>4. Steady
  BY <1>1, <1>2, <1>3 DEF Steady, Freeze, NegotiationTypes
<1>5. /\ p \in PacketsTo(e) /\ DOMAIN wire' = Ends
      /\ \A d \in Ends : wire'[d] \in Seq(PacketsTo(d)')
      /\ \A d \in Ends : d # e => (FrameNext(d)' <=> FrameNext(d))
  BY <1>1, <1>4, ReadKeeps
<1>6. Result' = Result /\ (BothEnabled' <=> BothEnabled) /\ DOMAIN agreed' = Ends
  BY <1>4, Steadily DEF Steady
<1>7. BothEnabled =>
        (pc' = "send" => \A i \in 1..Len(wire'["server"]) : wire'["server"][i].kind = "app")
  BY <1>1, <1>4, ReadKeeps DEF FramesLead
<1>8. Effective("client") # {} => Effective("client")' # {}
  BY <1>4, Steadily DEF Ends
<1> HIDE DEF p
<1>9. CASE ~Passes(e, p.version)
  <2>1. UNCHANGED <<agreed, accepted>> /\ Break(e)
    BY <1>3, <1>9
  <2>2. alive' \in [Ends -> BOOLEAN] /\ ~alive'[e] /\ \A d \in Ends : d # e => alive'[d] = alive[d]
    BY <2>1 DEF NegotiationTypes, Break
  <2>3. NegotiationTypes'
    BY <1>1, <1>5, <1>6, <2>1, <2>2 DEF NegotiationTypes
  <2>4. Greeted(e)' /\ \A d \in Ends : d # e => (Greeted(d)' <=> Greeted(d))
    BY <1>6, <2>1, <2>2 DEF Greeted
  <2>5. Falling' <=> Falling
    BY <1>1, <2>1 DEF Falling
  <2>6. FramesLead'
    BY <1>5, <1>6, <1>7, <2>1, <2>4, <2>5 DEF FramesLead, Ends
  <2>7. result' = "nil" => result = "nil"
    BY <2>1 DEF Break, Notify
  <2>8. LegacyAllowed' /\ ClientKnows'
    BY <1>1, <2>1, <2>7 DEF LegacyAllowed, ClientKnows, Effective
  <2>9. SameView'
    BY <1>4, <2>1, Steadily DEF SameView
  <2> QED
    BY <1>4, <2>3, <2>6, <2>8, <2>9
<1>10. CASE Passes(e, p.version)
  <2>1. /\ agreed' = [agreed EXCEPT ![e] = IF policy[e].enabled THEN Freeze(e, {Legacy}) ELSE @]
        /\ accepted' = accepted \cup {[to |-> e, under |-> p.under]}
        /\ Notify(e, IF policy[e].enabled THEN "nil" ELSE "none") /\ alive' = alive
    BY <1>3, <1>10
  <2>2. /\ Effective(Other(e)) = {p.under}
        /\ ~policy[e].enabled => p.under = Legacy
        /\ policy[e].enabled => /\ Freeze(e, {Legacy}) = {p.under}
                                /\ agreed[e] = {} => ~BothEnabled /\ policy[e].acceptLegacy
    BY <1>1, <1>5, <1>10, PassingAgrees DEF p
  <2>3. /\ agreed'[e] = IF policy[e].enabled THEN {p.under} ELSE agreed[e]
        /\ \A d \in Ends : d # e => agreed'[d] = agreed[d]
    BY <2>1, <2>2 DEF NegotiationTypes
  <2>4. agreed'[e] = agreed[e] \/ (agreed'[e] = {Legacy} /\ policy[e].enabled /\ agreed[e] = {})
    BY <2>2, <2>3 DEF Freeze
  <2>5. NegotiationTypes'
    <3>1. \A d \in Ends : agreed'[d] \in {{}, {Legacy}, Result} /\ (~policy[d].enabled => agreed'[d] = {})
      BY <2>3, <2>4 DEF NegotiationTypes
    <3> QED
      BY <1>1, <1>5, <1>6, <2>1, <3>1 DEF NegotiationTypes
  <2>6. LegacyAllowed'
    BY <1>1, <2>2, <2>3, <2>4 DEF LegacyAllowed
  <2>7. FramesLead'
    <3> SUFFICES ASSUME BothEnabled PROVE FramesLead'
      BY <1>6 DEF FramesLead
    <3>1. \A d \in Ends : agreed'[d] = agreed[d]
      BY <2>2, <2>3, <2>4
    <3>2. \A d \in Ends : Greeted(d)' <=> Greeted(d)
      BY <1>6, <2>1, <3>1 DEF Greeted
    <3>3. Falling' <=> Falling
      BY <1>1, <3>1 DEF Falling, Ends
    <3>4. ~FrameNext(e)
      BY <1>1 DEF FrameNext, p
    <3> QED
      BY <1>5, <1>6, <1>7, <3>1, <3>2, <3>3, <3>4 DEF FramesLead, Ends
  <2>8. SameView'
    <3>1. ASSUME NEW a, a = [to |-> e, under |-> p.under] PROVE AcceptedUnder(a)'
      <4>1. a.to = e /\ a.under = p.under
        BY <3>1
      <4>2. Effective(e)' = {p.under}
        BY <1>1, <2>2, <2>3 DEF Effective
      <4>3. Effective(Other(e))' = {p.under}
        BY <1>4, <2>2, OtherEnd, Steadily
      <4> QED
        BY <4>1, <4>2, <4>3 DEF AcceptedUnder
    <3>2. ASSUME NEW a \in accepted PROVE AcceptedUnder(a)'
      BY <1>4, <3>2, Steadily DEF SameView
    <3> QED
      BY <2>1, <3>1, <3>2 DEF SameView
  <2>9. ClientKnows'
    <3>1. policy["client"].enabled /\ result' = "nil" => agreed'["client"] # {}
      <4>1. CASE e = "client"
        BY <2>3, <4>1
      <4>2. CASE e # "client"
        BY <2>1, <2>3, <4>2 DEF ClientKnows, Notify, Ends
      <4> QED
        BY <4>1, <4>2
    <3> QED
      BY <1>1, <1>8, <3>1 DEF ClientKnows
  <2> QED
    BY <1>4, <2>5, <2>6, <2>7, <2>8, <2>9
<1> QED
  BY <1>9, <1>10

\* Steps that move negotiateProtocol or end a receive loop and touch no packet
LEMMA QuietKeeps ==
  ASSUME NegotiationInv, UNCHANGED <<policy, agreed, wire, accepted>>,
         alive' \in [Ends -> BOOLEAN], \A e \in Ends : alive'[e] => alive[e],
         pc' = pc \/ pc' \in {"connected", "failed"} \/ (pc = "wait" /\ pc' = "fallback"),
         result' = "nil" => result = "nil", pc' = "connected" => Effective("client") # {}
  PROVE  NegotiationInv' /\ Steady
<1> USE DEF NegotiationInv
<1>1. Steady
  BY DEF Steady, NegotiationTypes
<1>2. NegotiationTypes'
  BY DEF NegotiationTypes, PacketsTo, Effective, Frame, Result
<1>3. LegacyAllowed' /\ ClientKnows'
  BY DEF LegacyAllowed, ClientKnows, Effective
<1>4. SameView'
  BY <1>1, Steadily DEF SameView
<1>5. \A e \in Ends : (Greeted(e) => Greeted(e)') /\ (FrameNext(e)' <=> FrameNext(e))
  BY DEF Greeted, FrameNext, Result
<1>6. Falling' => Falling
  BY DEF Falling
<1>7. FramesLead'
  BY <1>1, <1>5, <1>6, Steadily DEF FramesLead, Ends
<1> QED
  BY <1>1, <1>2, <1>3, <1>4, <1>7

LEMMA ReturnsQuietly ==
  ASSUME NegotiationTypes, NEW ok \in BOOLEAN, Returns(ok)
  PROVE  /\ alive' \in [Ends -> BOOLEAN] /\ \A e \in Ends : alive'[e] => alive[e]
         /\ pc' \in {"connected", "failed"} /\ (pc' = "connected" => ok)
BY DEF Returns, NegotiationTypes

LEMMA NegotiateSendKeeps == NegotiationInv /\ NegotiateSend => NegotiationInv' /\ Steady
<1> SUFFICES ASSUME NegotiationInv, NegotiateSend PROVE NegotiationInv' /\ Steady
  OBVIOUS
<1> USE DEF NegotiationInv
<1>1. CASE Returns(FALSE) /\ UNCHANGED wire
  <2>1. UNCHANGED <<policy, agreed, wire, accepted, result>>
    BY <1>1 DEF NegotiateSend
  <2> QED
    BY <1>1, <2>1, ReturnsQuietly, QuietKeeps
<1>2. CASE /\ wire' = [wire EXCEPT !["server"] = Append(@, Frame("client"))]
           /\ pc' = "wait" /\ UNCHANGED alive
  <2>1. UNCHANGED <<policy, agreed, alive, accepted, result>> /\ pc = "send"
    BY <1>2 DEF NegotiateSend
  <2>2. Steady
    BY <2>1 DEF Steady, NegotiationTypes
  <2>3. /\ Result' = Result /\ (BothEnabled' <=> BothEnabled) /\ DOMAIN agreed' = Ends
        /\ \A d \in Ends : Seq(PacketsTo(d)) \subseteq Seq(PacketsTo(d)')
    BY <2>2, Steadily DEF Steady
  <2>4. policy["client"].enabled /\ "client" \in Ends /\ "server" \in Ends
    BY <2>1 DEF ClientKnows, Ends
  <2> DEFINE s == wire["server"]
             x == Frame("client")
             t == wire'["server"]
             S == PacketsTo("server")
  <2>5. DOMAIN wire' = Ends /\ t = Append(s, x) /\ wire'["client"] = wire["client"]
    BY <1>2, <2>4 DEF NegotiationTypes
  <2>6. s \in Seq(S) /\ x \in S /\ x.kind = "frame"
    BY <2>4, OtherEnd DEF NegotiationTypes, PacketsTo, Frame
  <2>7. ASSUME agreed["client"] = {}, NEW y \in S PROVE y.kind = "frame"
    <3>1. Effective(Other("server")) = {}
      BY <2>4, <2>7, OtherEnd DEF Effective
    <3>2. y = x
      BY <3>1, OtherEnd DEF PacketsTo
    <3> QED
      BY <3>2, <2>6
  <2> HIDE DEF s, x, t, S
  <2>8. t \in Seq(S) /\ t # <<>> /\ Head(t) = IF s = <<>> THEN x ELSE Head(s)
    BY <2>5, <2>6, AppendAt, Appended
  <2>9. NegotiationTypes'
    <3>1. \A d \in Ends : wire'[d] \in Seq(PacketsTo(d))
      BY <2>5, <2>8 DEF NegotiationTypes, Ends, t, S
    <3> QED
      BY <2>1, <2>3, <2>5, <3>1 DEF NegotiationTypes
  <2>10. LegacyAllowed' /\ ClientKnows'
    BY <2>1, <2>4, <1>2 DEF LegacyAllowed, ClientKnows, Effective
  <2>11. SameView'
    BY <2>1, <2>2, Steadily DEF SameView
  <2>12. ASSUME BothEnabled, agreed["client"] = {} PROVE FrameNext("server")'
    <3>1. \A i \in 1..Len(s) : s[i].kind = "app"
      BY <2>1, <2>12 DEF FramesLead, s
    <3>2. ASSUME s # <<>> PROVE FALSE
      <4>1. Head(s) \in S /\ 1 \in 1..Len(s) /\ Head(s) = s[1]
        BY <2>6, <3>2, TailAt
      <4> QED
        BY <2>7, <2>12, <3>1, <4>1
    <3>3. t # <<>> /\ Head(t) = x
      BY <2>8, <3>2
    <3> QED
      BY <2>6, <3>3 DEF FrameNext, t
  <2>13. FrameNext("server") => FrameNext("server")'
    <3>1. s # <<>> => t # <<>> /\ Head(t) = Head(s)
      BY <2>8
    <3> QED
      BY <3>1 DEF FrameNext, s, t
  <2>14. /\ FrameNext("client")' <=> FrameNext("client")
         /\ Greeted("client")' <=> Greeted("client")
         /\ Greeted("server")' <=> Greeted("server")
    BY <2>1, <2>3, <2>5 DEF FrameNext, Greeted
  <2>15. Falling' => agreed["client"] = {} \/ agreed["client"] = {Legacy}
    BY <2>1 DEF Falling
  <2>16. agreed["client"] = {Legacy} => Falling
    BY DEF Falling
  <2>17. FramesLead'
    BY <1>2, <2>1, <2>3, <2>12, <2>13, <2>14, <2>15, <2>16 DEF FramesLead
  <2> QED
    BY <2>2, <2>9, <2>10, <2>11, <2>17
<1> QED
  BY <1>1, <1>2 DEF NegotiateSend

LEMMA NegotiateResultKeeps == NegotiationInv /\ NegotiateResult => NegotiationInv' /\ Steady
<1> SUFFICES ASSUME NegotiationInv, NegotiateResult PROVE NegotiationInv' /\ Steady
  OBVIOUS
<1> USE DEF NegotiationInv
<1>1. /\ UNCHANGED <<policy, agreed, wire, accepted>> /\ result' = "taken"
      /\ Returns(result = "nil") /\ pc = "wait"
  BY DEF NegotiateResult
<1>2. result = "nil" => Effective("client") # {}
  BY <1>1 DEF ClientKnows, Effective
<1> QED
  BY <1>1, <1>2, ReturnsQuietly, QuietKeeps

LEMMA NegotiateTimeoutKeeps == NegotiationInv /\ NegotiateTimeout => NegotiationInv' /\ Steady
<1> SUFFICES ASSUME NegotiationInv, NegotiateTimeout PROVE NegotiationInv' /\ Steady
  OBVIOUS
<1> USE DEF NegotiationInv
<1>1. UNCHANGED <<policy, agreed, wire, accepted, result>> /\ pc = "wait"
  BY DEF NegotiateTimeout
<1>2. CASE Returns(FALSE)
  BY <1>1, <1>2, ReturnsQuietly, QuietKeeps
<1>3. CASE agreed["client"] # {} /\ Returns(TRUE)
  <2>1. Effective("client") # {}
    BY <1>3 DEF Effective
  <2> QED
    BY <1>1, <1>3, <2>1, ReturnsQuietly, QuietKeeps
<1>4. CASE pc' = "fallback" /\ UNCHANGED alive
  BY <1>1, <1>4, QuietKeeps DEF NegotiationTypes
<1> QED
  BY <1>2, <1>3, <1>4 DEF NegotiateTimeout

LEMMA ReadErrorKeeps ==
  ASSUME NegotiationInv, NEW e \in Ends, ReadError(e)
  PROVE  NegotiationInv' /\ Steady
<1> USE DEF NegotiationInv
<1>1. UNCHANGED <<policy, agreed, wire, accepted, pc>> /\ Break(e)
  BY DEF ReadError
<1>2. /\ alive' \in [Ends -> BOOLEAN] /\ \A d \in Ends : alive'[d] => alive[d]
      /\ result' = "nil" => result = "nil"
  BY <1>1 DEF Break, Notify, NegotiationTypes
<1> QED
  BY <1>1, <1>2, QuietKeeps DEF ClientKnows

\* The timer is first: the frame is on its way or has done its work.
LEMMA NegotiateFallbackKeeps == NegotiationInv /\ NegotiateFallback => NegotiationInv' /\ Steady
<1> SUFFICES ASSUME NegotiationInv, NegotiateFallback PROVE NegotiationInv' /\ Steady
  OBVIOUS
<1> USE DEF NegotiationInv
<1>1. /\ pc = "fallback" /\ UNCHANGED <<policy, wire, accepted, result>>
      /\ agreed' = [agreed EXCEPT !["client"] = Freeze("client", Compatibility(policy["client"], Disabled))]
      /\ Returns(agreed'["client"] # {})
  BY DEF NegotiateFallback
<1>2. "client" \in Ends /\ policy["client"].enabled /\ policy["client"] \in Policies
  BY <1>1, PolicyTypes DEF ClientKnows, Ends
<1>3. /\ agreed'["client"] = Freeze("client", Compatibility(policy["client"], Disabled))
      /\ DOMAIN agreed' = Ends /\ \A d \in Ends : d # "client" => agreed'[d] = agreed[d]
  BY <1>1, <1>2 DEF NegotiationTypes
<1>4. \/ agreed'["client"] = agreed["client"]
      \/ agreed["client"] = {} /\ agreed'["client"] = {Legacy} /\ policy["client"].acceptLegacy
  BY <1>2, <1>3, WithoutFrame DEF Freeze
<1>5. Steady
  BY <1>1, <1>3, <1>4 DEF Steady
<1>6. /\ Result' = Result /\ (BothEnabled' <=> BothEnabled)
      /\ \A d \in Ends : Seq(PacketsTo(d)) \subseteq Seq(PacketsTo(d)')
  BY <1>5, Steadily
<1>7. /\ alive' \in [Ends -> BOOLEAN] /\ \A e \in Ends : alive'[e] => alive[e]
      /\ pc' \in {"connected", "failed"} /\ (pc' = "connected" => agreed'["client"] # {})
  BY <1>1, ReturnsQuietly
<1>8. NegotiationTypes'
  <2>1. \A d \in Ends : agreed'[d] \in {{}, {Legacy}, Result} /\ (~policy[d].enabled => agreed'[d] = {})
    BY <1>2, <1>3, <1>4 DEF NegotiationTypes
  <2>2. \A d \in Ends : wire'[d] \in Seq(PacketsTo(d)')
    BY <1>1, <1>6 DEF NegotiationTypes
  <2> QED
    BY <1>1, <1>3, <1>6, <1>7, <2>1, <2>2 DEF NegotiationTypes
<1>9. LegacyAllowed'
  BY <1>1, <1>2, <1>3, <1>4 DEF LegacyAllowed
<1>10. SameView'
  BY <1>1, <1>5, Steadily DEF SameView
<1>11. ClientKnows'
  BY <1>1, <1>2, <1>4, <1>7 DEF ClientKnows, Effective
<1>12. Falling' => Falling
  BY <1>1, <1>4, <1>7 DEF Falling
<1>13. \A e \in Ends : FrameNext(e)' <=> FrameNext(e)
  BY <1>1 DEF FrameNext
<1>14. \A e \in Ends : Greeted(e) => Greeted(e)'
  <2>1. \A e \in Ends : agreed[e] # {} => agreed'[e] = agreed[e]
    BY <1>5 DEF Steady
  <2> QED
    BY <1>6, <1>7, <2>1 DEF Greeted
<1>15. FramesLead'
  <2>1. agreed'["server"] = agreed["server"] /\ "server" \in Ends /\ pc' # "send"
    BY <1>3, <1>7 DEF Ends
  <2> QED
    BY <1>2, <1>6, <1>12, <1>13, <1>14, <2>1 DEF FramesLead
<1> QED
  BY <1>5, <1>8, <1>9, <1>10, <1>11, <1>15

LEMMA NegotiationStep == NegotiationInv /\ [NegotiationNext]_negotiationVars => NegotiationInv' /\ Steady
<1> SUFFICES ASSUME NegotiationInv, [NegotiationNext]_negotiationVars PROVE NegotiationInv' /\ Steady
  OBVIOUS
<1>1. CASE UNCHANGED negotiationVars
  <2>1. UNCHANGED <<policy, agreed, wire, alive, accepted, result, pc>>
    BY <1>1 DEF negotiationVars
  <2> QED
    BY <2>1, QuietKeeps DEF NegotiationInv, NegotiationTypes, ClientKnows
<1>2. CASE NegotiationNext
  BY <1>2, NegotiateSendKeeps, NegotiateResultKeeps, NegotiateTimeoutKeeps, NegotiateFallbackKeeps,
     SendAppKeeps, ReceiveFrameKeeps, ReceiveAppKeeps, ReadErrorKeeps DEF NegotiationNext
<1> QED
  BY <1>1, <1>2

LEMMA NegotiationAgrees == NegotiationInv => Agreement
<1> SUFFICES ASSUME NegotiationInv PROVE Agreement
  OBVIOUS
<1> USE DEF NegotiationInv
<1>1. ASSUME NEW e \in Ends, NEW c \in agreed[e], c # Legacy
      PROVE  /\ \A o \in Ends : Offered(o, c.version)
             /\ ~ \E v \in (c.version + 1) .. policy[e].max : \A o \in Ends : Offered(o, v)
  <2>1. c \in Result
    BY <1>1 DEF NegotiationTypes
  <2>2. BothEnabled
    BY <1>1, <2>1, ResultIs
  <2>3. /\ \A o \in Ends : policy[o].enabled /\ c.version \in policy[o].min .. policy[o].max
        /\ \A v \in Nat : v > c.version => \E o \in Ends : v > policy[o].max
    BY <2>1, <2>2, ResultIs DEF BothEnabled, Ends
  <2>4. \A o \in Ends : policy[o].min \in Nat /\ policy[o].max \in Nat
    BY PolicyTypes, PoliciesAssumption
  <2>5. c.version \in Nat
    BY <2>3, <2>4, SMT DEF Ends
  <2>6. ASSUME NEW v \in (c.version + 1) .. policy[e].max, \A o \in Ends : Offered(o, v) PROVE FALSE
    <3>1. v \in Nat /\ v > c.version
      BY <2>4, <2>5, SMT
    <3>2. PICK o \in Ends : v > policy[o].max
      BY <2>3, <3>1
    <3>3. v \in policy[o].min .. policy[o].max
      BY <2>6, <3>2 DEF Offered
    <3> QED
      BY <2>4, <3>1, <3>2, <3>3, SMT
  <2> QED
    BY <2>3, <2>6 DEF Offered
<1>2. \A e \in Ends : \A c \in agreed[e] : c = Legacy => \E o \in Ends : policy[o].acceptLegacy
  BY DEF LegacyAllowed
<1> QED
  BY <1>1, <1>2 DEF Agreement, SameView, AcceptedUnder, ClientKnows

\* Whatever policies the ends are configured with, and whatever the order of frames,
\* packets, errors and the client's timer: a packet passes the check only where both ends
\* work with one compatibility, that is the best both offer or an accepted legacy one, and
\* neither end ever changes it (ValidateInboundPacketVersion, AcceptProtocolNegotiation,
\* negotiateProtocol).
THEOREM SessionsAgree == NegotiationSpec => SessionAgreed
<1>1. NegotiationInit => NegotiationInv
  BY NegotiationTypesInit
<1>2. NegotiationInv /\ [NegotiationNext]_negotiationVars => NegotiationInv'
  BY NegotiationStep
<1>3. NegotiationInv /\ NegotiationInv' /\ [NegotiationNext]_negotiationVars => [StaysAgreed]_negotiationVars
  <2>1. NegotiationInv' => Agreement'
    BY NegotiationAgrees, PTL
  <2> QED
    BY <2>1, NegotiationStep DEF StaysAgreed, Steady
<1> QED
  BY <1>1, <1>2, <1>3, PTL DEF NegotiationSpec, SessionAgreed
=============================================================================
