------------------------- MODULE SelectorPacksProofs -------------------------
(***************************************************************************)
(* A tab at rest has the packs the agent was told of, for any tabs, any    *)
(* finite set of names, any functions and numbers of calls and loads.      *)
(***************************************************************************)
EXTENDS SelectorPacks, SequenceTheorems, FiniteSetTheorems, TLAPS

\* What is left of a sequence without one of its members.
Cut(s, i) == SubSeq(s, 1, i - 1) \o SubSeq(s, i + 1, Len(s))

LEMMA WithoutOne ==
    ASSUME NEW S, NEW s \in Seq(S), NEW i \in DOMAIN s, NEW r,
           r = Cut(s, i)
    PROVE  /\ r \in Seq(S) /\ DOMAIN r = 1..(Len(s) - 1)
           /\ \A k \in DOMAIN r : r[k] = IF k < i THEN s[k] ELSE s[k + 1]
<1> DEFINE n == Len(s)
           front == SubSeq(s, 1, i - 1)
           back == SubSeq(s, i + 1, n)
<1>1. n \in Nat /\ i \in 1..n /\ DOMAIN s = 1..n
  BY LenProperties
<1>2. \A k \in 1..n : s[k] \in S
  BY ElementOfSeq
<1>3. r = front \o back
  BY DEF Cut
<1> HIDE DEF n
<1>4. front \in Seq(S) /\ Len(front) = i - 1 /\ \A k \in 1..(i - 1) : front[k] = s[k]
  <2>1. \A k \in 1..(i - 1) : s[k] \in S
    BY <1>1, <1>2
  <2>2. 1 \in Int /\ i - 1 \in Int
    BY <1>1
  <2>3. /\ front \in Seq(S) /\ Len(front) = IF 1 <= i - 1 THEN (i - 1) - 1 + 1 ELSE 0
        /\ \A k \in 1..((i - 1) - 1 + 1) : front[k] = s[1 + k - 1]
    BY <2>1, <2>2, SubSeqProperties
  <2> HIDE DEF front
  <2>4. (i - 1) - 1 + 1 = i - 1 /\ (IF 1 <= i - 1 THEN (i - 1) - 1 + 1 ELSE 0) = i - 1
    BY <1>1
  <2>5. \A k \in 1..(i - 1) : 1 + k - 1 = k
    BY <1>1
  <2> QED BY <2>3, <2>4, <2>5
<1>5. back \in Seq(S) /\ Len(back) = n - i /\ \A k \in 1..(n - i) : back[k] = s[i + k]
  <2>1. \A k \in (i + 1)..n : s[k] \in S
    BY <1>1, <1>2
  <2>2. i + 1 \in Int /\ n \in Int
    BY <1>1
  <2>3. /\ back \in Seq(S) /\ Len(back) = IF i + 1 <= n THEN n - (i + 1) + 1 ELSE 0
        /\ \A k \in 1..(n - (i + 1) + 1) : back[k] = s[(i + 1) + k - 1]
    BY <2>1, <2>2, SubSeqProperties
  <2> HIDE DEF back
  <2>4. n - (i + 1) + 1 = n - i /\ (IF i + 1 <= n THEN n - (i + 1) + 1 ELSE 0) = n - i
    BY <1>1
  <2>5. \A k \in 1..(n - i) : (i + 1) + k - 1 = i + k
    BY <1>1
  <2> QED BY <2>3, <2>4, <2>5
<1> HIDE DEF front, back
<1>6. r \in Seq(S) /\ Len(r) = n - 1
      /\ \A k \in 1..(n - 1) : r[k] = IF k <= i - 1 THEN front[k] ELSE back[k - (i - 1)]
  <2>1. /\ front \o back \in Seq(S) /\ Len(front \o back) = Len(front) + Len(back)
        /\ \A k \in 1..(Len(front) + Len(back)) : (front \o back)[k] = IF k <= Len(front) THEN front[k] ELSE back[k - Len(front)]
    BY <1>4, <1>5, ConcatProperties, Zenon
  <2>2. (i - 1) + (n - i) = n - 1
    BY <1>1
  <2> QED BY <1>3, <1>4, <1>5, <2>1, <2>2
<1>7. DOMAIN r = 1..(n - 1)
  BY <1>6, LenProperties
<1>8. ASSUME NEW k \in 1..(n - 1) PROVE r[k] = IF k < i THEN s[k] ELSE s[k + 1]
  <2>1. CASE k < i
    <3>1. k \in 1..(i - 1) /\ k <= i - 1
      BY <1>1, <2>1
    <3> QED BY <1>4, <1>6, <2>1, <3>1
  <2>2. CASE ~(k < i)
    <3>1. k - (i - 1) \in 1..(n - i) /\ i + (k - (i - 1)) = k + 1 /\ ~(k <= i - 1)
      BY <1>1, <2>2
    <3> QED BY <1>5, <1>6, <2>2, <3>1
  <2> QED BY <2>1, <2>2
<1> QED BY <1>6, <1>7, <1>8 DEF n

\* How a step changes the requests: d of them are served, and what is new comes last.
Shifts(d, N) ==
    /\ \A i \in DOMAIN requests' :
          \/ i + d \in DOMAIN requests /\ requests'[i] = requests[i + d]
          \/ requests'[i] \in N /\ \A j \in DOMAIN requests' : j <= i
    /\ \A i \in DOMAIN requests : i > d => i - d \in DOMAIN requests' /\ requests'[i - d] = requests[i]
    /\ \A r \in N : \E i \in DOMAIN requests' : requests'[i] = r
    /\ DOMAIN requests \subseteq Nat \ {0} /\ DOMAIN requests' \subseteq Nat \ {0}

LEMMA Queue ==
    ASSUME NEW R, NEW s \in Seq(R)
    PROVE  /\ Len(s) \in Nat /\ DOMAIN s = 1..Len(s) /\ \A i \in 1..Len(s) : s[i] \in R
           /\ s # <<>> => Len(s) # 0 /\ Head(s) = s[1] /\ Head(s) \in R
<1>1. Len(s) \in Nat /\ DOMAIN s = 1..Len(s) /\ \A i \in 1..Len(s) : s[i] \in R
  BY LenProperties, ElementOfSeq
<1>2. s # <<>> => Len(s) # 0 /\ Head(s) = s[1]
  BY EmptySeq, HeadTailProperties
<1> QED BY <1>1, <1>2

LEMMA Stays ==
    ASSUME PacksInv, requests' = requests
    PROVE  Shifts(0, {}) /\ requests' \in Seq(Requests)
<1>1. requests \in Seq(Requests)
  BY DEF PacksInv, PacksTypes
<1>2. Len(requests) \in Nat /\ DOMAIN requests = 1..Len(requests)
  BY <1>1, Queue
<1> QED BY <1>1, <1>2 DEF Shifts

LEMMA Comes1 ==
    ASSUME PacksInv, NEW r \in Requests, requests' = Append(requests, r)
    PROVE  Shifts(0, {r}) /\ requests' \in Seq(Requests)
<1>1. requests \in Seq(Requests)
  BY DEF PacksInv, PacksTypes
<1>2. Len(requests) \in Nat /\ DOMAIN requests = 1..Len(requests)
  BY <1>1, Queue
<1>3. /\ requests' \in Seq(Requests) /\ Len(requests') = Len(requests) + 1
      /\ \A i \in 1..Len(requests) : requests'[i] = requests[i]
      /\ requests'[Len(requests) + 1] = r
  BY <1>1, AppendProperties
<1>4. DOMAIN requests' = 1..(Len(requests) + 1)
  BY <1>3, Queue
<1> QED BY <1>2, <1>3, <1>4 DEF Shifts

LEMMA Served ==
    ASSUME PacksInv, requests # <<>>, requests' = Tail(requests)
    PROVE  /\ Shifts(1, {}) /\ requests' \in Seq(Requests)
           /\ 1 \in DOMAIN requests /\ Head(requests) = requests[1] /\ Head(requests) \in Requests
<1>1. requests \in Seq(Requests)
  BY DEF PacksInv, PacksTypes
<1>2. /\ Len(requests) \in Nat \ {0} /\ DOMAIN requests = 1..Len(requests)
      /\ Head(requests) = requests[1] /\ Head(requests) \in Requests
  BY <1>1, Queue
<1>3. /\ requests' \in Seq(Requests) /\ Len(requests') = Len(requests) - 1
      /\ \A i \in 1..(Len(requests) - 1) : requests'[i] = requests[i + 1]
  BY <1>1, HeadTailProperties
<1>4. DOMAIN requests' = 1..(Len(requests) - 1)
  BY <1>3, Queue
<1> QED BY <1>2, <1>3, <1>4 DEF Shifts

LEMMA TailAppended ==
    ASSUME NEW R, NEW s \in Seq(R), s # <<>>, NEW r \in R
    PROVE  /\ Append(Tail(s), r) \in Seq(R) /\ DOMAIN Append(Tail(s), r) = 1..Len(s)
           /\ \A i \in 1..(Len(s) - 1) : Append(Tail(s), r)[i] = s[i + 1]
           /\ Append(Tail(s), r)[Len(s)] = r
<1> DEFINE rest == Tail(s)
<1>1. Len(s) \in Nat \ {0}
  BY Queue
<1>2. /\ rest \in Seq(R) /\ Len(rest) = Len(s) - 1
      /\ \A i \in 1..(Len(s) - 1) : rest[i] = s[i + 1]
  BY HeadTailProperties
<1> HIDE DEF rest
<1> DEFINE q == Append(rest, r)
<1>3. /\ q \in Seq(R) /\ Len(q) = Len(rest) + 1
      /\ \A i \in 1..Len(rest) : q[i] = rest[i]
      /\ q[Len(rest) + 1] = r
  BY <1>2, AppendProperties
<1> HIDE DEF q
<1>4. DOMAIN q = 1..Len(s)
  BY <1>1, <1>2, <1>3, Queue
<1>5. \A i \in 1..(Len(s) - 1) : q[i] = s[i + 1]
  BY <1>1, <1>2, <1>3
<1>6. q[Len(s)] = r
  BY <1>1, <1>2, <1>3
<1> QED BY <1>3, <1>4, <1>5, <1>6 DEF q, rest

LEMMA Shifted ==
    ASSUME NEW L \in Nat \ {0}, NEW r, DOMAIN requests = 1..L, DOMAIN requests' = 1..L,
           \A i \in 1..(L - 1) : requests'[i] = requests[i + 1], requests'[L] = r
    PROVE  Shifts(1, {r})
<1>1. \A i \in DOMAIN requests' :
          \/ i + 1 \in DOMAIN requests /\ requests'[i] = requests[i + 1]
          \/ requests'[i] \in {r} /\ \A j \in DOMAIN requests' : j <= i
  <2> SUFFICES ASSUME NEW i \in 1..L, i # L
               PROVE  i + 1 \in DOMAIN requests /\ requests'[i] = requests[i + 1]
    OBVIOUS
  <2> QED OBVIOUS
<1>2. \A i \in DOMAIN requests : i > 1 => i - 1 \in DOMAIN requests' /\ requests'[i - 1] = requests[i]
  <2> SUFFICES ASSUME NEW i \in 1..L, i > 1
               PROVE  i - 1 \in DOMAIN requests' /\ requests'[i - 1] = requests[i]
    OBVIOUS
  <2>1. i - 1 \in 1..(L - 1) /\ (i - 1) + 1 = i
    OBVIOUS
  <2> QED BY <2>1
<1>3. \E i \in DOMAIN requests' : requests'[i] = r
  OBVIOUS
<1> QED BY <1>1, <1>2, <1>3 DEF Shifts

LEMMA Continued ==
    ASSUME PacksInv, requests # <<>>, NEW r \in Requests, requests' = Append(Tail(requests), r)
    PROVE  /\ Shifts(1, {r}) /\ requests' \in Seq(Requests)
           /\ 1 \in DOMAIN requests /\ Head(requests) = requests[1] /\ Head(requests) \in Requests
<1>1. requests \in Seq(Requests)
  BY DEF PacksInv, PacksTypes
<1>2. /\ Len(requests) \in Nat \ {0} /\ DOMAIN requests = 1..Len(requests)
      /\ Head(requests) = requests[1] /\ Head(requests) \in Requests
  BY <1>1, Queue
<1>3. /\ requests' \in Seq(Requests) /\ DOMAIN requests' = 1..Len(requests)
      /\ \A i \in 1..(Len(requests) - 1) : requests'[i] = requests[i + 1]
      /\ requests'[Len(requests)] = r
  BY <1>1, TailAppended
<1>4. Shifts(1, {r})
  <2> DEFINE L == Len(requests)
  <2>1. /\ L \in Nat \ {0} /\ DOMAIN requests = 1..L /\ DOMAIN requests' = 1..L
        /\ \A i \in 1..(L - 1) : requests'[i] = requests[i + 1]
        /\ requests'[L] = r
    BY <1>2, <1>3, Zenon
  <2> HIDE DEF L
  <2> QED BY <2>1, Shifted, Zenon
<1>5. 1 \in DOMAIN requests
  BY <1>2
<1> QED BY <1>2, <1>3, <1>4, <1>5, Zenon

\* What the steps that leave the call alone do to the requests.
LEMMA OneRequestKept ==
    ASSUME PacksInv, NEW d \in Nat, NEW N, Shifts(d, N), call' = call, \A r \in N : ~OfTool(r)
    PROVE  OneRequest'
<1>1. OneRequest
  BY DEF PacksInv
<1> SUFFICES ASSUME NEW i \in DOMAIN requests', OfTool(requests'[i])
             PROVE  /\ call.at = "sent" /\ requests'[i].tab = call.tab
                    /\ requests'[i].packs = <<<<call.name, call.body>>>>
                    /\ \A j \in DOMAIN requests' : OfTool(requests'[j]) => i = j
  BY DEF OneRequest, OfTool
<1>2. \A j \in DOMAIN requests' : OfTool(requests'[j]) => j + d \in DOMAIN requests /\ requests'[j] = requests[j + d]
  BY DEF Shifts
<1>3. ASSUME NEW j \in DOMAIN requests', OfTool(requests'[j]) PROVE i = j
  <2>1. i + d = j + d
    BY <1>1, <1>2, <1>3 DEF OneRequest
  <2> QED BY <2>1 DEF Shifts
<1> QED BY <1>1, <1>2, <1>3 DEF OneRequest

LEMMA NoRequestLeft ==
    ASSUME PacksInv, NEW d \in Nat, NEW N, Shifts(d, N), \A r \in N : ~OfTool(r),
           call.at # "sent" \/ (d = 1 /\ 1 \in DOMAIN requests /\ OfTool(requests[1]))
    PROVE  \A i \in DOMAIN requests' : ~OfTool(requests'[i])
<1>1. OneRequest
  BY DEF PacksInv
<1> SUFFICES ASSUME NEW i \in DOMAIN requests', OfTool(requests'[i]) PROVE FALSE
  OBVIOUS
<1>2. i + d \in DOMAIN requests /\ requests'[i] = requests[i + d]
  BY DEF Shifts
<1>3. call.at = "sent" /\ \A j \in DOMAIN requests : OfTool(requests[j]) => i + d = j
  BY <1>1, <1>2 DEF OneRequest
<1>4. i + d = 1 /\ d = 1
  BY <1>3
<1> QED BY <1>4 DEF Shifts

LEMMA ClosedKept ==
    ASSUME PacksInv, NEW d \in Nat, NEW N, Shifts(d, N),
           \A r \in N : r.do \in {"scan", "clear"} => ~open'[r.tab],
           \A i \in DOMAIN requests : open'[requests[i].tab] => open[requests[i].tab]
    PROVE  ClosedOnly'
<1>1. ClosedOnly
  BY DEF PacksInv
<1> SUFFICES ASSUME NEW i \in DOMAIN requests', requests'[i].do \in {"scan", "clear"} PROVE ~open'[requests'[i].tab]
  BY DEF ClosedOnly
<1> QED BY <1>1 DEF Shifts, ClosedOnly

\* What is agreed on is stored.
LEMMA AgreedStored ==
    ASSUME PacksAssumption, PacksInv, NEW t \in Tabs, open[t], NEW n \in Names, NEW v \in Values, Agreed(t, n) = v
    PROVE  stored[t][n] = v /\ v # Unknown /\ v \notin Broken
<1>1. v # Unknown
  BY DEF Values, PacksAssumption
<1>2. CASE call.at = "replied" /\ call.ok /\ call.tab = t /\ call.name = n
  BY <1>1, <1>2 DEF Agreed, PacksInv, CallStored, PacksTypes, NoCall
<1>3. CASE ~(call.at = "replied" /\ call.ok /\ call.tab = t /\ call.name = n)
  <2>1. told[t][n] = v
    BY <1>3 DEF Agreed
  <2>2. told[t][n] \in (Values \ Broken) \cup {Unknown}
    BY DEF PacksInv, PacksTypes
  <2> QED BY <1>1, <2>1, <2>2 DEF PacksInv, ToldStored
<1> QED BY <1>2, <1>3

\* A request brings what the storage has, or packs that were in a listener's hand.
Sourced(r, t) ==
    \A n \in Names : \A k \in Brought(r, t, n) :
        /\ k \in Nat
        /\ \/ r.packs[k][2] = stored[t][n]
           \/ \E i \in DOMAIN requests, m \in Nat :
                 m > 1 /\ m \in Brought(requests[i], t, n) /\ requests[i].packs[m][2] = r.packs[k][2]

LEMMA NoOtherKept ==
    ASSUME PacksAssumption, PacksInv, NEW t \in Tabs, open[t], NEW n \in Names, NEW v \in Values,
           Agreed(t, n) = v, NoOther(t, n, v),
           NEW d \in Nat, NEW N, Shifts(d, N), \A r \in N : Sourced(r, t),
           \A i \in DOMAIN bus'[t] : bus'[t][i][1] = n => bus'[t][i][2] = v
    PROVE  NoOther(t, n, v)'
<1>1. stored[t][n] = v
  BY AgreedStored
<1>2. ASSUME NEW i \in DOMAIN requests', NEW k \in Brought(requests'[i], t, n) PROVE requests'[i].packs[k][2] = v
  <2>1. CASE i + d \in DOMAIN requests /\ requests'[i] = requests[i + d]
    <3>1. k \in Brought(requests[i + d], t, n)
      BY <1>2, <2>1
    <3> QED BY <2>1, <3>1 DEF NoOther
  <2>2. CASE requests'[i] \in N
    <3>1. Sourced(requests'[i], t)
      BY <2>2
    <3>2. \/ requests'[i].packs[k][2] = stored[t][n]
          \/ \E j \in DOMAIN requests, m \in Nat :
                 m > 1 /\ m \in Brought(requests[j], t, n) /\ requests[j].packs[m][2] = requests'[i].packs[k][2]
      BY <1>2, <3>1 DEF Sourced
    <3> QED BY <1>1, <3>2 DEF NoOther
  <2> QED BY <2>1, <2>2 DEF Shifts
<1>3. \A i \in DOMAIN requests' : \A k \in Brought(requests'[i], t, n) : requests'[i].packs[k][2] = v
  BY <1>2
<1>4. NoOther(t, n, v)' <=>
      /\ \A i \in DOMAIN bus'[t] : bus'[t][i][1] = n => bus'[t][i][2] = v
      /\ \A i \in DOMAIN requests' : \A k \in Brought(requests'[i], t, n) : requests'[i].packs[k][2] = v
  BY DEF NoOther, Brought
<1> QED BY <1>3, <1>4

LEMMA AheadKept ==
    ASSUME PacksInv, NEW t \in Tabs, open[t], Ahead(t),
           NEW d \in Nat, NEW N, Shifts(d, N), \A r \in N : Sourced(r, t),
           \A r \in N : r.do = "command" => r.tab # t,
           call' = call \/ \A i \in DOMAIN requests' : requests'[i].do = "command" => requests'[i].tab # t
    PROVE  Ahead(t)'
<1> SUFFICES ASSUME NEW i \in DOMAIN requests', NEW j \in DOMAIN requests',
                    requests'[i].do = "command", requests'[i].tab = t,
                    NEW k \in Brought(requests'[j], t, call'.name)
             PROVE  requests'[j].packs[k][2] = call'.body \/ (j < i /\ k = 1)
  BY DEF Ahead, Brought
<1>1. call' = call
  OBVIOUS
<1>2. i + d \in DOMAIN requests /\ requests'[i] = requests[i + d]
  BY DEF Shifts
<1>3. i \in Nat /\ j \in Nat
  BY DEF Shifts
<1>4. CASE j + d \in DOMAIN requests /\ requests'[j] = requests[j + d]
  <2>1. k \in Brought(requests[j + d], t, call.name)
    BY <1>1, <1>4
  <2>2. requests[j + d].packs[k][2] = call.body \/ (j + d < i + d /\ k = 1)
    BY <1>2, <1>4, <2>1 DEF Ahead
  <2> QED BY <1>1, <1>3, <1>4, <2>2
<1>5. CASE requests'[j] \in N
  <2>1. Sourced(requests'[j], t)
    BY <1>5
  <2>2. OneRequest /\ call # NoCall
    <3>1. OneRequest
      BY DEF PacksInv
    <3>2. call.at = "sent"
      BY <1>2, <3>1 DEF OneRequest, OfTool
    <3> QED BY <3>1, <3>2 DEF NoCall
  <2>3. call.tab = t /\ call.name \in Names
    BY <1>2, <2>2 DEF OneRequest, OfTool, PacksInv, PacksTypes
  <2>4. stored[t][call.name] = call.body
    BY <1>2, <2>2, <2>3 DEF PacksInv, CallStored
  <2>5. \/ requests'[j].packs[k][2] = stored[t][call.name]
        \/ \E l \in DOMAIN requests, m \in Nat :
              /\ m > 1 /\ m \in Brought(requests[l], t, call.name)
              /\ requests[l].packs[m][2] = requests'[j].packs[k][2]
    BY <1>1, <2>1, <2>3 DEF Sourced
  <2>6. ASSUME NEW l \in DOMAIN requests, NEW m \in Nat, m > 1, m \in Brought(requests[l], t, call.name)
        PROVE  requests[l].packs[m][2] = call.body
    BY <1>2, <2>6 DEF Ahead
  <2> QED BY <1>1, <2>4, <2>5, <2>6
<1> QED BY <1>4, <1>5 DEF Shifts

\* What the listener has in hand once a command is on the bus.
LEMMA HandKept ==
    ASSUME PacksInv, NEW t \in Tabs, open[t], Behind(t), call.at = "posted", call.tab = t,
           NEW d \in Nat, NEW N, Shifts(d, N), \A r \in N : Sourced(r, t)
    PROVE  \A i \in DOMAIN requests' : \A k \in Brought(requests'[i], t, call.name) :
              requests'[i].packs[k][2] = call.body
<1>1. call # NoCall
  BY DEF NoCall
<1>2. call.name \in Names /\ stored[t][call.name] = call.body
  BY <1>1 DEF PacksInv, PacksTypes, CallStored
<1> SUFFICES ASSUME NEW i \in DOMAIN requests', NEW k \in Brought(requests'[i], t, call.name)
             PROVE  requests'[i].packs[k][2] = call.body
  OBVIOUS
<1>3. CASE i + d \in DOMAIN requests /\ requests'[i] = requests[i + d]
  <2>1. k \in Brought(requests[i + d], t, call.name)
    BY <1>3
  <2> QED BY <1>3, <2>1 DEF Behind
<1>4. CASE requests'[i] \in N
  <2>1. Sourced(requests'[i], t)
    BY <1>4
  <2>2. \/ requests'[i].packs[k][2] = stored[t][call.name]
        \/ \E j \in DOMAIN requests, m \in Nat :
              /\ m > 1 /\ m \in Brought(requests[j], t, call.name)
              /\ requests[j].packs[m][2] = requests'[i].packs[k][2]
    BY <1>2, <2>1 DEF Sourced
  <2> QED BY <1>2, <2>2 DEF Behind
<1> QED BY <1>3, <1>4 DEF Shifts
LEMMA BehindKept ==
    ASSUME PacksInv, NEW t \in Tabs, open[t], Behind(t),
           NEW d \in Nat, NEW N, Shifts(d, N), \A r \in N : Sourced(r, t),
           (call' = call /\ bus'[t] = bus[t]) \/ ~(call'.at = "posted" /\ call'.tab = t)
    PROVE  Behind(t)'
<1> SUFFICES ASSUME call' = call, bus'[t] = bus[t], call.at = "posted", call.tab = t PROVE Behind(t)'
  BY DEF Behind
<1>1. Behind(t)' <=> (call'.at = "posted" /\ call'.tab = t =>
        /\ NoneAfter(bus'[t], call'.name, call'.body)
        /\ \A i \in DOMAIN requests' : \A k \in Brought(requests'[i], t, call'.name) : requests'[i].packs[k][2] = call'.body)
  BY DEF Behind, Brought, NoneAfter, OfCall
<1>2. \A i \in DOMAIN requests' : \A k \in Brought(requests'[i], t, call.name) : requests'[i].packs[k][2] = call.body
  BY HandKept
<1>3. NoneAfter(bus'[t], call'.name, call'.body)
  BY DEF Behind
<1> QED BY <1>1, <1>2, <1>3

LEMMA ComesKept ==
    ASSUME NEW t, NEW n, NEW d \in Nat, NEW N, Shifts(d, N), loading[t] => loading'[t],
           \A i \in DOMAIN requests : i <= d =>
               ~(requests[i].do = "read" /\ requests[i].tab = t) /\ Brought(requests[i], t, n) = {}
    PROVE  Comes(t, n) => Comes(t, n)'
<1> SUFFICES ASSUME NEW i \in DOMAIN requests,
                    (requests[i].do = "read" /\ requests[i].tab = t) \/ Brought(requests[i], t, n) # {}
             PROVE  \E j \in DOMAIN requests' :
                        (requests'[j].do = "read" /\ requests'[j].tab = t) \/ Brought(requests'[j], t, n) # {}
  BY DEF Comes, Brought
<1>1. i > d
  BY DEF Shifts
<1>2. i - d \in DOMAIN requests' /\ requests'[i - d] = requests[i]
  BY <1>1 DEF Shifts
<1> QED BY <1>2

\* A page goes on following when a step leaves it alone and brings nothing else.
LEMMA FollowsKept ==
    ASSUME PacksAssumption, PacksInv, NEW t \in Tabs, open[t], Follows(t),
           NEW d \in Nat, NEW N, Shifts(d, N), \A r \in N : Sourced(r, t),
           \A r \in N : r.do = "command" => r.tab # t,
           bus'[t] = bus[t], pack'[t] = pack[t], strict'[t] = strict[t],
           \A n \in Names, v \in Values : Agreed(t, n)' = v => Agreed(t, n) = v,
           \A n \in Names : Comes(t, n) /\ stored[t][n] # None => Comes(t, n)',
           \/ call' = call
           \/ /\ ~(call'.at = "posted" /\ call'.tab = t)
              /\ \A i \in DOMAIN requests' : requests'[i].do = "command" => requests'[i].tab # t
    PROVE  Follows(t)'
<1>1. Ahead(t)'
  BY AheadKept DEF Follows
<1>2. Behind(t)'
  BY BehindKept DEF Follows
<1>3. ASSUME NEW n \in Names, NEW v \in Values, Agreed(t, n)' = v
      PROVE  NoOther(t, n, v)' /\ (~strict'[t] => Arrives(t, n, v)')
  <2>1. Agreed(t, n) = v
    BY <1>3
  <2>2. NoOther(t, n, v) /\ (~strict[t] => Arrives(t, n, v))
    BY <2>1 DEF Follows
  <2>3. stored[t][n] = v
    BY <2>1, AgreedStored
  <2>4. \A i \in DOMAIN bus'[t] : bus'[t][i][1] = n => bus'[t][i][2] = v
    BY <2>2 DEF NoOther
  <2>5. NoOther(t, n, v)'
    BY <2>1, <2>2, <2>4, NoOtherKept
  <2>6. Arrives(t, n, v) => Arrives(t, n, v)'
    BY <2>3 DEF Arrives
  <2> QED BY <2>2, <2>5, <2>6
<1> QED BY <1>1, <1>2, <1>3 DEF Follows

\* In particular when the call is another tab's.
LEMMA SameAgreed ==
    ASSUME call' = call, told' = told, NEW t
    PROVE  \A n \in Names, v \in Values : Agreed(t, n)' = v => Agreed(t, n) = v
BY DEF Agreed

LEMMA NothingSourced ==
    ASSUME NEW r, r.do # "rehydrate", NEW t
    PROVE  Sourced(r, t) /\ \A n : Brought(r, t, n) = {}
BY DEF Sourced, Brought

LEMMA ElsewhereSourced ==
    ASSUME NEW r, NEW t, r.tab # t
    PROVE  Sourced(r, t) /\ \A n : Brought(r, t, n) = {}
BY DEF Sourced, Brought

\* The packs of a tab, in any order.
LEMMA KeptFinite ==
    ASSUME PacksAssumption, PacksInv, NEW t \in Tabs
    PROVE  IsFiniteSet(Kept(t)) /\ Kept(t) \subseteq Names \X Values
<1>1. IsFiniteSet(Kept(t))
  <2>1. Kept(t) = {<<n, stored[t][n]>> : n \in {m \in Names : stored[t][m] # None}}
    BY DEF Kept
  <2> DEFINE D == {m \in Names : stored[t][m] # None}
             listing == [n \in D |-> <<n, stored[t][n]>>]
  <2>2. IsFiniteSet(D)
    BY FS_Subset DEF PacksAssumption
  <2>3. listing \in Surjection(D, Kept(t))
    BY <2>1 DEF Surjection
  <2> HIDE DEF listing, D
  <2> QED BY <2>2, <2>3, FS_Surjection
<1>2. Kept(t) \subseteq Names \X Values
  BY DEF Kept, PacksInv, PacksTypes
<1> QED BY <1>1, <1>2

LEMMA KeptListed ==
    ASSUME PacksAssumption, PacksInv, NEW t \in Tabs, NEW packs \in SetToSeqs(Kept(t))
    PROVE  /\ packs \in Seq(Names \X Values) /\ packs \in [1..Len(packs) -> Kept(t)]
           /\ \A x \in Kept(t) : \E k \in DOMAIN packs : packs[k] = x
<1> DEFINE S == Kept(t)
           size == Cardinality(S)
<1>1. IsFiniteSet(S) /\ S \subseteq Names \X Values
  BY KeptFinite
<1>3. packs \in [1..size -> S] /\ \A i, j \in 1..size : i # j => packs[i] # packs[j]
  BY DEF SetToSeqs
<1>4. size \in Nat
  BY <1>1, FS_CardinalityType
<1> HIDE DEF S, size
<1>5. packs \in Seq(S) /\ Len(packs) = size
  BY <1>3, <1>4
<1>6. packs \in Seq(Names \X Values)
  BY <1>1, <1>5, SeqMonotonic
<1>7. ASSUME NEW x \in S, \A k \in 1..size : packs[k] # x PROVE FALSE
  <2>1. packs \in [1..size -> S \ {x}]
    BY <1>3, <1>7
  <2>2. IsFiniteSet(S \ {x}) /\ Cardinality(S \ {x}) = size - 1
    BY <1>1, FS_RemoveElement DEF size
  <2>3. IsFiniteSet(1..size) /\ Cardinality(1..size) = size
    BY <1>4, FS_Interval
  <2>4. \E i, j \in 1..size : i # j /\ packs[i] = packs[j]
    BY <1>4, <2>1, <2>2, <2>3, FS_PigeonHole
  <2> QED BY <1>3, <2>4
<1> QED BY <1>3, <1>5, <1>6, <1>7 DEF S

LEMMA KeptInSomeOrder ==
    ASSUME PacksAssumption, PacksInv, NEW t \in Tabs
    PROVE  SetToSeq(Kept(t)) \in Seq(Names \X Values)
<1> DEFINE S == Kept(t)
           size == Cardinality(S)
           packs == SetToSeq(S)
<1>1. IsFiniteSet(S) /\ S \subseteq Names \X Values
  BY KeptFinite
<1> HIDE DEF S
<1>2. size \in Nat /\ ExistsBijection(1..size, S)
  BY <1>1, FS_CardinalityType
<1>3. PICK listing : listing \in Bijection(1..size, S)
  BY <1>2 DEF ExistsBijection
<1>4. listing \in [1..size -> S] /\ IsInjective(listing)
  BY <1>3 DEF Bijection, Injection, Surjection, IsInjective
<1>5. packs \in [1..size -> S]
  BY <1>4 DEF SetToSeq
<1>6. packs \in Seq(S)
  <2> HIDE DEF packs
  <2> QED BY <1>2, <1>5
<1> HIDE DEF packs
<1>7. packs \in Seq(Names \X Values)
  BY <1>1, <1>6, SeqMonotonic
<1> QED BY <1>7 DEF packs, S

LEMMA TabOfRequest ==
    ASSUME PacksInv
    PROVE  \A i \in DOMAIN requests : requests[i] \in Requests /\ requests[i].tab \in Tabs
<1>1. requests \in Seq(Requests)
  BY DEF PacksInv, PacksTypes
<1>2. \A i \in DOMAIN requests : requests[i] \in Requests
  BY <1>1, Queue
<1> QED BY <1>2 DEF Requests

\* A step of the storage or of a tab that leaves the call and the pages alone.
LEMMA QueueStep ==
    ASSUME PacksAssumption, PacksInv, PacksTypes',
           NEW d \in Nat, NEW N, Shifts(d, N),
           \A r \in N : ~OfTool(r) /\ (r.do \in {"scan", "clear"} => ~open'[r.tab]),
           call' = call, told' = told, pack' = pack, strict' = strict,
           \A t \in Tabs : bus'[t] = bus[t] \/ (bus'[t] = <<>> /\ ~open'[t]),
           \A t \in Tabs : open'[t] => open[t] /\ stored'[t] = stored[t],
           \A t \in Tabs : open'[t] /\ ~spoilt'[t] =>
              /\ ~spoilt[t] /\ \A r \in N : Sourced(r, t)
              /\ \A n \in Names : Comes(t, n) /\ stored[t][n] # None => Comes(t, n)'
    PROVE  PacksInv'
<1>1. Unanswered'
  BY DEF PacksInv, Unanswered
<1>2. OneRequest'
  BY OneRequestKept
<1>3. OneCommand'
  <2> SUFFICES ASSUME NEW t \in Tabs, NEW i \in DOMAIN bus'[t], OfCall(bus'[t][i])
               PROVE  /\ call.at = "posted" /\ call.tab = t
                      /\ bus'[t][i][1] = call.name /\ bus'[t][i][2] = call.body
                      /\ \A j \in DOMAIN bus'[t] : OfCall(bus'[t][j]) => i = j
    BY DEF OneCommand, OfCall
  <2>1. bus'[t] = bus[t]
    OBVIOUS
  <2> QED BY <2>1 DEF PacksInv, OneCommand
<1>4. ClosedOnly'
  BY ClosedKept, TabOfRequest
<1>5. CallStored'
  <2> SUFFICES ASSUME call # NoCall, open'[call.tab]
               PROVE  \/ call.at = "sent" /\ \A i \in DOMAIN requests' : requests'[i].do # "command"
                      \/ stored'[call.tab][call.name] = call.body
    BY DEF CallStored
  <2>1. call.tab \in Tabs
    BY DEF PacksInv, PacksTypes
  <2>2. CASE call.at = "sent" /\ \A i \in DOMAIN requests : requests[i].do # "command"
    BY <2>2 DEF Shifts, OfTool
  <2>3. CASE stored[call.tab][call.name] = call.body
    BY <2>1, <2>3
  <2> QED BY <2>1, <2>2, <2>3 DEF PacksInv, CallStored
<1>6. ToldStored'
  BY DEF PacksInv, ToldStored
<1>7. ASSUME NEW t \in Tabs, open'[t], ~spoilt'[t] PROVE Follows(t)'
  <2>1. open[t] /\ ~spoilt[t] /\ bus'[t] = bus[t]
    BY <1>7
  <2>2. Follows(t)
    BY <2>1 DEF PacksInv
  <2>3. \A n \in Names, v \in Values : Agreed(t, n)' = v => Agreed(t, n) = v
    BY SameAgreed
  <2>4. /\ \A r \in N : Sourced(r, t) /\ (r.do = "command" => r.tab # t)
        /\ \A n \in Names : Comes(t, n) /\ stored[t][n] # None => Comes(t, n)'
    BY <1>7 DEF OfTool
  <2> QED BY <2>1, <2>2, <2>3, <2>4, FollowsKept
<1> QED BY <1>1, <1>2, <1>3, <1>4, <1>5, <1>6, <1>7 DEF PacksInv

\* In particular one of the storage that only reads.
LEMMA QueueOnly ==
    ASSUME PacksAssumption, PacksInv, requests' \in Seq(Requests),
           UNCHANGED <<open, loading, strict, pack, stored, bus, call, told, spoilt>>,
           NEW d \in Nat, NEW N, Shifts(d, N),
           \A r \in N : ~OfTool(r) /\ (r.do \in {"scan", "clear"} => ~open[r.tab]),
           \A t \in Tabs : open[t] =>
              /\ \A r \in N : Sourced(r, t)
              /\ \A n \in Names : Comes(t, n) /\ stored[t][n] # None => Comes(t, n)'
    PROVE  PacksInv'
<1>1. PacksTypes'
  BY DEF PacksInv, PacksTypes
<1>2. \A t \in Tabs : bus'[t] = bus[t] \/ (bus'[t] = <<>> /\ ~open'[t])
  OBVIOUS
<1>3. \A t \in Tabs : open'[t] => open[t] /\ stored'[t] = stored[t]
  OBVIOUS
<1>4. \A t \in Tabs : open'[t] /\ ~spoilt'[t] =>
              /\ ~spoilt[t] /\ \A r \in N : Sourced(r, t)
              /\ \A n \in Names : Comes(t, n) /\ stored[t][n] # None => Comes(t, n)'
  OBVIOUS
<1>5. \A r \in N : ~OfTool(r) /\ (r.do \in {"scan", "clear"} => ~open'[r.tab])
  OBVIOUS
<1> QED BY <1>1, <1>2, <1>3, <1>4, <1>5, QueueStep

LEMMA ReadStep ==
    ASSUME PacksAssumption, PacksInv, Read
    PROVE  PacksInv'
<1> DEFINE t0 == Head(requests).tab
<1>1. /\ requests # <<>> /\ Head(requests).do = "read"
      /\ UNCHANGED <<page, pack, stored, bus, call, told, spoilt, loads, calls>>
  BY DEF Read, Serve
<1>2. UNCHANGED <<open, loading, strict>>
  BY <1>1 DEF page
<1>3. CASE Kept(t0) = {} /\ requests' = Tail(requests)
  <2>1. /\ Shifts(1, {}) /\ requests' \in Seq(Requests)
        /\ 1 \in DOMAIN requests /\ Head(requests) = requests[1]
    BY <1>1, <1>3, Served
  <2>3. ASSUME NEW t \in Tabs, NEW n \in Names, Comes(t, n), stored[t][n] # None PROVE Comes(t, n)'
    <3>1. t # t0
      BY <1>3, <2>3 DEF Kept
    <3>2. \A i \in DOMAIN requests : i <= 1 => requests[i].tab # t
      BY <2>1, <3>1 DEF Shifts
    <3> QED BY <1>2, <2>1, <2>3, <3>2, ComesKept, ElsewhereSourced
  <2>4. UNCHANGED <<open, loading, strict, pack, stored, bus, call, told, spoilt>>
    BY <1>1, <1>2
  <2>5. \A t \in Tabs : open[t] =>
            /\ \A r \in {} : Sourced(r, t)
            /\ \A n \in Names : Comes(t, n) /\ stored[t][n] # None => Comes(t, n)'
    BY <2>3
  <2>6. \A r \in {} : ~OfTool(r) /\ (r.do \in {"scan", "clear"} => ~open[r.tab])
    OBVIOUS
  <2> QED BY <2>1, <2>4, <2>5, <2>6, QueueOnly
<1>4. ASSUME Kept(t0) # {}, NEW packs \in SetToSeqs(Kept(t0)), requests' = Append(Tail(requests), Request("rehydrate", t0, packs))
      PROVE  PacksInv'
  <2> DEFINE r == Request("rehydrate", t0, packs)
  <2>0. t0 \in Tabs
    <3>1. requests \in Seq(Requests)
      BY DEF PacksInv, PacksTypes
    <3>2. Head(requests) \in Requests
      BY <1>1, <3>1, Queue
    <3> QED BY <3>2 DEF Requests
  <2>1. /\ packs \in Seq(Names \X Values) /\ packs \in [1..Len(packs) -> Kept(t0)]
        /\ \A x \in Kept(t0) : \E k \in DOMAIN packs : packs[k] = x
    BY <1>4, <2>0, KeptListed
  <2>9. packs # <<>>
    BY <1>4, <2>1
  <2>2. r.do = "rehydrate" /\ r.tab = t0 /\ r.packs = packs /\ r \in Requests
    BY <2>0, <2>1, <2>9 DEF Request, Requests
  <2> HIDE DEF r
  <2>3. /\ Shifts(1, {r}) /\ requests' \in Seq(Requests)
        /\ 1 \in DOMAIN requests /\ Head(requests) = requests[1]
    BY <1>1, <1>4, <2>2, Continued DEF r
  <2>5. ASSUME NEW t \in Tabs PROVE Sourced(r, t)
    <3>1. CASE t = t0
      <4> SUFFICES ASSUME NEW n \in Names, NEW k \in Brought(r, t, n) PROVE k \in Nat /\ r.packs[k][2] = stored[t][n]
        BY DEF Sourced
      <4>1. k \in DOMAIN packs /\ packs[k][1] = n
        BY <2>2 DEF Brought
      <4>2. k \in 1..Len(packs) /\ packs[k] \in Kept(t0) /\ Len(packs) \in Nat
        BY <2>1, <4>1, Queue
      <4> QED BY <2>2, <3>1, <4>1, <4>2 DEF Kept
    <3>2. CASE t # t0
      BY <2>2, <3>2, ElsewhereSourced
    <3> QED BY <3>1, <3>2
  <2>6. ASSUME NEW t \in Tabs, NEW n \in Names, Comes(t, n), stored[t][n] # None PROVE Comes(t, n)'
    <3>1. CASE t # t0
      <4>1. \A i \in DOMAIN requests : i <= 1 => requests[i].tab # t
        BY <2>3, <3>1 DEF Shifts
      <4> QED BY <1>2, <2>3, <2>6, <4>1, ComesKept, ElsewhereSourced
    <3>2. CASE t = t0
      <4>1. <<n, stored[t][n]>> \in Kept(t0)
        BY <2>6, <3>2 DEF Kept
      <4>2. PICK k \in DOMAIN packs : packs[k] = <<n, stored[t][n]>>
        BY <2>1, <4>1
      <4>3. k \in Brought(r, t, n)
        BY <2>2, <3>2, <4>2 DEF Brought
      <4>4. \E i \in DOMAIN requests' : Brought(requests'[i], t, n) # {}
        BY <2>3, <4>3 DEF Shifts
      <4> QED BY <4>4 DEF Comes, Brought
    <3> QED BY <3>1, <3>2
  <2>7. UNCHANGED <<open, loading, strict, pack, stored, bus, call, told, spoilt>>
    BY <1>1, <1>2
  <2>8. \A x \in {r} : ~OfTool(x) /\ (x.do \in {"scan", "clear"} => ~open[x.tab])
    BY <2>2 DEF OfTool
  <2> QED BY <2>3, <2>5, <2>6, <2>7, <2>8, QueueOnly
<1> QED BY <1>1, <1>3, <1>4 DEF Read, At, Continue

LEMMA AtTab ==
    ASSUME PacksInv, requests # <<>>
    PROVE  /\ Head(requests) \in Requests /\ Head(requests).tab \in Tabs
           /\ Head(requests) = requests[1] /\ 1 \in DOMAIN requests
           /\ Head(requests).do \in {"scan", "clear"} => ~open[Head(requests).tab]
<1>1. requests \in Seq(Requests)
  BY DEF PacksInv, PacksTypes
<1>2. Head(requests) \in Requests /\ Head(requests) = requests[1] /\ 1 \in DOMAIN requests
  BY <1>1, Queue
<1> QED BY <1>2 DEF PacksInv, ClosedOnly, Requests

\* What is served for one tab is nothing to another.
LEMMA ComesElsewhere ==
    ASSUME PacksInv, NEW N, Shifts(1, N), NEW t, requests[1].tab # t, loading'[t] = loading[t], NEW n
    PROVE  Comes(t, n) => Comes(t, n)'
<1>1. \A i \in DOMAIN requests : i <= 1 => i = 1
  BY DEF Shifts
<1> QED BY <1>1, ComesKept, ElsewhereSourced

LEMMA ScanStep ==
    ASSUME PacksAssumption, PacksInv, Scan
    PROVE  PacksInv'
<1> DEFINE t0 == Head(requests).tab
<1>1. /\ requests # <<>> /\ Head(requests).do = "scan"
      /\ UNCHANGED <<page, pack, stored, bus, call, told, spoilt, loads, calls>>
  BY DEF Scan, Serve
<1>2. UNCHANGED <<open, loading, strict, pack, stored, bus, call, told, spoilt>>
  BY <1>1 DEF page
<1>3. t0 \in Tabs /\ ~open[t0] /\ requests[1].tab = t0
  BY <1>1, AtTab
<1>4. CASE requests' = Tail(requests)
  <2>1. Shifts(1, {}) /\ requests' \in Seq(Requests)
    BY <1>1, <1>4, Served
  <2>2. \A t \in Tabs : open[t] =>
            /\ \A r \in {} : Sourced(r, t)
            /\ \A n \in Names : Comes(t, n) /\ stored[t][n] # None => Comes(t, n)'
    BY <1>2, <1>3, <2>1, ComesElsewhere
  <2>3. \A r \in {} : ~OfTool(r) /\ (r.do \in {"scan", "clear"} => ~open[r.tab])
    OBVIOUS
  <2> QED BY <1>2, <2>1, <2>2, <2>3, QueueOnly
<1>5. CASE requests' = Append(Tail(requests), Request("clear", t0, SetToSeq(Kept(t0))))
  <2> DEFINE r == Request("clear", t0, SetToSeq(Kept(t0)))
  <2>1. r.do = "clear" /\ r.tab = t0 /\ r \in Requests
    BY <1>3, KeptInSomeOrder DEF Request, Requests
  <2> HIDE DEF r
  <2>2. Shifts(1, {r}) /\ requests' \in Seq(Requests)
    BY <1>1, <1>5, <2>1, Continued DEF r
  <2>3. \A t \in Tabs : open[t] =>
            /\ \A x \in {r} : Sourced(x, t)
            /\ \A n \in Names : Comes(t, n) /\ stored[t][n] # None => Comes(t, n)'
    BY <1>2, <1>3, <2>1, <2>2, ComesElsewhere, NothingSourced
  <2>4. \A x \in {r} : ~OfTool(x) /\ (x.do \in {"scan", "clear"} => ~open[x.tab])
    BY <1>3, <2>1 DEF OfTool
  <2> QED BY <1>2, <2>2, <2>3, <2>4, QueueOnly
<1> QED BY <1>4, <1>5 DEF Scan, At, Continue

LEMMA ClearStep ==
    ASSUME PacksAssumption, PacksInv, Clear
    PROVE  PacksInv'
<1> DEFINE t0 == Head(requests).tab
           cleared == [n \in Names |->
                IF \E i \in DOMAIN Head(requests).packs : Head(requests).packs[i][1] = n THEN None ELSE stored[t0][n]]
<1>1. /\ requests # <<>> /\ Head(requests).do = "clear" /\ requests' = Tail(requests)
      /\ stored' = [stored EXCEPT ![t0] = cleared]
      /\ UNCHANGED <<page, pack, bus, call, told, spoilt, loads, calls>>
  BY DEF Clear, Serve, At
<1>2. UNCHANGED <<open, loading, strict, pack, bus, call, told, spoilt>>
  BY <1>1 DEF page
<1>3. t0 \in Tabs /\ ~open[t0] /\ requests[1].tab = t0
  BY <1>1, AtTab
<1>4. Shifts(1, {}) /\ requests' \in Seq(Requests)
  BY <1>1, Served
<1>5. cleared \in [Names -> Values]
  BY <1>3 DEF Values, PacksInv, PacksTypes
<1> HIDE DEF cleared
<1>6. stored' \in [Tabs -> [Names -> Values]] /\ \A t \in Tabs \ {t0} : stored'[t] = stored[t]
  BY <1>1, <1>3, <1>5 DEF PacksInv, PacksTypes
<1>7. PacksTypes'
  BY <1>2, <1>4, <1>6 DEF PacksInv, PacksTypes
<1>8. \A r \in {} : ~OfTool(r) /\ (r.do \in {"scan", "clear"} => ~open'[r.tab])
  OBVIOUS
<1>9. \A t \in Tabs : bus'[t] = bus[t] \/ (bus'[t] = <<>> /\ ~open'[t])
  BY <1>2
<1>10. \A t \in Tabs : open'[t] => open[t] /\ stored'[t] = stored[t]
  BY <1>2, <1>3, <1>6
<1>11. \A t \in Tabs : open'[t] /\ ~spoilt'[t] =>
            /\ ~spoilt[t] /\ \A r \in {} : Sourced(r, t)
            /\ \A n \in Names : Comes(t, n) /\ stored[t][n] # None => Comes(t, n)'
  BY <1>2, <1>3, <1>4, ComesElsewhere
<1>12. call' = call /\ told' = told /\ pack' = pack /\ strict' = strict
  BY <1>2
<1> QED BY <1>4, <1>7, <1>8, <1>9, <1>10, <1>11, <1>12, QueueStep

\* What a listener has in hand when one pack is done.
LEMMA RestOfPacks ==
    ASSUME PacksInv, requests # <<>>, Head(requests).do = "rehydrate", NextPack
    PROVE  \E N :
          /\ Shifts(1, N) /\ requests' \in Seq(Requests)
          /\ \A r \in N : r.do = "rehydrate" /\ r.tab = Head(requests).tab
          /\ \A r \in N, t \in Tabs : Sourced(r, t)
          /\ \A t, n : \A k \in Brought(requests[1], t, n) :
                k = 1 \/ \E r \in N : Brought(r, t, n) # {}
<1> DEFINE h == Head(requests)
           rest == Tail(h.packs)
           r == [h EXCEPT !.packs = rest]
<1>1. h \in Requests /\ h.tab \in Tabs /\ h = requests[1] /\ 1 \in DOMAIN requests /\ h.do = "rehydrate"
  BY AtTab
<1>2. h.packs \in Seq(Names \X Values) /\ h.packs # <<>>
  BY <1>1 DEF Requests
<1>3. \/ rest = <<>> /\ requests' = Tail(requests)
      \/ rest # <<>> /\ requests' = Append(Tail(requests), r)
  BY DEF NextPack, Continue
<1> HIDE DEF h
<1>4. /\ rest \in Seq(Names \X Values) /\ Len(rest) = Len(h.packs) - 1
      /\ \A k \in 1..Len(rest) : rest[k] = h.packs[k + 1]
      /\ DOMAIN rest = 1..Len(rest) /\ DOMAIN h.packs = 1..Len(h.packs) /\ Len(h.packs) \in Nat \ {0}
  BY <1>2, HeadTailProperties, Queue
<1> HIDE DEF rest
<1>5. CASE rest = <<>> /\ requests' = Tail(requests)
  <2>1. Shifts(1, {}) /\ requests' \in Seq(Requests)
    BY <1>5, Served
  <2>2. DOMAIN h.packs = {1}
    BY <1>4, <1>5
  <2>3. \A t, n : \A k \in Brought(requests[1], t, n) : k = 1
    BY <1>1, <2>2 DEF Brought
  <2> QED BY <2>1, <2>3
<1>6. CASE rest # <<>> /\ requests' = Append(Tail(requests), r)
  <2>1. r.do = "rehydrate" /\ r.tab = h.tab /\ r.packs = rest /\ r \in Requests
    BY <1>1, <1>4, <1>6 DEF Requests
  <2> HIDE DEF r
  <2>2. Shifts(1, {r}) /\ requests' \in Seq(Requests)
    BY <1>6, <2>1, Continued DEF r
  <2>3. ASSUME NEW t, NEW n, NEW k \in Brought(r, t, n)
        PROVE  /\ k \in Nat /\ k + 1 > 1 /\ k + 1 \in Brought(requests[1], t, n)
               /\ requests[1].packs[k + 1][2] = r.packs[k][2]
    <3>1. k \in 1..Len(rest) /\ rest[k][1] = n /\ h.tab = t
      BY <1>4, <2>1, <2>3 DEF Brought
    <3>2. k \in Nat /\ k + 1 > 1 /\ k + 1 \in DOMAIN h.packs /\ h.packs[k + 1] = rest[k]
      BY <1>4, <3>1
    <3> QED BY <1>1, <2>1, <3>1, <3>2 DEF Brought
  <2>4. \A t \in Tabs : Sourced(r, t)
    BY <1>1, <2>3 DEF Sourced
  <2>5. ASSUME NEW t, NEW n, NEW k \in Brought(requests[1], t, n), k # 1 PROVE Brought(r, t, n) # {}
    <3>1. k \in 1..Len(h.packs) /\ h.packs[k][1] = n /\ h.tab = t
      BY <1>1, <1>4, <2>5 DEF Brought
    <3>2. k - 1 \in 1..Len(rest) /\ rest[k - 1] = h.packs[k]
      BY <1>4, <2>5, <3>1
    <3>3. k - 1 \in Brought(r, t, n)
      BY <1>4, <2>1, <3>1, <3>2 DEF Brought
    <3> QED BY <3>3
  <2>6. \A x \in {r} : x.do = "rehydrate" /\ x.tab = Head(requests).tab
    BY <2>1 DEF h
  <2>7. \A x \in {r}, t \in Tabs : Sourced(x, t)
    BY <2>4
  <2>8. \A t, n : \A k \in Brought(requests[1], t, n) : k = 1 \/ \E x \in {r} : Brought(x, t, n) # {}
    BY <2>5
  <2> QED BY <2>2, <2>6, <2>7, <2>8
<1> QED BY <1>3, <1>5, <1>6

LEMMA RehydrateFailsStep ==
    ASSUME PacksAssumption, PacksInv, RehydrateFails
    PROVE  PacksInv'
<1> DEFINE t0 == Head(requests).tab
<1>1. /\ requests # <<>> /\ Head(requests).do = "rehydrate" /\ NextPack
      /\ spoilt' = [spoilt EXCEPT ![t0] = TRUE]
      /\ UNCHANGED <<page, pack, stored, bus, call, told, loads, calls>>
  BY DEF RehydrateFails, Serve, At
<1>2. UNCHANGED <<open, loading, strict, pack, stored, bus, call, told>>
  BY <1>1 DEF page
<1>3. t0 \in Tabs /\ requests[1].tab = t0
  BY <1>1, AtTab
<1>4. PICK N :
      /\ Shifts(1, N) /\ requests' \in Seq(Requests)
      /\ \A r \in N : r.do = "rehydrate" /\ r.tab = t0
      /\ \A r \in N, t \in Tabs : Sourced(r, t)
  BY <1>1, RestOfPacks
<1>5. spoilt' \in [Tabs -> BOOLEAN] /\ spoilt'[t0] /\ \A t \in Tabs \ {t0} : spoilt'[t] = spoilt[t]
  BY <1>1, <1>3 DEF PacksInv, PacksTypes
<1>7. PacksTypes'
  BY <1>2, <1>4, <1>5 DEF PacksInv, PacksTypes
<1>8. \A r \in N : ~OfTool(r) /\ (r.do \in {"scan", "clear"} => ~open'[r.tab])
  BY <1>4 DEF OfTool
<1>9. \A t \in Tabs : bus'[t] = bus[t] \/ (bus'[t] = <<>> /\ ~open'[t])
  BY <1>2
<1>10. \A t \in Tabs : open'[t] => open[t] /\ stored'[t] = stored[t]
  BY <1>2
<1>11. \A t \in Tabs : open'[t] /\ ~spoilt'[t] =>
            /\ ~spoilt[t] /\ \A r \in N : Sourced(r, t)
            /\ \A n \in Names : Comes(t, n) /\ stored[t][n] # None => Comes(t, n)'
  BY <1>2, <1>3, <1>4, <1>5, ComesElsewhere
<1>12. call' = call /\ told' = told /\ pack' = pack /\ strict' = strict
  BY <1>2
<1> QED BY <1>4, <1>7, <1>8, <1>9, <1>10, <1>11, <1>12, QueueStep

LEMMA CompleteStep ==
    ASSUME PacksAssumption, PacksInv, NEW t0 \in Tabs, Complete(t0)
    PROVE  PacksInv'
<1> DEFINE r == Request("read", t0, <<>>)
<1>1. /\ loading' = [loading EXCEPT ![t0] = FALSE] /\ requests' = Append(requests, r)
      /\ UNCHANGED <<open, strict, pack, stored, bus, call, told, spoilt>>
  BY DEF Complete
<1>2. r \in Requests /\ r.do = "read" /\ r.tab = t0
  BY DEF Request, Requests
<1> HIDE DEF r
<1>3. Shifts(0, {r}) /\ requests' \in Seq(Requests)
  BY <1>1, <1>2, Comes1
<1>4. loading' \in [Tabs -> BOOLEAN] /\ \A t \in Tabs \ {t0} : loading'[t] = loading[t]
  BY <1>1 DEF PacksInv, PacksTypes
<1>5. PacksTypes'
  BY <1>1, <1>3, <1>4 DEF PacksInv, PacksTypes
<1>6. \A x \in {r} : ~OfTool(x) /\ (x.do \in {"scan", "clear"} => ~open'[x.tab])
  BY <1>2 DEF OfTool
<1>7. \A t \in Tabs : bus'[t] = bus[t] \/ (bus'[t] = <<>> /\ ~open'[t])
  BY <1>1
<1>8. \A t \in Tabs : open'[t] => open[t] /\ stored'[t] = stored[t]
  BY <1>1
<1>9. ASSUME NEW t \in Tabs, NEW n \in Names, Comes(t, n) PROVE Comes(t, n)'
  <2>1. CASE t = t0
    <3>1. \E i \in DOMAIN requests' : requests'[i].do = "read" /\ requests'[i].tab = t
      BY <1>2, <1>3, <2>1 DEF Shifts
    <3> QED BY <3>1 DEF Comes
  <2>2. CASE t # t0
    <3>1. \A i \in DOMAIN requests : ~(i <= 0)
      BY <1>3 DEF Shifts
    <3> QED BY <1>3, <1>4, <1>9, <2>2, <3>1, ComesKept
  <2> QED BY <2>1, <2>2
<1>10. \A t \in Tabs : open'[t] /\ ~spoilt'[t] =>
            /\ ~spoilt[t] /\ \A x \in {r} : Sourced(x, t)
            /\ \A n \in Names : Comes(t, n) /\ stored[t][n] # None => Comes(t, n)'
  BY <1>1, <1>2, <1>9, NothingSourced
<1>11. call' = call /\ told' = told /\ pack' = pack /\ strict' = strict
  BY <1>1
<1> QED BY <1>3, <1>5, <1>6, <1>7, <1>8, <1>10, <1>11, QueueStep

LEMMA CloseStep ==
    ASSUME PacksAssumption, PacksInv, NEW t0 \in Tabs, Close(t0)
    PROVE  PacksInv'
<1> DEFINE r == Request("scan", t0, <<>>)
<1>1. /\ open' = [open EXCEPT ![t0] = FALSE] /\ bus' = [bus EXCEPT ![t0] = <<>>]
      /\ requests' = Append(requests, r)
      /\ UNCHANGED <<loading, strict, pack, stored, call, told, spoilt>>
  BY DEF Close
<1>2. r \in Requests /\ r.do = "scan" /\ r.tab = t0
  BY DEF Request, Requests
<1> HIDE DEF r
<1>3. Shifts(0, {r}) /\ requests' \in Seq(Requests)
  BY <1>1, <1>2, Comes1
<1>4. /\ open' \in [Tabs -> BOOLEAN] /\ ~open'[t0] /\ \A t \in Tabs \ {t0} : open'[t] = open[t]
      /\ bus' \in [Tabs -> Seq(Injections)] /\ bus'[t0] = <<>> /\ \A t \in Tabs \ {t0} : bus'[t] = bus[t]
  BY <1>1, EmptySeq DEF PacksInv, PacksTypes
<1>5. PacksTypes'
  BY <1>1, <1>3, <1>4 DEF PacksInv, PacksTypes
<1>6. \A x \in {r} : ~OfTool(x) /\ (x.do \in {"scan", "clear"} => ~open'[x.tab])
  BY <1>2, <1>4 DEF OfTool
<1>7. \A t \in Tabs : bus'[t] = bus[t] \/ (bus'[t] = <<>> /\ ~open'[t])
  BY <1>4
<1>8. \A t \in Tabs : open'[t] => open[t] /\ stored'[t] = stored[t]
  BY <1>1, <1>4
<1>9. \A t \in Tabs, n \in Names : Comes(t, n) => Comes(t, n)'
  <2>1. \A i \in DOMAIN requests : ~(i <= 0)
    BY <1>3 DEF Shifts
  <2> QED BY <1>1, <1>3, <2>1, ComesKept
<1>10. \A t \in Tabs : open'[t] /\ ~spoilt'[t] =>
            /\ ~spoilt[t] /\ \A x \in {r} : Sourced(x, t)
            /\ \A n \in Names : Comes(t, n) /\ stored[t][n] # None => Comes(t, n)'
  BY <1>1, <1>2, <1>9, NothingSourced
<1>11. call' = call /\ told' = told /\ pack' = pack /\ strict' = strict
  BY <1>1
<1> QED BY <1>3, <1>5, <1>6, <1>7, <1>8, <1>10, <1>11, QueueStep

\* No call is under way, or it is answered on the bus or to the agent.
LEMMA NoneOfTool ==
    ASSUME \A i \in DOMAIN requests' : ~OfTool(requests'[i])
    PROVE  OneRequest' /\ \A i \in DOMAIN requests' : requests'[i].do # "command"
BY DEF OneRequest, OfTool

LEMMA CallOfHead ==
    ASSUME PacksInv, requests # <<>>, OfTool(Head(requests))
    PROVE  /\ call # NoCall /\ call.at = "sent" /\ call.tab \in Tabs /\ call.name \in Names /\ call.body \in Values
           /\ Head(requests).tab = call.tab /\ Head(requests).packs = <<<<call.name, call.body>>>>
           /\ Head(requests) = requests[1] /\ 1 \in DOMAIN requests
           /\ told[call.tab][call.name] = Unknown
           /\ \A j \in DOMAIN requests : OfTool(requests[j]) => j = 1
           /\ \A t \in Tabs : \A i \in DOMAIN bus[t] : ~OfCall(bus[t][i])
<1>1. Head(requests) = requests[1] /\ 1 \in DOMAIN requests
  BY AtTab
<1>2. /\ call.at = "sent" /\ requests[1].tab = call.tab /\ requests[1].packs = <<<<call.name, call.body>>>>
      /\ \A j \in DOMAIN requests : OfTool(requests[j]) => 1 = j
  BY <1>1 DEF PacksInv, OneRequest
<1>3. call # NoCall
  BY <1>2 DEF NoCall
<1>4. call.tab \in Tabs /\ call.name \in Names /\ call.body \in Values
  BY <1>3 DEF PacksInv, PacksTypes
<1>5. told[call.tab][call.name] = Unknown
  BY <1>3 DEF PacksInv, Unanswered
<1>6. \A t \in Tabs : \A i \in DOMAIN bus[t] : ~OfCall(bus[t][i])
  BY <1>2 DEF PacksInv, OneCommand
<1> QED BY <1>1, <1>2, <1>3, <1>4, <1>5, <1>6

LEMMA BeginStep ==
    ASSUME PacksAssumption, PacksInv, NEW t0 \in Tabs, NEW n0 \in Names, NEW body \in Values, Begin(t0, n0, body)
    PROVE  PacksInv'
<1> DEFINE r == Request("store", t0, <<<<n0, body>>>>)
<1>1. /\ call = NoCall /\ open[t0] /\ requests' = Append(requests, r)
      /\ call' = [tab |-> t0, name |-> n0, body |-> body, at |-> "sent", ok |-> FALSE]
      /\ told' = [told EXCEPT ![t0][n0] = Unknown]
      /\ UNCHANGED <<open, loading, strict, pack, stored, bus, spoilt>>
  BY DEF Begin, page
<1>2. r \in Requests /\ r.do = "store" /\ r.tab = t0 /\ r.packs = <<<<n0, body>>>>
  BY DEF Request, Requests
<1> HIDE DEF r
<1>3. Shifts(0, {r}) /\ requests' \in Seq(Requests)
  BY <1>1, <1>2, Comes1
<1>4. call.at = "none" /\ \A i \in DOMAIN requests : ~OfTool(requests[i])
  BY <1>1 DEF NoCall, PacksInv, OneRequest
<1>5. /\ told'[t0][n0] = Unknown
      /\ \A t \in Tabs, n \in Names : told'[t][n] = told[t][n] \/ told'[t][n] = Unknown
      /\ told' \in [Tabs -> [Names -> (Values \ Broken) \cup {Unknown}]]
  BY <1>1 DEF PacksInv, PacksTypes
<1>6. PacksTypes'
  <2>1. call' \in [tab : Tabs, name : Names, body : Values, at : {"sent", "posted", "replied"}, ok : BOOLEAN] /\ ~call'.ok
    BY <1>1
  <2> QED BY <1>1, <1>3, <1>5, <2>1 DEF PacksInv, PacksTypes
<1>7. Unanswered'
  BY <1>1, <1>5 DEF Unanswered
<1>8. \A i \in DOMAIN requests' :
          \/ ~OfTool(requests'[i])
          \/ requests'[i] = r /\ \A j \in DOMAIN requests' : j <= i
  BY <1>3, <1>4 DEF Shifts
<1>9. OneRequest'
  <2> SUFFICES ASSUME NEW i \in DOMAIN requests', OfTool(requests'[i])
               PROVE  /\ call'.at = "sent" /\ requests'[i].tab = call'.tab
                      /\ requests'[i].packs = <<<<call'.name, call'.body>>>>
                      /\ \A j \in DOMAIN requests' : OfTool(requests'[j]) => i = j
    BY DEF OneRequest, OfTool
  <2>1. requests'[i] = r /\ \A j \in DOMAIN requests' : j <= i
    BY <1>8
  <2>2. ASSUME NEW j \in DOMAIN requests', OfTool(requests'[j]) PROVE i = j
    <3>1. j <= i /\ i <= j
      BY <1>8, <2>1, <2>2
    <3> QED BY <1>3, <3>1 DEF Shifts
  <2> QED BY <1>1, <1>2, <2>1, <2>2
<1>10. OneCommand'
  <2>1. \A t \in Tabs : \A i \in DOMAIN bus[t] : ~OfCall(bus[t][i])
    BY <1>4 DEF PacksInv, OneCommand
  <2> QED BY <1>1, <2>1 DEF OneCommand, OfCall
<1>11. ClosedOnly'
  BY <1>1, <1>2, <1>3, ClosedKept
<1>12. \A i \in DOMAIN requests' : requests'[i].do # "command"
  BY <1>2, <1>8 DEF OfTool
<1>13. CallStored'
  BY <1>1, <1>12 DEF CallStored
<1>14. ToldStored'
  <2> SUFFICES ASSUME NEW t \in Tabs, NEW n \in Names, open[t], told'[t][n] # Unknown PROVE stored[t][n] = told'[t][n]
    BY <1>1 DEF ToldStored
  <2>1. told'[t][n] = told[t][n]
    BY <1>5
  <2> QED BY <2>1 DEF PacksInv, ToldStored
<1>15. ASSUME NEW t \in Tabs, open'[t], ~spoilt'[t] PROVE Follows(t)'
  <2>1. open[t] /\ Follows(t)
    BY <1>1, <1>15 DEF PacksInv
  <2>2. ASSUME NEW n \in Names, NEW v \in Values, Agreed(t, n)' = v PROVE Agreed(t, n) = v
    <3>1. told'[t][n] = v /\ v # Unknown
      BY <1>1, <2>2 DEF Agreed, Values, PacksAssumption
    <3>2. told[t][n] = v
      BY <1>5, <3>1
    <3> QED BY <1>4, <3>2 DEF Agreed
  <2>3. \A i \in DOMAIN requests : ~(i <= 0)
    BY <1>3 DEF Shifts
  <2>4. \A n \in Names : Comes(t, n) => Comes(t, n)'
    BY <1>1, <1>3, <2>3, ComesKept
  <2>5. \A x \in {r} : Sourced(x, t) /\ (x.do = "command" => x.tab # t)
    BY <1>2, NothingSourced
  <2>6. /\ ~(call'.at = "posted" /\ call'.tab = t)
        /\ \A i \in DOMAIN requests' : requests'[i].do = "command" => requests'[i].tab # t
    BY <1>1, <1>12
  <2>7. bus'[t] = bus[t] /\ pack'[t] = pack[t] /\ strict'[t] = strict[t]
    BY <1>1
  <2> QED BY <1>3, <2>1, <2>2, <2>4, <2>5, <2>6, <2>7, FollowsKept
<1> QED BY <1>6, <1>7, <1>9, <1>10, <1>11, <1>13, <1>14, <1>15 DEF PacksInv

LEMMA StoreFailsStep ==
    ASSUME PacksAssumption, PacksInv, StoreFails
    PROVE  PacksInv'
<1>1. /\ requests # <<>> /\ Head(requests).do = "store" /\ requests' = Tail(requests) /\ call' = NoCall
      /\ UNCHANGED <<open, loading, strict, pack, stored, bus, told, spoilt>>
  BY DEF StoreFails, Serve, page
<1>2. OfTool(Head(requests))
  BY <1>1 DEF OfTool
<1>3. Shifts(1, {}) /\ requests' \in Seq(Requests)
  BY <1>1, Served
<1>4. /\ call.at = "sent" /\ Head(requests) = requests[1] /\ 1 \in DOMAIN requests
      /\ \A t \in Tabs : \A i \in DOMAIN bus[t] : ~OfCall(bus[t][i])
  BY <1>1, <1>2, CallOfHead
<1>5. \A i \in DOMAIN requests' : ~OfTool(requests'[i])
  BY <1>2, <1>3, <1>4, NoRequestLeft
<1>6. PacksTypes'
  BY <1>1, <1>3 DEF PacksInv, PacksTypes
<1>7. Unanswered' /\ CallStored'
  BY <1>1 DEF Unanswered, CallStored, NoCall
<1>8. OneRequest' /\ \A i \in DOMAIN requests' : requests'[i].do # "command"
  BY <1>5, NoneOfTool
<1>9. OneCommand'
  BY <1>1, <1>4 DEF OneCommand, OfCall
<1>10. \A x \in {} : x.do \in {"scan", "clear"} => ~open'[x.tab]
  OBVIOUS
<1>11. ClosedOnly'
  BY <1>1, <1>3, <1>10, ClosedKept
<1>12. ToldStored'
  BY <1>1 DEF PacksInv, ToldStored
<1>13. ASSUME NEW t \in Tabs, open'[t], ~spoilt'[t] PROVE Follows(t)'
  <2>1. open[t] /\ Follows(t)
    BY <1>1, <1>13 DEF PacksInv
  <2>2. \A n \in Names, v \in Values : Agreed(t, n)' = v => Agreed(t, n) = v
    BY <1>1, <1>4 DEF Agreed, NoCall
  <2>3. \A i \in DOMAIN requests : i <= 1 => i = 1
    BY <1>3 DEF Shifts
  <2>4. \A n \in Names : Comes(t, n) => Comes(t, n)'
    BY <1>1, <1>3, <1>4, <2>3, ComesKept, NothingSourced
  <2>5. (\A x \in {} : Sourced(x, t)) /\ (\A x \in {} : x.do = "command" => x.tab # t)
    OBVIOUS
  <2>6. /\ ~(call'.at = "posted" /\ call'.tab = t)
        /\ \A i \in DOMAIN requests' : requests'[i].do = "command" => requests'[i].tab # t
    BY <1>1, <1>8 DEF NoCall
  <2>7. bus'[t] = bus[t] /\ pack'[t] = pack[t] /\ strict'[t] = strict[t]
    BY <1>1
  <2> QED BY <1>3, <2>1, <2>2, <2>4, <2>5, <2>6, <2>7, FollowsKept
<1> QED BY <1>6, <1>7, <1>8, <1>9, <1>11, <1>12, <1>13 DEF PacksInv

LEMMA AnswerStep ==
    ASSUME PacksAssumption, PacksInv, Answer
    PROVE  PacksInv'
<1>1. /\ call.at = "replied" /\ call' = NoCall /\ requests' = requests
      /\ told' = IF call.ok THEN [told EXCEPT ![call.tab][call.name] = call.body] ELSE told
      /\ UNCHANGED <<open, loading, strict, pack, stored, bus, spoilt>>
  BY DEF Answer, page
<1>2. call # NoCall
  BY <1>1 DEF NoCall
<1>3. call.tab \in Tabs /\ call.name \in Names /\ call.body \in Values /\ (call.ok => call.body \notin Broken)
  BY <1>2 DEF PacksInv, PacksTypes
<1>4. Shifts(0, {}) /\ requests' \in Seq(Requests)
  BY <1>1, Stays
<1>5. \A i \in DOMAIN requests' : ~OfTool(requests'[i])
  BY <1>1 DEF PacksInv, OneRequest
<1>6. /\ \A t \in Tabs, n \in Names :
            told'[t][n] = IF call.ok /\ call.tab = t /\ call.name = n THEN call.body ELSE told[t][n]
      /\ told' \in [Tabs -> [Names -> (Values \ Broken) \cup {Unknown}]]
  BY <1>1, <1>3 DEF PacksInv, PacksTypes
<1>7. PacksTypes'
  BY <1>1, <1>4, <1>6 DEF PacksInv, PacksTypes
<1>8. Unanswered' /\ CallStored'
  BY <1>1 DEF Unanswered, CallStored, NoCall
<1>9. OneRequest' /\ \A i \in DOMAIN requests' : requests'[i].do # "command"
  BY <1>5, NoneOfTool
<1>10. OneCommand'
  <2>1. \A t \in Tabs : \A i \in DOMAIN bus[t] : ~OfCall(bus[t][i])
    BY <1>1 DEF PacksInv, OneCommand
  <2> QED BY <1>1, <2>1 DEF OneCommand, OfCall
<1>11. ClosedOnly'
  BY <1>1 DEF PacksInv, ClosedOnly
<1>12. ToldStored'
  <2> SUFFICES ASSUME NEW t \in Tabs, NEW n \in Names, open[t], told'[t][n] # Unknown PROVE stored[t][n] = told'[t][n]
    BY <1>1 DEF ToldStored
  <2>1. CASE call.ok /\ call.tab = t /\ call.name = n
    BY <1>1, <1>2, <1>6, <2>1 DEF PacksInv, CallStored
  <2>2. CASE ~(call.ok /\ call.tab = t /\ call.name = n)
    <3>1. told'[t][n] = told[t][n]
      BY <1>6, <2>2
    <3> QED BY <3>1 DEF PacksInv, ToldStored
  <2> QED BY <2>1, <2>2
<1>13. ASSUME NEW t \in Tabs, open'[t], ~spoilt'[t] PROVE Follows(t)'
  <2>1. open[t] /\ Follows(t)
    BY <1>1, <1>13 DEF PacksInv
  <2>2. \A n \in Names, v \in Values : Agreed(t, n)' = v => Agreed(t, n) = v
    BY <1>1, <1>6 DEF Agreed, NoCall
  <2>3. \A n \in Names : Comes(t, n) => Comes(t, n)'
    BY <1>1 DEF Comes, Brought
  <2>5. (\A x \in {} : Sourced(x, t)) /\ (\A x \in {} : x.do = "command" => x.tab # t)
    OBVIOUS
  <2>6. /\ ~(call'.at = "posted" /\ call'.tab = t)
        /\ \A i \in DOMAIN requests' : requests'[i].do = "command" => requests'[i].tab # t
    BY <1>1, <1>9 DEF NoCall
  <2>7. bus'[t] = bus[t] /\ pack'[t] = pack[t] /\ strict'[t] = strict[t]
    BY <1>1
  <2> QED BY <1>4, <2>1, <2>2, <2>3, <2>5, <2>6, <2>7, FollowsKept
<1> QED BY <1>7, <1>8, <1>9, <1>10, <1>11, <1>12, <1>13 DEF PacksInv

\* The command that the extension has for the page, if that is there.
LEMMA PostedCommand ==
    ASSUME PacksInv, NEW e \in Injections, NEW t0 \in Tabs,
           bus' = IF open[t0] THEN [bus EXCEPT ![t0] = Append(@, e)] ELSE bus
    PROVE  /\ bus' \in [Tabs -> Seq(Injections)]
           /\ \A t \in Tabs : t # t0 \/ ~open[t0] => bus'[t] = bus[t]
           /\ \A t \in Tabs :
                 /\ DOMAIN bus[t] \subseteq DOMAIN bus'[t] /\ DOMAIN bus'[t] \subseteq Nat
                 /\ \A i \in DOMAIN bus[t] : bus'[t][i] = bus[t][i]
                 /\ \A i \in DOMAIN bus'[t] :
                       \/ i \in DOMAIN bus[t] /\ bus'[t][i] = bus[t][i]
                       \/ /\ t = t0 /\ open[t0] /\ bus'[t][i] = e
                          /\ \A j \in DOMAIN bus'[t] : j <= i
           /\ open[t0] => \E i \in DOMAIN bus'[t0] : bus'[t0][i] = e
<1>1. bus \in [Tabs -> Seq(Injections)]
  BY DEF PacksInv, PacksTypes
<1>2. CASE ~open[t0]
  BY <1>1, <1>2, Queue
<1>3. CASE open[t0]
  <2> DEFINE s == bus[t0]
             q == Append(s, e)
  <2>1. s \in Seq(Injections) /\ Len(s) \in Nat /\ DOMAIN s = 1..Len(s)
    BY <1>1, Queue
  <2>2. /\ q \in Seq(Injections) /\ Len(q) = Len(s) + 1 /\ \A i \in 1..Len(s) : q[i] = s[i]
        /\ q[Len(s) + 1] = e
    BY <1>1, <2>1, AppendProperties
  <2>3. bus' = [bus EXCEPT ![t0] = q]
    BY <1>3
  <2> HIDE DEF s, q
  <2>4. DOMAIN q = 1..(Len(s) + 1)
    BY <2>2, Queue
  <2>5. bus'[t0] = q /\ \A t \in Tabs \ {t0} : bus'[t] = bus[t]
    BY <1>1, <2>3
  <2>6. bus' \in [Tabs -> Seq(Injections)]
    BY <1>1, <2>2, <2>3
  <2>7. /\ DOMAIN s \subseteq DOMAIN q /\ DOMAIN q \subseteq Nat
        /\ \A i \in DOMAIN s : q[i] = s[i]
        /\ \A i \in DOMAIN q : (i \in DOMAIN s /\ q[i] = s[i]) \/ (q[i] = e /\ \A j \in DOMAIN q : j <= i)
        /\ \E i \in DOMAIN q : q[i] = e
    BY <2>1, <2>2, <2>4
  <2>8. ASSUME NEW t \in Tabs
        PROVE  /\ DOMAIN bus[t] \subseteq DOMAIN bus'[t] /\ DOMAIN bus'[t] \subseteq Nat
               /\ \A i \in DOMAIN bus[t] : bus'[t][i] = bus[t][i]
               /\ \A i \in DOMAIN bus'[t] :
                     \/ i \in DOMAIN bus[t] /\ bus'[t][i] = bus[t][i]
                     \/ /\ t = t0 /\ open[t0] /\ bus'[t][i] = e
                        /\ \A j \in DOMAIN bus'[t] : j <= i
    <3>1. CASE t = t0
      BY <1>3, <2>5, <2>7, <3>1 DEF s
    <3>2. CASE t # t0
      <4>1. bus'[t] = bus[t] /\ DOMAIN bus[t] \subseteq Nat
        BY <1>1, <2>5, <3>2, Queue
      <4> QED BY <4>1
    <3> QED BY <3>1, <3>2
  <2>9. \E i \in DOMAIN bus'[t0] : bus'[t0][i] = e
    BY <2>5, <2>7
  <2>10. \A t \in Tabs : t # t0 \/ ~open[t0] => bus'[t] = bus[t]
    BY <1>3, <2>5
  <2> QED BY <2>6, <2>8, <2>9, <2>10
<1> QED BY <1>2, <1>3

LEMMA PostStep ==
    ASSUME PacksAssumption, PacksInv, Post
    PROVE  PacksInv'
<1> DEFINE t0 == call.tab
           n0 == call.name
           b0 == call.body
           e == <<n0, b0, TRUE>>
<1>1. /\ requests # <<>> /\ Head(requests).do = "command" /\ requests' = Tail(requests)
      /\ call' = [call EXCEPT !.at = "posted"]
      /\ UNCHANGED <<open, loading, strict, pack, stored, told, spoilt>>
  BY DEF Post, Serve, page
<1>2. OfTool(Head(requests))
  BY <1>1 DEF OfTool
<1>3. Shifts(1, {}) /\ requests' \in Seq(Requests)
  BY <1>1, Served
<1>4. /\ call # NoCall /\ call.at = "sent" /\ t0 \in Tabs /\ n0 \in Names /\ b0 \in Values
      /\ Head(requests).tab = t0 /\ Head(requests).packs = <<<<n0, b0>>>>
      /\ Head(requests) = requests[1] /\ 1 \in DOMAIN requests
      /\ told[t0][n0] = Unknown
      /\ \A t \in Tabs : \A i \in DOMAIN bus[t] : ~OfCall(bus[t][i])
  BY <1>1, <1>2, CallOfHead
<1>5. \A i \in DOMAIN requests' : ~OfTool(requests'[i])
  BY <1>2, <1>3, <1>4, NoRequestLeft
<1>6. First = <<n0, b0>>
  BY <1>4 DEF First
<1>7. bus' = IF open[t0] THEN [bus EXCEPT ![t0] = Append(@, e)] ELSE bus
  BY <1>4, <1>6 DEF Post, Posted, At
<1>8. call \in [tab : Tabs, name : Names, body : Values, at : {"sent", "posted", "replied"}, ok : BOOLEAN]
      /\ (call.ok => call.body \notin Broken)
  BY <1>4 DEF PacksInv, PacksTypes
<1>9. /\ call' \in [tab : Tabs, name : Names, body : Values, at : {"sent", "posted", "replied"}, ok : BOOLEAN]
      /\ call'.tab = t0 /\ call'.name = n0 /\ call'.body = b0 /\ call'.at = "posted" /\ call'.ok = call.ok
      /\ (call'.ok => call'.body \notin Broken)
  BY <1>1, <1>8
<1>0. e \in Injections /\ e[1] = n0 /\ e[2] = b0 /\ OfCall(e)
  BY <1>4 DEF Injections, OfCall
<1> HIDE DEF t0, n0, b0, e
<1>10. /\ bus' \in [Tabs -> Seq(Injections)]
       /\ \A t \in Tabs : t # t0 \/ ~open[t0] => bus'[t] = bus[t]
       /\ \A t \in Tabs :
             /\ DOMAIN bus[t] \subseteq DOMAIN bus'[t] /\ DOMAIN bus'[t] \subseteq Nat
             /\ \A i \in DOMAIN bus[t] : bus'[t][i] = bus[t][i]
             /\ \A i \in DOMAIN bus'[t] :
                   \/ i \in DOMAIN bus[t] /\ bus'[t][i] = bus[t][i]
                   \/ /\ t = t0 /\ open[t0] /\ bus'[t][i] = e
                      /\ \A j \in DOMAIN bus'[t] : j <= i
  <2>1. e \in Injections /\ t0 \in Tabs
    BY <1>0, <1>4
  <2> QED BY <1>7, <2>1, PostedCommand, ZenonT(60)
<1>11. PacksTypes'
  BY <1>1, <1>3, <1>9, <1>10 DEF PacksInv, PacksTypes
<1>12. Unanswered'
  BY <1>1, <1>4, <1>9 DEF Unanswered
<1>13. OneRequest' /\ \A i \in DOMAIN requests' : requests'[i].do # "command"
  BY <1>5, NoneOfTool
<1>14. ASSUME NEW t \in Tabs, NEW i \in DOMAIN bus'[t], OfCall(bus'[t][i])
       PROVE  t = t0 /\ bus'[t][i] = e /\ \A j \in DOMAIN bus'[t] : j <= i
  <2>1. ~(i \in DOMAIN bus[t] /\ bus'[t][i] = bus[t][i])
    BY <1>4, <1>14
  <2> QED BY <1>10, <2>1
<1>15. OneCommand'
  <2> SUFFICES ASSUME NEW t \in Tabs, NEW i \in DOMAIN bus'[t], OfCall(bus'[t][i])
               PROVE  /\ call'.at = "posted" /\ call'.tab = t
                      /\ bus'[t][i][1] = call'.name /\ bus'[t][i][2] = call'.body
                      /\ \A j \in DOMAIN bus'[t] : OfCall(bus'[t][j]) => i = j
    BY DEF OneCommand, OfCall
  <2>1. t = t0 /\ bus'[t][i] = e
    BY <1>14
  <2>2. ASSUME NEW j \in DOMAIN bus'[t], OfCall(bus'[t][j]) PROVE i = j
    <3>1. i <= j /\ j <= i /\ i \in Nat /\ j \in Nat
      BY <1>10, <1>14, <2>2
    <3> QED BY <3>1
  <2> QED BY <1>0, <1>9, <2>1, <2>2
<1>16. \A x \in {} : x.do \in {"scan", "clear"} => ~open'[x.tab]
  OBVIOUS
<1>17. ClosedOnly'
  <2>1. \A i \in DOMAIN requests : open'[requests[i].tab] => open[requests[i].tab]
    BY <1>1
  <2> QED BY <1>3, <1>16, <2>1, ClosedKept
<1>18. CallStored'
  <2>1. open[t0] => stored[t0][n0] = b0
    BY <1>1, <1>4 DEF PacksInv, CallStored, t0, n0, b0
  <2> QED BY <1>1, <1>9, <2>1 DEF CallStored
<1>19. ToldStored'
  BY <1>1 DEF PacksInv, ToldStored
<1>20. ASSUME NEW t \in Tabs, open'[t], ~spoilt'[t] PROVE Follows(t)'
  <2>1. open[t] /\ Follows(t)
    BY <1>1, <1>20 DEF PacksInv
  <2>2. \A n \in Names, v \in Values : Agreed(t, n)' = v => Agreed(t, n) = v /\ told[t][n] = v
    BY <1>1, <1>4, <1>9 DEF Agreed
  <2>3. \A i \in DOMAIN requests : i <= 1 => i = 1
    BY <1>3 DEF Shifts
  <2>4. \A n \in Names : Comes(t, n) => Comes(t, n)'
    BY <1>1, <1>3, <1>4, <2>3, ComesKept, NothingSourced
  <2>5. (\A x \in {} : Sourced(x, t)) /\ (\A x \in {} : x.do = "command" => x.tab # t)
    OBVIOUS
  <2>6. \A i \in DOMAIN requests' : requests'[i].do = "command" => requests'[i].tab # t
    BY <1>13
  <2>7. pack'[t] = pack[t] /\ strict'[t] = strict[t]
    BY <1>1
  <2>8. CASE t # t0
    <3>1. ~(call'.at = "posted" /\ call'.tab = t)
      BY <1>9, <2>8
    <3>2. bus'[t] = bus[t]
      BY <1>10, <2>8
    <3> QED BY <1>3, <2>1, <2>2, <2>4, <2>5, <2>6, <2>7, <3>1, <3>2, FollowsKept
  <2>9. CASE t = t0
    <3>1. Ahead(t)'
      BY <1>3, <2>1, <2>5, <2>6, AheadKept DEF Follows
    <3>2. NoneAfter(bus'[t], call'.name, call'.body)
      <4> SUFFICES ASSUME NEW i \in DOMAIN bus'[t], NEW j \in DOMAIN bus'[t], OfCall(bus'[t][i]), i < j
                   PROVE  FALSE
        BY DEF NoneAfter
      <4>1. j <= i /\ i \in Nat /\ j \in Nat
        BY <1>10, <1>14
      <4> QED BY <4>1
    <3>3. ASSUME NEW i \in DOMAIN requests', NEW k \in Brought(requests'[i], t, n0)
          PROVE  requests'[i].packs[k][2] = b0
      <4>1. i + 1 \in DOMAIN requests /\ requests'[i] = requests[i + 1] /\ i \in Nat \ {0}
        BY <1>3 DEF Shifts
      <4>2. k \in Brought(requests[i + 1], t, call.name)
        BY <3>3, <4>1 DEF n0
      <4>3. Ahead(t)
        BY <2>1 DEF Follows
      <4>4. requests[1].do = "command" /\ requests[1].tab = t
        BY <1>1, <1>4, <2>9
      <4>5. requests[i + 1].packs[k][2] = call.body \/ (i + 1 < 1 /\ k = 1)
        BY <1>4, <4>1, <4>2, <4>3, <4>4 DEF Ahead
      <4> QED BY <4>1, <4>5 DEF b0
    <3>4. Behind(t)'
      <4>1. \A i \in DOMAIN requests' : \A k \in Brought(requests'[i], t, call'.name) :
                requests'[i].packs[k][2] = call'.body
        BY <1>9, <3>3
      <4>2. Behind(t)' <=> (call'.at = "posted" /\ call'.tab = t =>
        /\ NoneAfter(bus'[t], call'.name, call'.body)
        /\ \A i \in DOMAIN requests' : \A k \in Brought(requests'[i], t, call'.name) : requests'[i].packs[k][2] = call'.body)
        BY DEF Behind, Brought, NoneAfter, OfCall
      <4> QED BY <3>2, <4>1, <4>2
    <3>5. ASSUME NEW n \in Names, NEW v \in Values, Agreed(t, n)' = v
          PROVE  NoOther(t, n, v)' /\ (~strict'[t] => Arrives(t, n, v)')
      <4>1. Agreed(t, n) = v /\ told[t][n] = v /\ v # Unknown
        BY <2>2, <3>5 DEF Values, PacksAssumption
      <4>2. n # n0
        BY <1>4, <2>9, <4>1
      <4>3. NoOther(t, n, v) /\ (~strict[t] => Arrives(t, n, v))
        BY <2>1, <4>1 DEF Follows
      <4>4. \A i \in DOMAIN bus'[t] : bus'[t][i][1] = n => bus'[t][i][2] = v
        <5> SUFFICES ASSUME NEW i \in DOMAIN bus'[t], bus'[t][i][1] = n PROVE bus'[t][i][2] = v
          OBVIOUS
        <5>1. i \in DOMAIN bus[t] /\ bus'[t][i] = bus[t][i]
          BY <1>0, <1>10, <4>2
        <5> QED BY <4>3, <5>1 DEF NoOther
      <4>5. NoOther(t, n, v)'
        BY <1>3, <2>1, <2>5, <4>1, <4>3, <4>4, NoOtherKept
      <4>6. \A i \in DOMAIN bus[t] : i \in DOMAIN bus'[t] /\ bus'[t][i] = bus[t][i]
        BY <1>10
      <4>7. Arrives(t, n, v) => Arrives(t, n, v)'
        BY <2>4, <2>7, <4>6 DEF Arrives
      <4> QED BY <2>7, <4>3, <4>5, <4>7
    <3> QED BY <3>1, <3>4, <3>5 DEF Follows
  <2> QED BY <2>8, <2>9
<1> QED BY <1>11, <1>12, <1>13, <1>15, <1>17, <1>18, <1>19, <1>20 DEF PacksInv

LEMMA StoreStep ==
    ASSUME PacksAssumption, PacksInv, Store
    PROVE  PacksInv'
<1> DEFINE t0 == call.tab
           n0 == call.name
           b0 == call.body
           h == Head(requests)
           r == [h EXCEPT !.do = "command"]
<1>1. /\ requests # <<>> /\ h.do = "store" /\ requests' = Append(Tail(requests), r)
      /\ UNCHANGED <<open, loading, strict, pack, bus, call, told>>
  BY DEF Store, Serve, page, Continue
<1>2. OfTool(Head(requests))
  BY <1>1 DEF OfTool
<1>3. /\ call # NoCall /\ call.at = "sent" /\ t0 \in Tabs /\ n0 \in Names /\ b0 \in Values
      /\ h.tab = t0 /\ h.packs = <<<<n0, b0>>>>
      /\ h = requests[1] /\ 1 \in DOMAIN requests
      /\ told[t0][n0] = Unknown
      /\ \A j \in DOMAIN requests : OfTool(requests[j]) => j = 1
  BY <1>1, <1>2, CallOfHead
<1>4. h \in Requests
  BY <1>1, AtTab
<1>5. r \in Requests /\ r.do = "command" /\ r.tab = t0 /\ r.packs = <<<<n0, b0>>>>
  BY <1>3, <1>4 DEF Requests
<1>6. stored' = [stored EXCEPT ![t0][n0] = b0] /\ spoilt' = [spoilt EXCEPT ![t0] = @ \/ Overtaken(t0, n0)]
  <2>1. At = t0 /\ First[1] = n0 /\ First[2] = b0
    BY <1>3 DEF At, First
  <2> QED BY <2>1 DEF Store, Stored
<1> HIDE DEF t0, n0, b0, h, r
<1>7. Shifts(1, {r}) /\ requests' \in Seq(Requests)
  <2>1. requests' = Append(Tail(requests), r) /\ requests # <<>> /\ r \in Requests
    BY <1>1, <1>5
  <2> QED BY <2>1, Continued
<1>8. /\ stored' \in [Tabs -> [Names -> Values]] /\ stored'[t0][n0] = b0
      /\ \A t \in Tabs, n \in Names : t # t0 \/ n # n0 => stored'[t][n] = stored[t][n]
  BY <1>3, <1>6 DEF PacksInv, PacksTypes
<1>9. /\ spoilt' \in [Tabs -> BOOLEAN] /\ (spoilt'[t0] <=> spoilt[t0] \/ Overtaken(t0, n0))
      /\ \A t \in Tabs \ {t0} : spoilt'[t] = spoilt[t]
  <2>1. spoilt \in [Tabs -> BOOLEAN] /\ Overtaken(t0, n0) \in BOOLEAN
    BY DEF PacksInv, PacksTypes, Overtaken
  <2> QED BY <1>3, <1>6, <2>1
<1>10. PacksTypes'
  BY <1>1, <1>7, <1>8, <1>9 DEF PacksInv, PacksTypes
<1>11. Unanswered'
  BY <1>1 DEF PacksInv, Unanswered
<1>12. ASSUME NEW i \in DOMAIN requests'
       PROVE  \/ i + 1 \in DOMAIN requests /\ requests'[i] = requests[i + 1] /\ ~OfTool(requests'[i])
              \/ requests'[i] = r /\ \A j \in DOMAIN requests' : j <= i
  <2>1. CASE i + 1 \in DOMAIN requests /\ requests'[i] = requests[i + 1]
    <3>1. i + 1 # 1
      BY <1>7 DEF Shifts
    <3> QED BY <1>3, <2>1, <3>1
  <2> QED BY <1>7, <2>1 DEF Shifts
<1>13. OneRequest'
  <2> SUFFICES ASSUME NEW i \in DOMAIN requests', OfTool(requests'[i])
               PROVE  /\ call'.at = "sent" /\ requests'[i].tab = call'.tab
                      /\ requests'[i].packs = <<<<call'.name, call'.body>>>>
                      /\ \A j \in DOMAIN requests' : OfTool(requests'[j]) => i = j
    BY DEF OneRequest, OfTool
  <2>1. requests'[i] = r /\ \A j \in DOMAIN requests' : j <= i
    BY <1>12
  <2>2. ASSUME NEW j \in DOMAIN requests', OfTool(requests'[j]) PROVE i = j
    <3>1. j <= i /\ i <= j
      BY <1>12, <2>1, <2>2
    <3> QED BY <1>7, <3>1 DEF Shifts
  <2> QED BY <1>1, <1>3, <1>5, <2>1, <2>2 DEF t0, n0, b0
<1>14. OneCommand'
  BY <1>1 DEF PacksInv, OneCommand, OfCall
<1>15. ClosedOnly'
  <2>1. \A x \in {r} : x.do \in {"scan", "clear"} => ~open'[x.tab]
    BY <1>5
  <2>2. \A i \in DOMAIN requests : open'[requests[i].tab] => open[requests[i].tab]
    BY <1>1
  <2> QED BY <1>7, <2>1, <2>2, ClosedKept
<1>16. CallStored'
  BY <1>1, <1>8 DEF CallStored, t0, n0, b0
<1>17. ToldStored'
  <2> SUFFICES ASSUME NEW t \in Tabs, NEW n \in Names, open[t], told[t][n] # Unknown PROVE stored'[t][n] = told[t][n]
    BY <1>1 DEF ToldStored
  <2>1. t # t0 \/ n # n0
    BY <1>3
  <2> QED BY <1>8, <2>1 DEF PacksInv, ToldStored
<1>18. ASSUME NEW t \in Tabs, open'[t], ~spoilt'[t] PROVE Follows(t)'
  <2>1. open[t] /\ ~spoilt[t] /\ Follows(t)
    BY <1>1, <1>9, <1>18 DEF PacksInv
  <2>2. \A n \in Names, v \in Values : Agreed(t, n)' = v => Agreed(t, n) = v
    BY <1>1, SameAgreed
  <2>3. \A i \in DOMAIN requests : i <= 1 => i = 1
    BY <1>7 DEF Shifts
  <2>4. \A n \in Names : Comes(t, n) => Comes(t, n)'
    <3>1. requests[1].do = "store"
      BY <1>1, <1>3
    <3> QED BY <1>1, <1>7, <2>3, <3>1, ComesKept, NothingSourced
  <2>5. \A x \in {r} : Sourced(x, t)
    BY <1>5, NothingSourced
  <2>6. bus'[t] = bus[t] /\ pack'[t] = pack[t] /\ strict'[t] = strict[t] /\ call' = call
    BY <1>1
  <2>7. CASE t # t0
    <3>1. \A x \in {r} : x.do = "command" => x.tab # t
      BY <1>5, <2>7
    <3> QED BY <1>7, <2>1, <2>2, <2>4, <2>5, <2>6, <3>1, FollowsKept
  <2>8. CASE t = t0
    <3>1. ~Overtaken(t, call.name)
      BY <1>9, <1>18, <2>8 DEF n0
    <3>2. Ahead(t)'
      <4> SUFFICES ASSUME NEW i \in DOMAIN requests', NEW j \in DOMAIN requests',
                          requests'[i].do = "command", requests'[i].tab = t,
                          NEW k \in Brought(requests'[j], t, call.name)
                   PROVE  j < i /\ k = 1
        BY <2>6 DEF Ahead, Brought
      <4>1. requests'[i] = r /\ \A m \in DOMAIN requests' : m <= i
        BY <1>12 DEF OfTool
      <4>2. requests'[j].do = "rehydrate" /\ requests'[j].tab = t /\ k \in DOMAIN requests'[j].packs /\ requests'[j].packs[k][1] = call.name
        BY DEF Brought
      <4>3. j + 1 \in DOMAIN requests /\ requests'[j] = requests[j + 1]
        BY <1>5, <1>12, <4>2
      <4>4. j # i
        BY <1>5, <4>1, <4>2
      <4>5. j < i
        BY <1>7, <4>1, <4>4 DEF Shifts
      <4>6. k = 1
        <5>1. requests[j + 1] \in Requests
          BY <4>3, TabOfRequest
        <5>2. requests[j + 1].packs \in Seq(Names \X Values)
          BY <5>1 DEF Requests
        <5>3. k \in 1..Len(requests[j + 1].packs) /\ Len(requests[j + 1].packs) \in Nat
          BY <4>2, <4>3, <5>2, Queue
        <5>4. ~(k \in 2..Len(requests[j + 1].packs))
          BY <3>1, <4>2, <4>3 DEF Overtaken
        <5> QED BY <5>3, <5>4
      <4> QED BY <4>5, <4>6
    <3>3. Behind(t)'
      BY <1>3, <2>6 DEF Behind
    <3>4. ASSUME NEW n \in Names, NEW v \in Values, Agreed(t, n)' = v
          PROVE  NoOther(t, n, v)' /\ (~strict'[t] => Arrives(t, n, v)')
      <4>1. Agreed(t, n) = v
        BY <2>2, <3>4
      <4>2. NoOther(t, n, v) /\ (~strict[t] => Arrives(t, n, v))
        BY <2>1, <4>1 DEF Follows
      <4>3. \A i \in DOMAIN bus'[t] : bus'[t][i][1] = n => bus'[t][i][2] = v
        BY <2>6, <4>2 DEF NoOther
      <4>4. NoOther(t, n, v)'
        BY <1>7, <2>1, <2>5, <4>1, <4>2, <4>3, NoOtherKept
      <4>5. Arrives(t, n, v) => Arrives(t, n, v)'
        BY <2>4, <2>6 DEF Arrives
      <4> QED BY <2>6, <4>2, <4>4, <4>5
    <3> QED BY <3>2, <3>3, <3>4 DEF Follows
  <2> QED BY <2>7, <2>8
<1> QED BY <1>10, <1>11, <1>13, <1>14, <1>15, <1>16, <1>17, <1>18 DEF PacksInv

LEMMA RehydrateStep ==
    ASSUME PacksAssumption, PacksInv, Rehydrate
    PROVE  PacksInv'
<1> DEFINE h == Head(requests)
           t0 == h.tab
           first == Head(h.packs)
           e == <<first[1], first[2], FALSE>>
<1>1. /\ requests # <<>> /\ h.do = "rehydrate" /\ NextPack
      /\ UNCHANGED <<open, loading, strict, pack, stored, call, told, spoilt>>
  BY DEF Rehydrate, Serve, page
<1>2. bus' = IF open[t0] THEN [bus EXCEPT ![t0] = Append(@, e)] ELSE bus
  BY DEF Rehydrate, Posted, At, First
<1>3. h = requests[1] /\ h \in Requests /\ t0 \in Tabs /\ 1 \in DOMAIN requests
  BY <1>1, AtTab
<1>4. h.packs \in Seq(Names \X Values) /\ h.packs # <<>>
  BY <1>1, <1>3 DEF Requests
<1>5. first = h.packs[1] /\ first \in Names \X Values /\ 1 \in DOMAIN h.packs
  BY <1>4, Queue
<1>6. e \in Injections /\ e[1] = first[1] /\ e[2] = first[2] /\ ~OfCall(e)
  <2> HIDE DEF first
  <2> QED BY <1>5 DEF Injections, OfCall
<1>7. PICK N :
      /\ Shifts(1, N) /\ requests' \in Seq(Requests)
      /\ \A r \in N : r.do = "rehydrate" /\ r.tab = t0
      /\ \A r \in N, t \in Tabs : Sourced(r, t)
      /\ \A t, n : \A k \in Brought(requests[1], t, n) :
            k = 1 \/ \E r \in N : Brought(r, t, n) # {}
  BY <1>1, RestOfPacks
<1> HIDE DEF h, t0, first, e
<1>8. /\ bus' \in [Tabs -> Seq(Injections)]
      /\ \A t \in Tabs : t # t0 \/ ~open[t0] => bus'[t] = bus[t]
      /\ \A t \in Tabs :
            /\ DOMAIN bus[t] \subseteq DOMAIN bus'[t] /\ DOMAIN bus'[t] \subseteq Nat
            /\ \A i \in DOMAIN bus[t] : bus'[t][i] = bus[t][i]
            /\ \A i \in DOMAIN bus'[t] :
                  \/ i \in DOMAIN bus[t] /\ bus'[t][i] = bus[t][i]
                  \/ /\ t = t0 /\ open[t0] /\ bus'[t][i] = e
                     /\ \A j \in DOMAIN bus'[t] : j <= i
      /\ open[t0] => \E i \in DOMAIN bus'[t0] : bus'[t0][i] = e
  <2>1. e \in Injections /\ t0 \in Tabs
    BY <1>3, <1>6
  <2> QED BY <1>2, <2>1, PostedCommand, ZenonT(60)
<1>9. PacksTypes'
  BY <1>1, <1>7, <1>8 DEF PacksInv, PacksTypes
<1>10. Unanswered'
  BY <1>1 DEF PacksInv, Unanswered
<1>11. \A r \in N : ~OfTool(r) /\ r.do # "command" /\ r.do # "read"
  BY <1>7 DEF OfTool
<1>12. OneRequest'
  BY <1>1, <1>7, <1>11, OneRequestKept
<1>13. ASSUME NEW t \in Tabs, NEW i \in DOMAIN bus'[t], OfCall(bus'[t][i])
       PROVE  i \in DOMAIN bus[t] /\ bus'[t][i] = bus[t][i]
  BY <1>6, <1>8, <1>13
<1>14. OneCommand'
  <2> SUFFICES ASSUME NEW t \in Tabs, NEW i \in DOMAIN bus'[t], OfCall(bus'[t][i])
               PROVE  /\ call'.at = "posted" /\ call'.tab = t
                      /\ bus'[t][i][1] = call'.name /\ bus'[t][i][2] = call'.body
                      /\ \A j \in DOMAIN bus'[t] : OfCall(bus'[t][j]) => i = j
    BY DEF OneCommand, OfCall
  <2> QED BY <1>1, <1>13 DEF PacksInv, OneCommand
<1>15. ClosedOnly'
  <2>1. \A x \in N : x.do \in {"scan", "clear"} => ~open'[x.tab]
    BY <1>7
  <2>2. \A i \in DOMAIN requests : open'[requests[i].tab] => open[requests[i].tab]
    BY <1>1
  <2> QED BY <1>7, <2>1, <2>2, ClosedKept
<1>16. CallStored'
  <2> SUFFICES ASSUME call # NoCall, open[call.tab]
               PROVE  \/ call.at = "sent" /\ \A i \in DOMAIN requests' : requests'[i].do # "command"
                      \/ stored[call.tab][call.name] = call.body
    BY <1>1 DEF CallStored
  <2>1. CASE call.at = "sent" /\ \A i \in DOMAIN requests : requests[i].do # "command"
    BY <1>7, <1>11, <2>1 DEF Shifts
  <2> QED BY <2>1 DEF PacksInv, CallStored
<1>17. ToldStored'
  BY <1>1 DEF PacksInv, ToldStored
<1>18. ASSUME NEW t \in Tabs, open'[t], ~spoilt'[t] PROVE Follows(t)'
  <2>1. open[t] /\ Follows(t)
    BY <1>1, <1>18 DEF PacksInv
  <2>2. \A n \in Names, v \in Values : Agreed(t, n)' = v => Agreed(t, n) = v
    BY <1>1, SameAgreed
  <2>3. \A r \in N : Sourced(r, t) /\ (r.do = "command" => r.tab # t)
    BY <1>7, <1>11
  <2>4. pack'[t] = pack[t] /\ strict'[t] = strict[t] /\ call' = call
    BY <1>1
  <2>5. CASE t # t0
    <3>1. bus'[t] = bus[t]
      BY <1>8, <2>5
    <3>2. \A n \in Names : Comes(t, n) => Comes(t, n)'
      <4>1. requests[1].tab # t
        BY <1>3, <2>5 DEF t0
      <4> QED BY <1>1, <1>7, <4>1, ComesElsewhere
    <3> QED BY <1>7, <2>1, <2>2, <2>3, <2>4, <3>1, <3>2, FollowsKept
  <2>6. CASE t = t0
    <3>1. \A n : 1 \in Brought(requests[1], t, n) <=> first[1] = n
      BY <1>1, <1>3, <1>5, <2>6 DEF Brought, t0
    <3>2. requests[1].packs[1][2] = first[2]
      BY <1>3, <1>5
    <3>3. Ahead(t)'
      BY <1>7, <2>1, <2>3, <2>4, AheadKept DEF Follows
    <3>4. Behind(t)'
      <4> SUFFICES ASSUME call.at = "posted", call.tab = t PROVE Behind(t)'
        BY <2>4 DEF Behind
      <4>1. Behind(t)
        BY <2>1 DEF Follows
      <4>2. \A i \in DOMAIN requests' : \A k \in Brought(requests'[i], t, call.name) : requests'[i].packs[k][2] = call.body
        BY <1>7, <2>1, <2>3, <4>1, HandKept
      <4>3. NoneAfter(bus'[t], call.name, call.body)
        <5> SUFFICES ASSUME NEW i \in DOMAIN bus'[t], NEW j \in DOMAIN bus'[t],
                            OfCall(bus'[t][i]), i < j, bus'[t][j][1] = call.name
                     PROVE  bus'[t][j][2] = call.body
          BY DEF NoneAfter
        <5>1. i \in DOMAIN bus[t] /\ bus'[t][i] = bus[t][i]
          BY <1>13
        <5>2. CASE j \in DOMAIN bus[t] /\ bus'[t][j] = bus[t][j]
          BY <4>1, <5>1, <5>2 DEF Behind, NoneAfter
        <5>3. CASE bus'[t][j] = e
          <6>1. first[1] = call.name
            BY <1>6, <5>3
          <6>2. 1 \in Brought(requests[1], t, call.name)
            BY <3>1, <6>1
          <6>3. requests[1].packs[1][2] = call.body
            BY <1>3, <4>1, <6>2 DEF Behind
          <6> QED BY <1>6, <3>2, <5>3, <6>3
        <5> QED BY <1>8, <5>2, <5>3
      <4>4. Behind(t)' <=> (call'.at = "posted" /\ call'.tab = t =>
        /\ NoneAfter(bus'[t], call'.name, call'.body)
        /\ \A i \in DOMAIN requests' : \A k \in Brought(requests'[i], t, call'.name) : requests'[i].packs[k][2] = call'.body)
        BY DEF Behind, Brought, NoneAfter, OfCall
      <4> QED BY <2>4, <4>2, <4>3, <4>4
    <3>5. ASSUME NEW n \in Names, NEW v \in Values, Agreed(t, n)' = v
          PROVE  NoOther(t, n, v)' /\ (~strict'[t] => Arrives(t, n, v)')
      <4>1. Agreed(t, n) = v
        BY <2>2, <3>5
      <4>2. NoOther(t, n, v) /\ (~strict[t] => Arrives(t, n, v))
        BY <2>1, <4>1 DEF Follows
      <4>3. \A i \in DOMAIN bus'[t] : bus'[t][i][1] = n => bus'[t][i][2] = v
        <5> SUFFICES ASSUME NEW i \in DOMAIN bus'[t], bus'[t][i][1] = n PROVE bus'[t][i][2] = v
          OBVIOUS
        <5>1. CASE i \in DOMAIN bus[t] /\ bus'[t][i] = bus[t][i]
          BY <4>2, <5>1 DEF NoOther
        <5>2. CASE bus'[t][i] = e
          <6>1. 1 \in Brought(requests[1], t, n)
            BY <1>6, <3>1, <5>2
          <6>2. requests[1].packs[1][2] = v
            BY <1>3, <4>2, <6>1 DEF NoOther
          <6> QED BY <1>6, <3>2, <5>2, <6>2
        <5> QED BY <1>8, <5>1, <5>2
      <4>4. NoOther(t, n, v)'
        BY <1>7, <2>1, <2>3, <4>1, <4>2, <4>3, NoOtherKept
      <4>5. \A i \in DOMAIN bus[t] : i \in DOMAIN bus'[t] /\ bus'[t][i] = bus[t][i]
        BY <1>8
      <4>6. ASSUME Comes(t, n) PROVE Comes(t, n)' \/ \E i \in DOMAIN bus'[t] : bus'[t][i][1] = n
        <5>1. CASE Brought(requests[1], t, n) # {}
          <6>1. PICK k \in Brought(requests[1], t, n) : TRUE
            BY <5>1
          <6>2. CASE k = 1
            <7>1. e[1] = n
              BY <1>6, <3>1, <6>1, <6>2
            <7>2. \E i \in DOMAIN bus'[t] : bus'[t][i] = e
              BY <1>8, <2>1, <2>6
            <7> QED BY <7>1, <7>2
          <6>3. CASE \E r \in N : Brought(r, t, n) # {}
            <7>1. \E i \in DOMAIN requests' : Brought(requests'[i], t, n) # {}
              BY <1>7, <6>3 DEF Shifts
            <7> QED BY <7>1 DEF Comes, Brought
          <6> QED BY <1>7, <6>2, <6>3
        <5>2. CASE Brought(requests[1], t, n) = {}
          <6>1. \A i \in DOMAIN requests : i <= 1 => i = 1
            BY <1>7 DEF Shifts
          <6>2. requests[1].do # "read"
            BY <1>1, <1>3
          <6> QED BY <1>1, <1>7, <4>6, <5>2, <6>1, <6>2, ComesKept
        <5> QED BY <5>1, <5>2
      <4>7. Arrives(t, n, v) => Arrives(t, n, v)'
        <5> SUFFICES ASSUME Arrives(t, n, v) PROVE Arrives(t, n, v)'
          OBVIOUS
        <5>1. CASE pack[t][n] = v
          BY <2>4, <5>1 DEF Arrives
        <5>2. CASE \E i \in DOMAIN bus[t] : bus[t][i][1] = n
          <6>1. \E i \in DOMAIN bus'[t] : bus'[t][i][1] = n
            BY <4>5, <5>2
          <6> QED BY <6>1 DEF Arrives
        <5>3. CASE v # None /\ Comes(t, n)
          BY <4>6, <5>3 DEF Arrives
        <5> QED BY <5>1, <5>2, <5>3 DEF Arrives
      <4> QED BY <2>4, <4>2, <4>4, <4>7
    <3> QED BY <3>3, <3>4, <3>5 DEF Follows
  <2> QED BY <2>5, <2>6
<1> QED BY <1>9, <1>10, <1>12, <1>14, <1>15, <1>16, <1>17, <1>18 DEF PacksInv

LEMMA TailOf ==
    ASSUME NEW R, NEW s \in Seq(R), s # <<>>
    PROVE  /\ Tail(s) \in Seq(R) /\ Head(s) = s[1] /\ s[1] \in R /\ 1 \in DOMAIN s
           /\ DOMAIN s \subseteq Nat \ {0} /\ DOMAIN Tail(s) \subseteq Nat \ {0}
           /\ \A i \in DOMAIN Tail(s) : i + 1 \in DOMAIN s /\ Tail(s)[i] = s[i + 1]
           /\ \A i \in DOMAIN s : i = 1 \/ \E j \in DOMAIN Tail(s) : Tail(s)[j] = s[i]
<1>1. Len(s) \in Nat \ {0} /\ DOMAIN s = 1..Len(s) /\ Head(s) = s[1] /\ s[1] \in R
  BY Queue
<1> DEFINE q == Tail(s)
<1>2. /\ q \in Seq(R) /\ Len(q) = Len(s) - 1 /\ \A i \in 1..(Len(s) - 1) : q[i] = s[i + 1]
  BY HeadTailProperties
<1> HIDE DEF q
<1>3. DOMAIN q = 1..(Len(s) - 1)
  BY <1>2, Queue
<1>4. ASSUME NEW i \in 1..Len(s), i # 1 PROVE \E j \in DOMAIN q : q[j] = s[i]
  <2>1. i - 1 \in 1..(Len(s) - 1) /\ (i - 1) + 1 = i
    BY <1>1, <1>4
  <2>2. q[i - 1] = s[i]
    BY <1>2, <2>1
  <2> QED BY <1>3, <2>1, <2>2
<1>5. \A i \in DOMAIN q : i + 1 \in DOMAIN s /\ q[i] = s[i + 1]
  BY <1>1, <1>2, <1>3
<1>6. q \in Seq(R) /\ DOMAIN s \subseteq Nat \ {0} /\ DOMAIN q \subseteq Nat \ {0}
  BY <1>1, <1>2, <1>3
<1> QED BY <1>1, <1>4, <1>5, <1>6 DEF q

\* The bus of a tab after the command of a call was taken off it, or marked.
LEMMA Withdrawn ==
    ASSUME PacksAssumption, PacksInv, Timeout
    PROVE  /\ bus' \in [Tabs -> Seq(Injections)] /\ \A t \in Tabs : t # call.tab => bus'[t] = bus[t]
           /\ \A t \in Tabs : \A i \in DOMAIN bus'[t] :
                 ~OfCall(bus'[t][i]) /\ \E j \in DOMAIN bus[t] :
                     bus'[t][i][1] = bus[t][j][1] /\ bus'[t][i][2] = bus[t][j][2]
           /\ \A t \in Tabs : \A j \in DOMAIN bus[t] :
                 OfCall(bus[t][j]) \/ \E i \in DOMAIN bus'[t] : bus'[t][i][1] = bus[t][j][1]
<1> DEFINE t0 == call.tab
           s == bus[t0]
           marked == [i \in DOMAIN s |-> <<s[i][1], s[i][2], FALSE>>]
<1>1. call # NoCall
  BY DEF Timeout, NoCall
<1>2. t0 \in Tabs
  BY <1>1 DEF PacksInv, PacksTypes
<1>3. s \in Seq(Injections) /\ Len(s) \in Nat /\ DOMAIN s = 1..Len(s) /\ \A i \in 1..Len(s) : s[i] \in Injections
  BY <1>2, Queue DEF PacksInv, PacksTypes
<1>4. \A t \in Tabs : \A i \in DOMAIN bus[t] : OfCall(bus[t][i]) =>
          t = t0 /\ \A j \in DOMAIN bus[t] : OfCall(bus[t][j]) => i = j
  BY DEF PacksInv, OneCommand
<1>5. PICK q :
      /\ bus' = [bus EXCEPT ![t0] = q]
      /\ q = marked \/ \E i \in DOMAIN s : OfCall(s[i]) /\ q = RemoveAt(s, i)
  BY DEF Timeout
<1>6. bus \in [Tabs -> Seq(Injections)]
  BY DEF PacksInv, PacksTypes
<1>7. \A t \in Tabs \ {t0} : \A i \in DOMAIN bus[t] : ~OfCall(bus[t][i])
  BY <1>4
<1> HIDE DEF t0
<1>8. /\ q \in Seq(Injections)
      /\ \A i \in DOMAIN q : ~OfCall(q[i]) /\ \E j \in DOMAIN s : q[i][1] = s[j][1] /\ q[i][2] = s[j][2]
      /\ \A j \in DOMAIN s : OfCall(s[j]) \/ \E i \in DOMAIN q : q[i][1] = s[j][1]
  <2> HIDE DEF s
  <2>1. CASE q = marked
    <3>1. \A i \in 1..Len(s) : <<s[i][1], s[i][2], FALSE>> \in Injections
      BY <1>3 DEF Injections
    <3>2. DOMAIN q = 1..Len(s) /\ \A i \in 1..Len(s) : q[i] = <<s[i][1], s[i][2], FALSE>>
      BY <1>3, <2>1
    <3>3. q \in [1..Len(s) -> Injections]
      BY <1>3, <2>1, <3>1
    <3>4. q \in Seq(Injections)
      BY <1>3, <3>3
    <3>5. ASSUME NEW i \in DOMAIN s
          PROVE  ~OfCall(q[i]) /\ q[i][1] = s[i][1] /\ q[i][2] = s[i][2]
      <4>1. q[i] = <<s[i][1], s[i][2], FALSE>>
        BY <1>3, <3>2
      <4> QED BY <4>1 DEF OfCall
    <3>6. DOMAIN q = DOMAIN s
      BY <1>3, <3>2
    <3> QED BY <3>4, <3>5, <3>6
  <2>2. ASSUME NEW i \in DOMAIN s, OfCall(s[i]), q = RemoveAt(s, i)
        PROVE  /\ q \in Seq(Injections)
               /\ \A k \in DOMAIN q : ~OfCall(q[k]) /\ \E j \in DOMAIN s : q[k][1] = s[j][1] /\ q[k][2] = s[j][2]
               /\ \A j \in DOMAIN s : OfCall(s[j]) \/ \E k \in DOMAIN q : q[k][1] = s[j][1]
    <3>1. /\ q \in Seq(Injections) /\ DOMAIN q = 1..(Len(s) - 1)
          /\ \A k \in DOMAIN q : q[k] = IF k < i THEN s[k] ELSE s[k + 1]
      <4>1. q = Cut(s, i)
        BY <2>2 DEF RemoveAt, Cut
      <4> QED BY <1>3, <4>1, WithoutOne, SMTT(40)
    <3>2. \A j \in DOMAIN s : OfCall(s[j]) => i = j
      BY <1>4, <1>2, <2>2 DEF s
    <3>3. ASSUME NEW k \in DOMAIN q PROVE \E j \in DOMAIN s : j # i /\ q[k] = s[j]
      BY <1>3, <3>1, <3>3
    <3>4. ASSUME NEW j \in DOMAIN s, j # i PROVE \E k \in DOMAIN q : q[k] = s[j]
      <4>1. CASE j < i
        BY <1>3, <3>1, <4>1
      <4>2. CASE ~(j < i)
        <5>1. j - 1 \in 1..(Len(s) - 1) /\ ~(j - 1 < i) /\ (j - 1) + 1 = j
          BY <1>3, <3>4, <4>2
        <5> QED BY <3>1, <5>1
      <4> QED BY <4>1, <4>2
    <3>5. ASSUME NEW k \in DOMAIN q
          PROVE  ~OfCall(q[k]) /\ \E j \in DOMAIN s : q[k][1] = s[j][1] /\ q[k][2] = s[j][2]
      <4>1. PICK j \in DOMAIN s : j # i /\ q[k] = s[j]
        BY <3>3
      <4>2. ~OfCall(s[j])
        BY <3>2, <4>1
      <4> QED BY <4>1, <4>2
    <3>6. ASSUME NEW j \in DOMAIN s PROVE OfCall(s[j]) \/ \E k \in DOMAIN q : q[k][1] = s[j][1]
      <4>1. CASE j = i
        BY <2>2, <4>1
      <4>2. CASE j # i
        BY <3>4, <4>2
      <4> QED BY <4>1, <4>2
    <3> QED BY <3>1, <3>5, <3>6
  <2> QED BY <1>5, <2>1, <2>2
<1>9. bus' \in [Tabs -> Seq(Injections)] /\ bus'[t0] = q /\ \A t \in Tabs \ {t0} : bus'[t] = bus[t]
  BY <1>2, <1>5, <1>6, <1>8
<1>10. \A t \in Tabs : \A i \in DOMAIN bus'[t] :
           ~OfCall(bus'[t][i]) /\ \E j \in DOMAIN bus[t] :
               bus'[t][i][1] = bus[t][j][1] /\ bus'[t][i][2] = bus[t][j][2]
  BY <1>7, <1>8, <1>9
<1>11. \A t \in Tabs : \A j \in DOMAIN bus[t] :
           OfCall(bus[t][j]) \/ \E i \in DOMAIN bus'[t] : bus'[t][i][1] = bus[t][j][1]
  <2> SUFFICES ASSUME NEW t \in Tabs, NEW j \in DOMAIN bus[t], ~OfCall(bus[t][j])
               PROVE  \E i \in DOMAIN bus'[t] : bus'[t][i][1] = bus[t][j][1]
    OBVIOUS
  <2>1. CASE t = t0
    BY <1>8, <1>9, <2>1
  <2>2. CASE t # t0
    BY <1>9, <2>2
  <2> QED BY <2>1, <2>2
<1> QED BY <1>9, <1>10, <1>11 DEF t0

LEMMA TimeoutStep ==
    ASSUME PacksAssumption, PacksInv, Timeout
    PROVE  PacksInv'
<1>1. /\ call.at \in {"posted", "replied"} /\ call' = NoCall /\ requests' = requests
      /\ UNCHANGED <<open, loading, strict, pack, stored, told, spoilt>>
  BY DEF Timeout, page
<1>2. call # NoCall
  BY <1>1 DEF NoCall
<1>3. told[call.tab][call.name] = Unknown /\ call.at # "sent"
  BY <1>1, <1>2 DEF PacksInv, Unanswered
<1>4. Shifts(0, {}) /\ requests' \in Seq(Requests)
  BY <1>1, Stays
<1>5. \A i \in DOMAIN requests' : ~OfTool(requests'[i])
  BY <1>1, <1>3 DEF PacksInv, OneRequest
<1>6. /\ bus' \in [Tabs -> Seq(Injections)] /\ \A t \in Tabs : t # call.tab => bus'[t] = bus[t]
      /\ \A t \in Tabs : \A i \in DOMAIN bus'[t] :
            ~OfCall(bus'[t][i]) /\ \E j \in DOMAIN bus[t] :
                bus'[t][i][1] = bus[t][j][1] /\ bus'[t][i][2] = bus[t][j][2]
      /\ \A t \in Tabs : \A j \in DOMAIN bus[t] :
            OfCall(bus[t][j]) \/ \E i \in DOMAIN bus'[t] : bus'[t][i][1] = bus[t][j][1]
  BY Withdrawn
<1>7. PacksTypes'
  BY <1>1, <1>4, <1>6 DEF PacksInv, PacksTypes
<1>8. Unanswered' /\ CallStored'
  BY <1>1 DEF Unanswered, CallStored, NoCall
<1>9. OneRequest' /\ \A i \in DOMAIN requests' : requests'[i].do # "command"
  BY <1>5, NoneOfTool
<1>10. OneCommand'
  BY <1>6 DEF OneCommand, OfCall
<1>11. ClosedOnly' /\ ToldStored'
  BY <1>1 DEF PacksInv, ClosedOnly, ToldStored
<1>12. ASSUME NEW t \in Tabs, open'[t], ~spoilt'[t] PROVE Follows(t)'
  <2>1. open[t] /\ Follows(t)
    BY <1>1, <1>12 DEF PacksInv
  <2>2. ASSUME NEW n \in Names, NEW v \in Values, Agreed(t, n)' = v
        PROVE  Agreed(t, n) = v /\ ~(t = call.tab /\ n = call.name)
    <3>1. told[t][n] = v /\ v # Unknown
      BY <1>1, <2>2 DEF Agreed, NoCall, Values, PacksAssumption
    <3> QED BY <1>3, <3>1 DEF Agreed
  <2>3. \A n \in Names : Comes(t, n) => Comes(t, n)'
    BY <1>1 DEF Comes, Brought
  <2>4. (\A x \in {} : Sourced(x, t)) /\ (\A x \in {} : x.do = "command" => x.tab # t)
    OBVIOUS
  <2>5. \A i \in DOMAIN requests' : requests'[i].do = "command" => requests'[i].tab # t
    BY <1>9
  <2>6. pack'[t] = pack[t] /\ strict'[t] = strict[t]
    BY <1>1
  <2>7. Ahead(t)'
    BY <1>4, <2>1, <2>4, <2>5, AheadKept DEF Follows
  <2>8. Behind(t)'
    BY <1>1 DEF Behind, NoCall
  <2>9. ASSUME NEW n \in Names, NEW v \in Values, Agreed(t, n)' = v
        PROVE  NoOther(t, n, v)' /\ (~strict'[t] => Arrives(t, n, v)')
    <3>1. Agreed(t, n) = v /\ ~(t = call.tab /\ n = call.name)
      BY <2>2, <2>9
    <3>2. NoOther(t, n, v) /\ (~strict[t] => Arrives(t, n, v))
      BY <2>1, <3>1 DEF Follows
    <3>3. \A i \in DOMAIN bus'[t] : bus'[t][i][1] = n => bus'[t][i][2] = v
      BY <1>6, <3>2 DEF NoOther
    <3>4. NoOther(t, n, v)'
      BY <1>4, <2>1, <2>4, <3>1, <3>2, <3>3, NoOtherKept
    <3>5. ASSUME NEW i \in DOMAIN bus[t], bus[t][i][1] = n PROVE \E j \in DOMAIN bus'[t] : bus'[t][j][1] = n
      <4>1. ~OfCall(bus[t][i])
        BY <3>1, <3>5 DEF PacksInv, OneCommand
      <4> QED BY <1>6, <3>5, <4>1
    <3>6. Arrives(t, n, v) => Arrives(t, n, v)'
      BY <2>3, <2>6, <3>5 DEF Arrives
    <3> QED BY <2>6, <3>2, <3>4, <3>6
  <2> QED BY <2>7, <2>8, <2>9 DEF Follows
<1> QED BY <1>7, <1>8, <1>9, <1>10, <1>11, <1>12 DEF PacksInv

\* The document has run a command, or nobody took it.
LEMMA Taken ==
    ASSUME PacksInv, NEW t0 \in Tabs, bus[t0] # <<>>, bus' = [bus EXCEPT ![t0] = Tail(@)]
    PROVE  /\ bus' \in [Tabs -> Seq(Injections)] /\ \A t \in Tabs : t # t0 => bus'[t] = bus[t]
           /\ Head(bus[t0]) = bus[t0][1] /\ bus[t0][1] \in Injections /\ 1 \in DOMAIN bus[t0]
           /\ DOMAIN bus[t0] \subseteq Nat \ {0} /\ DOMAIN bus'[t0] \subseteq Nat \ {0}
           /\ \A i \in DOMAIN bus'[t0] : i + 1 \in DOMAIN bus[t0] /\ bus'[t0][i] = bus[t0][i + 1]
           /\ \A i \in DOMAIN bus[t0] : i = 1 \/ \E j \in DOMAIN bus'[t0] : bus'[t0][j] = bus[t0][i]
<1>1. bus \in [Tabs -> Seq(Injections)]
  BY DEF PacksInv, PacksTypes
<1> DEFINE s == bus[t0]
           q == Tail(s)
<1>2. s \in Seq(Injections) /\ s # <<>>
  BY <1>1
<1>3. bus' = [bus EXCEPT ![t0] = q]
  OBVIOUS
<1> HIDE DEF s
<1>4. /\ q \in Seq(Injections) /\ Head(s) = s[1] /\ s[1] \in Injections /\ 1 \in DOMAIN s
      /\ DOMAIN s \subseteq Nat \ {0} /\ DOMAIN q \subseteq Nat \ {0}
      /\ \A i \in DOMAIN q : i + 1 \in DOMAIN s /\ q[i] = s[i + 1]
      /\ \A i \in DOMAIN s : i = 1 \/ \E j \in DOMAIN q : q[j] = s[i]
  BY <1>2, TailOf
<1> HIDE DEF q
<1>5. bus' \in [Tabs -> Seq(Injections)] /\ bus'[t0] = q /\ \A t \in Tabs \ {t0} : bus'[t] = bus[t]
  BY <1>1, <1>3, <1>4
<1> QED BY <1>4, <1>5 DEF s

LEMMA RunStep ==
    ASSUME PacksAssumption, PacksInv, NEW t0 \in Tabs, Run(t0)
    PROVE  PacksInv'
<1> DEFINE cmd == Head(bus[t0])
           ok == ~strict[t0] /\ cmd[2] \notin Broken
<1>1. /\ open[t0] /\ bus[t0] # <<>> /\ bus' = [bus EXCEPT ![t0] = Tail(@)] /\ requests' = requests
      /\ pack' = IF ok THEN [pack EXCEPT ![t0][cmd[1]] = cmd[2]] ELSE pack
      /\ call' = IF OfCall(cmd) THEN [call EXCEPT !.at = "replied", !.ok = ok] ELSE call
      /\ UNCHANGED <<open, loading, strict, stored, told, spoilt>>
  BY DEF Run, page
<1>2. /\ bus' \in [Tabs -> Seq(Injections)] /\ \A t \in Tabs : t # t0 => bus'[t] = bus[t]
      /\ cmd = bus[t0][1] /\ cmd \in Injections /\ 1 \in DOMAIN bus[t0]
      /\ DOMAIN bus[t0] \subseteq Nat \ {0} /\ DOMAIN bus'[t0] \subseteq Nat \ {0}
      /\ \A i \in DOMAIN bus'[t0] : i + 1 \in DOMAIN bus[t0] /\ bus'[t0][i] = bus[t0][i + 1]
      /\ \A i \in DOMAIN bus[t0] : i = 1 \/ \E j \in DOMAIN bus'[t0] : bus'[t0][j] = bus[t0][i]
  BY <1>1, Taken, ZenonT(60)
<1>3. ok \in BOOLEAN /\ (ok <=> ~strict[t0] /\ cmd[2] \notin Broken) /\ cmd[1] \in Names /\ cmd[2] \in Values
  BY <1>2 DEF PacksInv, PacksTypes, Injections
<1> HIDE DEF cmd, ok
<1>4. /\ pack' \in [Tabs -> [Names -> Values]]
      /\ \A t \in Tabs, n \in Names : pack'[t][n] = IF ok /\ t = t0 /\ n = cmd[1] THEN cmd[2] ELSE pack[t][n]
  BY <1>1, <1>3 DEF PacksInv, PacksTypes
<1>5. OfCall(cmd) =>
      /\ call.at = "posted" /\ call.tab = t0 /\ cmd[1] = call.name /\ cmd[2] = call.body
      /\ \A j \in DOMAIN bus[t0] : OfCall(bus[t0][j]) => 1 = j
      /\ call # NoCall
  <2> SUFFICES ASSUME OfCall(cmd)
               PROVE  /\ call.at = "posted" /\ call.tab = t0 /\ cmd[1] = call.name /\ cmd[2] = call.body
                      /\ \A j \in DOMAIN bus[t0] : OfCall(bus[t0][j]) => 1 = j
                      /\ call # NoCall
    OBVIOUS
  <2>1. /\ call.at = "posted" /\ call.tab = t0 /\ bus[t0][1][1] = call.name /\ bus[t0][1][2] = call.body
        /\ \A j \in DOMAIN bus[t0] : OfCall(bus[t0][j]) => 1 = j
    BY <1>2 DEF PacksInv, OneCommand
  <2> QED BY <1>2, <2>1 DEF NoCall
<1>6. OfCall(cmd) =>
      /\ call' \in [tab : Tabs, name : Names, body : Values,
                    at : {"sent", "posted", "replied"}, ok : BOOLEAN]
      /\ call'.tab = t0 /\ call'.name = cmd[1] /\ call'.body = cmd[2]
      /\ call'.at = "replied" /\ call'.ok = ok
  BY <1>1, <1>3, <1>5 DEF PacksInv, PacksTypes
<1>7. ~OfCall(cmd) => call' = call
  BY <1>1
<1>8. PacksTypes'
  <2>1. call' # NoCall =>
        /\ call' \in [tab : Tabs, name : Names, body : Values,
                      at : {"sent", "posted", "replied"}, ok : BOOLEAN]
        /\ call'.ok => call'.body \notin Broken
    <3>1. CASE OfCall(cmd)
      BY <1>3, <1>6, <3>1
    <3>2. CASE ~OfCall(cmd)
      BY <1>7, <3>2 DEF PacksInv, PacksTypes
    <3> QED BY <3>1, <3>2
  <2>2. requests' \in Seq(Requests)
    BY <1>1 DEF PacksInv, PacksTypes
  <2> QED BY <1>1, <1>2, <1>4, <2>1, <2>2 DEF PacksInv, PacksTypes
<1>9. Unanswered'
  <2>1. CASE OfCall(cmd)
    BY <1>1, <1>5, <1>6, <2>1 DEF PacksInv, Unanswered
  <2>2. CASE ~OfCall(cmd)
    BY <1>1, <1>7, <2>2 DEF PacksInv, Unanswered
  <2> QED BY <2>1, <2>2
<1>10. OfCall(cmd) => \A i \in DOMAIN requests' : ~OfTool(requests'[i])
  BY <1>1, <1>5 DEF PacksInv, OneRequest
<1>11. OneRequest'
  <2>1. CASE OfCall(cmd)
    BY <1>10, <2>1, NoneOfTool
  <2>2. CASE ~OfCall(cmd)
    BY <1>1, <1>7, <2>2 DEF PacksInv, OneRequest, OfTool
  <2> QED BY <2>1, <2>2
<1>12. OneCommand'
  <2> SUFFICES ASSUME NEW t \in Tabs, NEW i \in DOMAIN bus'[t], OfCall(bus'[t][i])
               PROVE  /\ call'.at = "posted" /\ call'.tab = t
                      /\ bus'[t][i][1] = call'.name /\ bus'[t][i][2] = call'.body
                      /\ \A j \in DOMAIN bus'[t] : OfCall(bus'[t][j]) => i = j
    BY DEF OneCommand, OfCall
  <2>1. CASE t # t0
    <3>1. bus'[t] = bus[t]
      BY <1>2, <2>1
    <3>2. call.tab = t
      BY <3>1 DEF PacksInv, OneCommand
    <3>3. ~OfCall(cmd)
      BY <1>5, <2>1, <3>2
    <3> QED BY <1>7, <3>1, <3>3 DEF PacksInv, OneCommand
  <2>2. CASE t = t0
    <3>1. i + 1 \in DOMAIN bus[t] /\ bus'[t][i] = bus[t][i + 1] /\ i + 1 # 1
      BY <1>2, <2>2
    <3>2. ~OfCall(cmd)
      BY <1>5, <2>2, <3>1
    <3>3. /\ call.at = "posted" /\ call.tab = t /\ bus[t][i + 1][1] = call.name /\ bus[t][i + 1][2] = call.body
          /\ \A j \in DOMAIN bus[t] : OfCall(bus[t][j]) => i + 1 = j
      BY <3>1 DEF PacksInv, OneCommand
    <3>4. ASSUME NEW j \in DOMAIN bus'[t], OfCall(bus'[t][j]) PROVE i = j
      <4>1. j + 1 \in DOMAIN bus[t] /\ bus'[t][j] = bus[t][j + 1] /\ j \in Nat /\ i \in Nat
        BY <1>2, <2>2
      <4>2. i + 1 = j + 1
        BY <3>3, <3>4, <4>1
      <4> QED BY <4>1, <4>2
    <3> QED BY <1>7, <3>1, <3>2, <3>3, <3>4
  <2> QED BY <2>1, <2>2
<1>13. ClosedOnly' /\ ToldStored'
  BY <1>1 DEF PacksInv, ClosedOnly, ToldStored
<1>14. CallStored'
  <2>1. CASE OfCall(cmd)
    <3>1. open[call.tab] => stored[call.tab][call.name] = call.body
      BY <1>5, <2>1 DEF PacksInv, CallStored
    <3> QED BY <1>1, <1>5, <1>6, <2>1, <3>1 DEF CallStored
  <2>2. CASE ~OfCall(cmd)
    BY <1>1, <1>7, <2>2 DEF PacksInv, CallStored
  <2> QED BY <2>1, <2>2
<1>15. Shifts(0, {}) /\ requests' \in Seq(Requests)
  BY <1>1, Stays
<1>16. ASSUME NEW t \in Tabs, open'[t], ~spoilt'[t] PROVE Follows(t)'
  <2>1. open[t] /\ Follows(t)
    BY <1>1, <1>16 DEF PacksInv
  <2>2. \A n \in Names : Comes(t, n) => Comes(t, n)'
    BY <1>1 DEF Comes, Brought
  <2>3. (\A x \in {} : Sourced(x, t)) /\ (\A x \in {} : x.do = "command" => x.tab # t)
    OBVIOUS
  <2>4. strict'[t] = strict[t]
    BY <1>1
  <2>5. OfCall(cmd) => \A i \in DOMAIN requests' : requests'[i].do # "command"
    BY <1>10 DEF OfTool
  <2>6. call' = call \/ \A i \in DOMAIN requests' : requests'[i].do = "command" => requests'[i].tab # t
    BY <1>7, <2>5
  <2>7. ASSUME NEW n \in Names, NEW v \in Values, Agreed(t, n)' = v, ~(OfCall(cmd) /\ ok /\ t = t0 /\ n = cmd[1])
        PROVE  Agreed(t, n) = v
    <3>1. CASE ~OfCall(cmd)
      BY <1>1, <1>7, <2>7, <3>1, SameAgreed
    <3>2. CASE OfCall(cmd)
      <4>1. Agreed(t, n)' = told[t][n]
        BY <1>1, <1>3, <1>6, <2>7, <3>2 DEF Agreed
      <4>2. Agreed(t, n) = told[t][n]
        BY <1>5, <3>2 DEF Agreed
      <4> QED BY <2>7, <4>1, <4>2
    <3> QED BY <3>1, <3>2
  <2>8. CASE t # t0
    <3>1. \A n \in Names, v \in Values : Agreed(t, n)' = v => Agreed(t, n) = v
      BY <2>7, <2>8
    <3>2. bus'[t] = bus[t]
      BY <1>2, <2>8
    <3>3. pack'[t] = pack[t]
      BY <1>1, <2>8 DEF PacksInv, PacksTypes
    <3>4. \/ call' = call
          \/ /\ ~(call'.at = "posted" /\ call'.tab = t)
             /\ \A i \in DOMAIN requests' : requests'[i].do = "command" => requests'[i].tab # t
      BY <1>6, <1>7, <2>5
    <3> QED BY <1>15, <2>1, <2>2, <2>3, <2>4, <3>1, <3>2, <3>3, <3>4, FollowsKept
  <2>9. CASE t = t0
    <3>1. Ahead(t)'
      BY <1>15, <2>1, <2>3, <2>6, AheadKept DEF Follows
    <3>2. Behind(t)'
      <4>1. CASE OfCall(cmd)
        BY <1>6, <4>1 DEF Behind
      <4>2. CASE ~OfCall(cmd)
        <5> SUFFICES ASSUME call.at = "posted", call.tab = t PROVE Behind(t)'
          BY <1>7, <4>2 DEF Behind
        <5>1. Behind(t) /\ call' = call
          BY <1>7, <2>1, <4>2 DEF Follows
        <5>2. \A i \in DOMAIN requests' : \A k \in Brought(requests'[i], t, call.name) : requests'[i].packs[k][2] = call.body
          BY <1>1, <5>1 DEF Behind
        <5>3. NoneAfter(bus'[t], call.name, call.body)
          <6> SUFFICES ASSUME NEW i \in DOMAIN bus'[t], NEW j \in DOMAIN bus'[t],
                              OfCall(bus'[t][i]), i < j, bus'[t][j][1] = call.name
                       PROVE  bus'[t][j][2] = call.body
            BY DEF NoneAfter
          <6>1. /\ i + 1 \in DOMAIN bus[t] /\ bus'[t][i] = bus[t][i + 1]
                /\ j + 1 \in DOMAIN bus[t] /\ bus'[t][j] = bus[t][j + 1] /\ i + 1 < j + 1
            BY <1>2, <2>9
          <6> QED BY <5>1, <6>1 DEF Behind, NoneAfter
        <5>4. Behind(t)' <=> (call'.at = "posted" /\ call'.tab = t =>
        /\ NoneAfter(bus'[t], call'.name, call'.body)
        /\ \A i \in DOMAIN requests' : \A k \in Brought(requests'[i], t, call'.name) : requests'[i].packs[k][2] = call'.body)
          BY DEF Behind, Brought, NoneAfter, OfCall
        <5> QED BY <5>1, <5>2, <5>3, <5>4
      <4> QED BY <4>1, <4>2
    <3>3. ASSUME NEW n \in Names, NEW v \in Values, Agreed(t, n)' = v
          PROVE  NoOther(t, n, v)' /\ (~strict'[t] => Arrives(t, n, v)')
      <4>1. CASE OfCall(cmd) /\ ok /\ n = cmd[1]
        <5>1. v = cmd[2] /\ n = call.name /\ v = call.body
          BY <1>5, <1>6, <2>9, <3>3, <4>1 DEF Agreed
        <5>2. pack'[t][n] = v
          BY <1>4, <2>9, <4>1, <5>1
        <5>3. Behind(t) /\ call.at = "posted" /\ call.tab = t
          BY <1>5, <2>1, <2>9, <4>1 DEF Follows
        <5>4. \A i \in DOMAIN requests : \A k \in Brought(requests[i], t, n) : requests[i].packs[k][2] = v
          BY <5>1, <5>3 DEF Behind
        <5>5. ASSUME NEW i \in DOMAIN bus'[t], bus'[t][i][1] = n PROVE bus'[t][i][2] = v
          <6>1. i + 1 \in DOMAIN bus[t] /\ bus'[t][i] = bus[t][i + 1] /\ 1 < i + 1
            BY <1>2, <2>9
          <6>2. NoneAfter(bus[t], n, v) /\ 1 \in DOMAIN bus[t] /\ OfCall(bus[t][1])
            BY <1>2, <2>9, <4>1, <5>1, <5>3 DEF Behind
          <6> QED BY <5>5, <6>1, <6>2 DEF NoneAfter
        <5>6. NoOther(t, n, v)'
          BY <1>1, <5>4, <5>5 DEF NoOther, Brought
        <5> QED BY <5>2, <5>6 DEF Arrives
      <4>2. CASE ~(OfCall(cmd) /\ ok /\ n = cmd[1])
        <5>1. Agreed(t, n) = v
          BY <2>7, <3>3, <4>2
        <5>2. NoOther(t, n, v) /\ (~strict[t] => Arrives(t, n, v)) /\ v \notin Broken
          BY <2>1, <5>1, AgreedStored DEF Follows
        <5>3. \A i \in DOMAIN bus'[t] : bus'[t][i][1] = n => bus'[t][i][2] = v
          BY <1>2, <2>9, <5>2 DEF NoOther
        <5>4. NoOther(t, n, v)'
          BY <1>15, <2>1, <2>3, <5>1, <5>2, <5>3, NoOtherKept
        <5>5. cmd[1] = n => cmd[2] = v
          BY <1>2, <2>9, <5>2 DEF NoOther
        <5>6. ASSUME ~strict[t], Arrives(t, n, v) PROVE Arrives(t, n, v)'
          <6>1. CASE cmd[1] = n
            <7>1. pack'[t][n] = v
              BY <1>3, <1>4, <2>9, <5>2, <5>5, <5>6, <6>1
            <7> QED BY <7>1 DEF Arrives
          <6>2. CASE cmd[1] # n
            <7>1. pack'[t][n] = pack[t][n]
              BY <1>4, <6>2
            <7>2. (\E i \in DOMAIN bus[t] : bus[t][i][1] = n) => \E i \in DOMAIN bus'[t] : bus'[t][i][1] = n
              BY <1>2, <2>9, <6>2
            <7> QED BY <2>2, <5>6, <7>1, <7>2 DEF Arrives
          <6> QED BY <6>1, <6>2
        <5> QED BY <2>4, <5>2, <5>4, <5>6
      <4> QED BY <4>1, <4>2
    <3> QED BY <3>1, <3>2, <3>3 DEF Follows
  <2> QED BY <2>8, <2>9
<1> QED BY <1>8, <1>9, <1>11, <1>12, <1>13, <1>14, <1>16 DEF PacksInv

LEMMA ExpireStep ==
    ASSUME PacksAssumption, PacksInv, NEW t0 \in Tabs, Expire(t0)
    PROVE  PacksInv'
<1>1. /\ bus[t0] # <<>> /\ ~OfCall(Head(bus[t0])) /\ bus' = [bus EXCEPT ![t0] = Tail(@)]
      /\ spoilt' = [spoilt EXCEPT ![t0] = TRUE]
      /\ UNCHANGED <<open, loading, strict, pack, stored, requests, call, told>>
  BY DEF Expire, page
<1>2. /\ bus' \in [Tabs -> Seq(Injections)] /\ \A t \in Tabs : t # t0 => bus'[t] = bus[t]
      /\ DOMAIN bus'[t0] \subseteq Nat \ {0}
      /\ \A i \in DOMAIN bus'[t0] : i + 1 \in DOMAIN bus[t0] /\ bus'[t0][i] = bus[t0][i + 1]
  BY <1>1, Taken
<1>3. spoilt' \in [Tabs -> BOOLEAN] /\ spoilt'[t0] /\ \A t \in Tabs \ {t0} : spoilt'[t] = spoilt[t]
  BY <1>1 DEF PacksInv, PacksTypes
<1>4. PacksTypes'
  BY <1>1, <1>2, <1>3 DEF PacksInv, PacksTypes
<1>5. Unanswered' /\ OneRequest' /\ ClosedOnly' /\ CallStored' /\ ToldStored'
  BY <1>1 DEF PacksInv, Unanswered, OneRequest, OfTool, ClosedOnly, CallStored, ToldStored
<1>6. OneCommand'
  <2> SUFFICES ASSUME NEW t \in Tabs, NEW i \in DOMAIN bus'[t], OfCall(bus'[t][i])
               PROVE  /\ call.at = "posted" /\ call.tab = t
                      /\ bus'[t][i][1] = call.name /\ bus'[t][i][2] = call.body
                      /\ \A j \in DOMAIN bus'[t] : OfCall(bus'[t][j]) => i = j
    BY <1>1 DEF OneCommand, OfCall
  <2>1. CASE t # t0
    BY <1>2, <2>1 DEF PacksInv, OneCommand
  <2>2. CASE t = t0
    <3>1. i + 1 \in DOMAIN bus[t] /\ bus'[t][i] = bus[t][i + 1]
      BY <1>2, <2>2
    <3>2. /\ call.at = "posted" /\ call.tab = t /\ bus[t][i + 1][1] = call.name /\ bus[t][i + 1][2] = call.body
          /\ \A j \in DOMAIN bus[t] : OfCall(bus[t][j]) => i + 1 = j
      BY <3>1 DEF PacksInv, OneCommand
    <3>3. ASSUME NEW j \in DOMAIN bus'[t], OfCall(bus'[t][j]) PROVE i = j
      <4>1. j + 1 \in DOMAIN bus[t] /\ bus'[t][j] = bus[t][j + 1] /\ j \in Nat /\ i \in Nat
        BY <1>2, <2>2
      <4>2. i + 1 = j + 1
        BY <3>2, <3>3, <4>1
      <4> QED BY <4>1, <4>2
    <3> QED BY <3>1, <3>2, <3>3
  <2> QED BY <2>1, <2>2
<1>7. ASSUME NEW t \in Tabs, open'[t], ~spoilt'[t] PROVE Follows(t)'
  <2>1. t # t0
    BY <1>3, <1>7
  <2>2. open[t] /\ Follows(t)
    BY <1>1, <1>3, <1>7, <2>1 DEF PacksInv
  <2>3. Shifts(0, {}) /\ \A n \in Names, v \in Values : Agreed(t, n)' = v => Agreed(t, n) = v
    BY <1>1, Stays, SameAgreed
  <2>4. \A n \in Names : Comes(t, n) => Comes(t, n)'
    BY <1>1 DEF Comes, Brought
  <2>5. (\A x \in {} : Sourced(x, t)) /\ (\A x \in {} : x.do = "command" => x.tab # t)
    OBVIOUS
  <2>6. bus'[t] = bus[t] /\ pack'[t] = pack[t] /\ strict'[t] = strict[t] /\ call' = call
    BY <1>1, <1>2, <2>1
  <2> QED BY <2>2, <2>3, <2>4, <2>5, <2>6, FollowsKept
<1> QED BY <1>4, <1>5, <1>6, <1>7 DEF PacksInv

LEMMA Reversed ==
    ASSUME NEW R, NEW s \in Seq(R)
    PROVE  /\ Reverse(s) \in Seq(R) /\ DOMAIN Reverse(s) = DOMAIN s
           /\ \A i \in DOMAIN s : LET k == Len(s) - i + 1
                                  IN  i \in Nat /\ k \in DOMAIN s /\ k = Len(s) - i + 1 /\ Reverse(s)[i] = s[k]
<1>1. Len(s) \in Nat /\ DOMAIN s = 1..Len(s) /\ \A i \in 1..Len(s) : s[i] \in R
  BY Queue
<1>2. Reverse(s) = [i \in 1..Len(s) |-> s[(Len(s) - i) + 1]]
  BY DEF Reverse
<1>3. \A i \in 1..Len(s) : (Len(s) - i) + 1 \in 1..Len(s)
  BY <1>1
<1> PICK q : q = Reverse(s)
  OBVIOUS
<1>4. q \in [1..Len(s) -> R]
  BY <1>1, <1>2, <1>3
<1>5. q \in Seq(R)
  BY <1>1, <1>4
<1> QED BY <1>1, <1>2, <1>3, <1>5

LEMMA NavigateStep ==
    ASSUME PacksAssumption, PacksInv, NEW t0 \in Tabs, Navigate(t0)
    PROVE  PacksInv'
<1>1. /\ open[t0] /\ loading' = [loading EXCEPT ![t0] = TRUE] /\ pack' = [pack EXCEPT ![t0] = NoPacks]
      /\ \E s \in BOOLEAN : strict' = [strict EXCEPT ![t0] = s]
      /\ bus' = bus \/ bus' = [bus EXCEPT ![t0] = Reverse(@)]
      /\ spoilt' = [spoilt EXCEPT ![t0] = bus[t0] # <<>> \/ (@ /\ Rehydrating(t0))]
      /\ UNCHANGED <<open, stored, requests, call, told>>
  BY DEF Navigate
<1>2. /\ loading' \in [Tabs -> BOOLEAN] /\ loading'[t0] /\ \A t \in Tabs \ {t0} : loading'[t] = loading[t]
      /\ strict' \in [Tabs -> BOOLEAN] /\ \A t \in Tabs \ {t0} : strict'[t] = strict[t]
  BY <1>1 DEF PacksInv, PacksTypes
<1>3. /\ pack' \in [Tabs -> [Names -> Values]] /\ \A n \in Names : pack'[t0][n] = None
      /\ \A t \in Tabs \ {t0} : pack'[t] = pack[t]
  BY <1>1 DEF PacksInv, PacksTypes, NoPacks, Values
<1>4. /\ spoilt' \in [Tabs -> BOOLEAN] /\ \A t \in Tabs \ {t0} : spoilt'[t] = spoilt[t]
      /\ spoilt'[t0] <=> bus[t0] # <<>> \/ (spoilt[t0] /\ Rehydrating(t0))
  <2>1. spoilt \in [Tabs -> BOOLEAN] /\ Rehydrating(t0) \in BOOLEAN
    BY DEF PacksInv, PacksTypes, Rehydrating
  <2> QED BY <1>1, <2>1
<1>5. bus \in [Tabs -> Seq(Injections)]
  BY DEF PacksInv, PacksTypes
<1>6. /\ bus' \in [Tabs -> Seq(Injections)] /\ \A t \in Tabs \ {t0} : bus'[t] = bus[t]
      /\ bus'[t0] = bus[t0] \/ bus'[t0] = Reverse(bus[t0])
  <2>1. Reverse(bus[t0]) \in Seq(Injections)
    BY <1>5, Reversed
  <2> QED BY <1>1, <1>5, <2>1
<1>7. PacksTypes'
  BY <1>1, <1>2, <1>3, <1>4, <1>6 DEF PacksInv, PacksTypes
<1>8. Unanswered' /\ OneRequest' /\ ClosedOnly' /\ CallStored' /\ ToldStored'
  BY <1>1 DEF PacksInv, Unanswered, OneRequest, OfTool, ClosedOnly, CallStored, ToldStored
<1>9. OneCommand'
  <2> SUFFICES ASSUME NEW t \in Tabs, NEW i \in DOMAIN bus'[t], OfCall(bus'[t][i])
               PROVE  /\ call.at = "posted" /\ call.tab = t
                      /\ bus'[t][i][1] = call.name /\ bus'[t][i][2] = call.body
                      /\ \A j \in DOMAIN bus'[t] : OfCall(bus'[t][j]) => i = j
    BY <1>1 DEF OneCommand, OfCall
  <2>1. CASE bus'[t] = bus[t]
    BY <2>1 DEF PacksInv, OneCommand
  <2>2. CASE bus'[t] = Reverse(bus[t])
    <3>1. /\ DOMAIN bus'[t] = DOMAIN bus[t] /\ Len(bus[t]) \in Nat
          /\ \A j \in DOMAIN bus[t] : LET k == Len(bus[t]) - j + 1
                                      IN  j \in Nat /\ k \in DOMAIN bus[t] /\ k = Len(bus[t]) - j + 1 /\ bus'[t][j] = bus[t][k]
      BY <1>5, <2>2, Reversed, Queue
    <3>2. PICK k \in DOMAIN bus[t] : k = Len(bus[t]) - i + 1 /\ bus'[t][i] = bus[t][k] /\ i \in Nat
      BY <3>1
    <3>3. /\ call.at = "posted" /\ call.tab = t /\ bus[t][k][1] = call.name /\ bus[t][k][2] = call.body
          /\ \A j \in DOMAIN bus[t] : OfCall(bus[t][j]) => k = j
      BY <3>2 DEF PacksInv, OneCommand
    <3>4. ASSUME NEW j \in DOMAIN bus'[t], OfCall(bus'[t][j]) PROVE i = j
      <4>1. PICK m \in DOMAIN bus[t] : m = Len(bus[t]) - j + 1 /\ bus'[t][j] = bus[t][m] /\ j \in Nat
        BY <3>1
      <4>2. k = m
        BY <3>3, <3>4, <4>1
      <4> QED BY <3>1, <3>2, <4>1, <4>2
    <3> QED BY <3>2, <3>3, <3>4
  <2> QED BY <1>6, <2>1, <2>2
<1>10. ASSUME NEW t \in Tabs, open'[t], ~spoilt'[t] PROVE Follows(t)'
  <2>1. open[t] /\ call' = call /\ Shifts(0, {})
    BY <1>1, <1>10, Stays
  <2>2. \A n \in Names, v \in Values : Agreed(t, n)' = v => Agreed(t, n) = v
    BY <1>1, SameAgreed
  <2>3. (\A x \in {} : Sourced(x, t)) /\ (\A x \in {} : x.do = "command" => x.tab # t)
    OBVIOUS
  <2>4. CASE t # t0
    <3>1. Follows(t)
      BY <1>4, <1>10, <2>1, <2>4 DEF PacksInv
    <3>2. \A n \in Names : Comes(t, n) => Comes(t, n)'
      BY <1>1, <1>2, <2>4 DEF Comes, Brought
    <3>3. bus'[t] = bus[t] /\ pack'[t] = pack[t] /\ strict'[t] = strict[t]
      BY <1>2, <1>3, <1>6, <2>4
    <3> QED BY <2>1, <2>2, <2>3, <3>1, <3>2, <3>3, FollowsKept
  <2>5. CASE t = t0
    <3>1. bus[t] = <<>> /\ DOMAIN bus[t] = {}
      BY <1>4, <1>10, <2>5
    <3>2. bus'[t] \in Seq(Injections) /\ DOMAIN bus'[t] = {}
      BY <1>5, <1>6, <2>5, <3>1, Reversed
    <3>3. \/ Follows(t)
          \/ \A i \in DOMAIN requests, n \in Names : Brought(requests[i], t, n) = {}
      <4>1. CASE ~spoilt[t]
        BY <2>1, <4>1 DEF PacksInv
      <4>2. CASE ~Rehydrating(t)
        BY <4>2 DEF Rehydrating, Brought
      <4> QED BY <1>4, <1>10, <2>5, <4>1, <4>2
    <3>4. call # NoCall => call.name \in Names
      BY DEF PacksInv, PacksTypes
    <3>5. Ahead(t)'
      <4> SUFFICES ASSUME NEW i \in DOMAIN requests, NEW j \in DOMAIN requests,
                          requests[i].do = "command", requests[i].tab = t,
                          NEW k \in Brought(requests[j], t, call.name)
                   PROVE  requests[j].packs[k][2] = call.body \/ (j < i /\ k = 1)
        BY <1>1 DEF Ahead, Brought
      <4>1. call # NoCall
        <5>1. call.at = "sent"
          BY DEF PacksInv, OneRequest, OfTool
        <5> QED BY <5>1 DEF NoCall
      <4>2. Ahead(t)
        BY <3>3, <3>4, <4>1 DEF Follows
      <4> QED BY <4>2 DEF Ahead
    <3>6. Behind(t)'
      <4> SUFFICES ASSUME call.at = "posted", call.tab = t
                   PROVE  /\ NoneAfter(bus'[t], call.name, call.body)
                          /\ \A i \in DOMAIN requests : \A k \in Brought(requests[i], t, call.name) :
                                requests[i].packs[k][2] = call.body
        BY <1>1 DEF Behind, Brought, NoneAfter, OfCall
      <4>1. call # NoCall
        BY DEF NoCall
      <4>2. NoneAfter(bus'[t], call.name, call.body)
        BY <3>2 DEF NoneAfter
      <4>3. \A i \in DOMAIN requests : \A k \in Brought(requests[i], t, call.name) : requests[i].packs[k][2] = call.body
        BY <3>3, <3>4, <4>1 DEF Follows, Behind
      <4> QED BY <4>2, <4>3
    <3>7. ASSUME NEW n \in Names, NEW v \in Values, Agreed(t, n)' = v
          PROVE  NoOther(t, n, v)' /\ Arrives(t, n, v)'
      <4>1. Agreed(t, n) = v
        BY <2>2, <3>7
      <4>2. \A i \in DOMAIN requests : \A k \in Brought(requests[i], t, n) : requests[i].packs[k][2] = v
        BY <3>3, <4>1 DEF Follows, NoOther
      <4>3. NoOther(t, n, v)'
        BY <1>1, <3>2, <4>2 DEF NoOther, Brought
      <4>4. Arrives(t, n, v)'
        BY <1>2, <1>3, <2>5 DEF Arrives, Comes
      <4> QED BY <4>3, <4>4
    <3> QED BY <3>5, <3>6, <3>7 DEF Follows
  <2> QED BY <2>4, <2>5
<1> QED BY <1>7, <1>8, <1>9, <1>10 DEF PacksInv

LEMMA PacksInit ==
    ASSUME PacksAssumption, Init
    PROVE  PacksInv
<1>1. requests \in Seq(Requests) /\ DOMAIN requests = {} /\ call = NoCall
  BY EmptySeq DEF Init
<1>2. bus \in [Tabs -> Seq(Injections)] /\ \A t \in Tabs : DOMAIN bus[t] = {}
  BY EmptySeq DEF Init
<1>3. None \in Values /\ None \in Values \ Broken /\ None # Unknown
  BY DEF Values, PacksAssumption
<1>4. /\ {pack, stored} \subseteq [Tabs -> [Names -> Values]]
      /\ told \in [Tabs -> [Names -> (Values \ Broken) \cup {Unknown}]]
      /\ \A t \in Tabs, n \in Names : pack[t][n] = None /\ stored[t][n] = None /\ told[t][n] = None
  BY <1>3 DEF Init, NoPacks
<1>5. {open, loading, strict, spoilt} \subseteq [Tabs -> BOOLEAN]
  BY DEF Init
<1>6. PacksTypes
  BY <1>1, <1>2, <1>4, <1>5 DEF PacksTypes
<1>7. Unanswered /\ OneRequest /\ OneCommand /\ ClosedOnly /\ CallStored /\ ToldStored
  BY <1>1, <1>2, <1>4 DEF Unanswered, OneRequest, OneCommand, ClosedOnly, CallStored, ToldStored
<1>8. ASSUME NEW t \in Tabs PROVE Follows(t)
  <2>1. \A n \in Names, v \in Values : Agreed(t, n) = v => NoOther(t, n, v) /\ Arrives(t, n, v)
    BY <1>1, <1>2, <1>4 DEF Agreed, NoOther, Arrives, NoCall
  <2> QED BY <1>1, <2>1 DEF Follows, Ahead, Behind, NoCall
<1> QED BY <1>6, <1>7, <1>8 DEF PacksInv

LEMMA PacksStep ==
    ASSUME PacksAssumption, PacksInv, [Next]_vars
    PROVE  PacksInv'
<1>1. ASSUME NEW t \in Tabs, NEW n \in Names, Unregister(t, n) PROVE PacksInv'
  BY <1>1, BeginStep DEF Unregister, Values
<1>2. ASSUME NEW t \in Tabs, NEW n \in Names, NEW body \in Bodies, Register(t, n, body) PROVE PacksInv'
  BY <1>2, BeginStep DEF Register, Values
<1>3. CASE Answer \/ Timeout
  BY <1>3, AnswerStep, TimeoutStep
<1>4. CASE Store \/ StoreFails \/ Post
  BY <1>4, StoreStep, StoreFailsStep, PostStep
<1>5. CASE Read \/ Rehydrate \/ RehydrateFails
  BY <1>5, ReadStep, RehydrateStep, RehydrateFailsStep
<1>6. CASE Scan \/ Clear
  BY <1>6, ScanStep, ClearStep
<1>7. ASSUME NEW t \in Tabs, Run(t) \/ Expire(t) \/ Navigate(t) \/ Complete(t) \/ Close(t) PROVE PacksInv'
  BY <1>7, RunStep, ExpireStep, NavigateStep, CompleteStep, CloseStep
<1>8. CASE UNCHANGED vars
  <2>1. UNCHANGED <<open, loading, strict, pack, stored, requests, bus, call, told, spoilt>>
    BY <1>8 DEF vars, page
  <2>2. PacksTypes'
    BY <2>1 DEF PacksInv, PacksTypes
  <2>3. Unanswered' /\ OneRequest' /\ ClosedOnly' /\ CallStored' /\ ToldStored'
    BY <2>1 DEF PacksInv, Unanswered, OneRequest, OfTool, ClosedOnly, CallStored, ToldStored
  <2>4. OneCommand'
    BY <2>1 DEF PacksInv, OneCommand, OfCall
  <2>5. ASSUME NEW t \in Tabs, open'[t], ~spoilt'[t] PROVE Follows(t)'
    <3>1. open[t] /\ Follows(t)
      BY <2>1, <2>5 DEF PacksInv
    <3>2. Shifts(0, {}) /\ \A n \in Names, v \in Values : Agreed(t, n)' = v => Agreed(t, n) = v
      BY <2>1, Stays, SameAgreed
    <3>3. \A n \in Names : Comes(t, n) => Comes(t, n)'
      BY <2>1 DEF Comes, Brought
    <3>4. (\A x \in {} : Sourced(x, t)) /\ (\A x \in {} : x.do = "command" => x.tab # t)
      OBVIOUS
    <3>5. bus'[t] = bus[t] /\ pack'[t] = pack[t] /\ strict'[t] = strict[t] /\ call' = call
      BY <2>1
    <3> QED BY <3>1, <3>2, <3>3, <3>4, <3>5, FollowsKept
  <2> QED BY <2>2, <2>3, <2>4, <2>5 DEF PacksInv
<1> QED BY <1>1, <1>2, <1>3, <1>4, <1>5, <1>6, <1>7, <1>8 DEF Next

LEMMA PacksTold ==
    ASSUME PacksAssumption, PacksInv
    PROVE  PacksFollowTab
<1> SUFFICES ASSUME NEW t \in Tabs, NEW n \in Names,
                    Quiet(t), ~spoilt[t], ~strict[t], told[t][n] # Unknown
             PROVE  pack[t][n] = told[t][n]
  BY DEF PacksFollowTab
<1> DEFINE v == told[t][n]
<1>1. v \in Values
  BY DEF PacksInv, PacksTypes
<1>2. Follows(t)
  BY DEF PacksInv, Quiet
<1>3. Agreed(t, n) = v
  BY DEF Agreed, Quiet
<1>4. Arrives(t, n, v)
  BY <1>1, <1>2, <1>3 DEF Follows
<1>5. ~Comes(t, n) /\ DOMAIN bus[t] = {}
  BY DEF Quiet, Comes, Brought
<1> QED BY <1>4, <1>5 DEF Arrives

\* A page at rest has the packs that the agent was told of, although the listener
\* may have been at work while a tool was (background.js:188-239, 926-1005).
THEOREM PacksCorrect == ASSUME PacksAssumption PROVE Spec => []PacksFollowTab
<1>1. PacksInv => PacksFollowTab
  BY PacksTold
<1> QED BY <1>1, PacksInit, PacksStep, PTL DEF Spec
=============================================================================
