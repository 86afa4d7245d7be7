------------------------------ MODULE ToolPartsProofs ------------------------------
(***************************************************************************)
(* The inductive invariants of the parts in ToolParts: each holds at first,*)
(* and every step of its part keeps it, for all values of the constants.   *)
(***************************************************************************)
EXTENDS ToolParts, SequenceTheorems, FiniteSetTheorems, WellFoundedInduction, TLAPS

\* A set of numbers has a least one.
LEMMA LeastMember ==
    ASSUME NEW T \in SUBSET Nat, T # {}
    PROVE  \E m \in T : \A n \in T : m <= n
<1> DEFINE R == {ss \in Nat \X Nat : ss[1] < ss[2]}
<1>1. IsWellFoundedOn(R, Nat)
  BY NatLessThanWellFounded, Zenon DEF OpToRel
<1>2. PICK m \in T : \A n \in T : <<n, m>> \notin R
  <2> HIDE DEF R
  <2> QED BY <1>1, WFMin
<1>3. \A n \in T : m <= n
  <2> SUFFICES ASSUME NEW n \in T, ~(m <= n) PROVE FALSE
    OBVIOUS
  <2>1. n \in Nat /\ m \in Nat /\ n < m
    OBVIOUS
  <2>2. <<n, m>> \in R
    BY <2>1
  <2> QED BY <1>2, <2>2
<1> QED BY <1>3

\* What is left of a sequence without one of its members.
Cut(s, i) == SubSeq(s, 1, i - 1) \o SubSeq(s, i + 1, Len(s))

LEMMA WithoutOne ==
    ASSUME NEW S, NEW s \in Seq(S), NEW i \in DOMAIN s, NEW r,
           r = Cut(s, i)
    PROVE  /\ r \in Seq(S) /\ DOMAIN r = 1..(Len(s) - 1)
           /\ \A k \in DOMAIN r : r[k] = IF k < i THEN s[k] ELSE s[k + 1]
<1> DEFINE n == Len(s)
           a == SubSeq(s, 1, i - 1)
           b == SubSeq(s, i + 1, n)
<1>1. n \in Nat /\ i \in 1..n /\ DOMAIN s = 1..n
  BY LenProperties
<1>2. \A k \in 1..n : s[k] \in S
  BY ElementOfSeq
<1>3. r = a \o b
  BY DEF Cut
<1> HIDE DEF n
<1>4. a \in Seq(S) /\ Len(a) = i - 1 /\ \A k \in 1..(i - 1) : a[k] = s[k]
  <2>1. \A k \in 1..(i - 1) : s[k] \in S
    BY <1>1, <1>2
  <2>2. 1 \in Int /\ i - 1 \in Int
    BY <1>1
  <2>3. /\ a \in Seq(S) /\ Len(a) = IF 1 <= i - 1 THEN (i - 1) - 1 + 1 ELSE 0
        /\ \A k \in 1..((i - 1) - 1 + 1) : a[k] = s[1 + k - 1]
    BY <2>1, <2>2, SubSeqProperties
  <2> HIDE DEF a
  <2>4. (i - 1) - 1 + 1 = i - 1 /\ (IF 1 <= i - 1 THEN (i - 1) - 1 + 1 ELSE 0) = i - 1
    BY <1>1
  <2>5. \A k \in 1..(i - 1) : 1 + k - 1 = k
    BY <1>1
  <2> QED BY <2>3, <2>4, <2>5
<1>5. b \in Seq(S) /\ Len(b) = n - i /\ \A k \in 1..(n - i) : b[k] = s[i + k]
  <2>1. \A k \in (i + 1)..n : s[k] \in S
    BY <1>1, <1>2
  <2>2. i + 1 \in Int /\ n \in Int
    BY <1>1
  <2>3. /\ b \in Seq(S) /\ Len(b) = IF i + 1 <= n THEN n - (i + 1) + 1 ELSE 0
        /\ \A k \in 1..(n - (i + 1) + 1) : b[k] = s[(i + 1) + k - 1]
    BY <2>1, <2>2, SubSeqProperties
  <2> HIDE DEF b
  <2>4. n - (i + 1) + 1 = n - i /\ (IF i + 1 <= n THEN n - (i + 1) + 1 ELSE 0) = n - i
    BY <1>1
  <2>5. \A k \in 1..(n - i) : (i + 1) + k - 1 = i + k
    BY <1>1
  <2> QED BY <2>3, <2>4, <2>5
<1> HIDE DEF a, b
<1>6. r \in Seq(S) /\ Len(r) = n - 1
      /\ \A k \in 1..(n - 1) : r[k] = IF k <= i - 1 THEN a[k] ELSE b[k - (i - 1)]
  <2>1. /\ a \o b \in Seq(S) /\ Len(a \o b) = Len(a) + Len(b)
        /\ \A k \in 1..(Len(a) + Len(b)) : (a \o b)[k] = IF k <= Len(a) THEN a[k] ELSE b[k - Len(a)]
    BY <1>4, <1>5, ConcatProperties, Zenon
  <2>2. (i - 1) + (n - i) = n - 1
    BY <1>1
  <2> QED BY <1>3, <1>4, <1>5, <2>1, <2>2
<1>7. DOMAIN r = 1..(n - 1)
  BY <1>6, LenProperties
<1>8. ASSUME NEW k \in 1..(n - 1) PROVE r[k] = IF k < i THEN s[k] ELSE s[k + 1]
  <2>1. CASE k < i
    <3>1. k \in 1..(i - 1) /\ k <= i - 1
      BY <1>1, <2>1
    <3> QED BY <1>4, <1>6, <2>1, <3>1
  <2>2. CASE ~(k < i)
    <3>1. k - (i - 1) \in 1..(n - i) /\ i + (k - (i - 1)) = k + 1 /\ ~(k <= i - 1)
      BY <1>1, <2>2
    <3> QED BY <1>5, <1>6, <2>2, <3>1
  <2> QED BY <2>1, <2>2
<1> QED BY <1>6, <1>7, <1>8 DEF n
-----------------------------------------------------------------------------
\* Uploads.
\* The inductive invariant.

UploadTypes ==
    /\ call \in [Uploads -> {"idle", "probe", "stage", "wait", "none", "ok", "error"}]
    /\ want \in [Uploads -> 0..MaxFiles]
    /\ content \in [Uploads -> {"none", "posted", "fetching", "waiting", "releasing", "answered"}]
    /\ fetched \in [Uploads -> Seq(Nat)]
    /\ main \in [Uploads -> {"none", "posted", "ok", "error"}]
    /\ result \in [Uploads -> {"none", "ok", "error"}]
    /\ input.by \in Uploads \cup {None}
    /\ installed \subseteq Uploads

\* Before the command is posted the page knows nothing of it.
Unposted ==
    \A u \in Uploads : call[u] \in {"idle", "probe", "stage"} =>
        content[u] = "none" /\ main[u] = "none" /\ fetched[u] = <<>> /\ input.by # u

\* What was fetched is the file itself, or marked as failed.
FetchedInOrder ==
    \A u \in Uploads : \A i \in 1..Len(fetched[u]) : fetched[u][i] \in {0, i}

\* Once the page's world has been told nothing more is fetched.
HandedOver == \A u \in Uploads : main[u] # "none" => content[u] \notin {"posted", "fetching"}

PostedIsWhole ==
    \A u \in Uploads : main[u] = "posted" => fetched[u] = [i \in 1..want[u] |-> i]

SuccessHasFiles ==
    \A u \in Uploads : (main[u] = "ok" => u \in installed) /\ (result[u] = "ok" => u \in installed)

UploadInv ==
    /\ UploadTypes /\ Unposted /\ FetchedInOrder /\ HandedOver
    /\ PostedIsWhole /\ SuccessHasFiles /\ Upload!AllOrNothing /\ Upload!SuccessMeansInstalled

LEMMA UploadInit == ASSUME Upload!UploadAssumption PROVE Upload!Init => UploadInv
<1> SUFFICES ASSUME Upload!Init PROVE UploadInv
    OBVIOUS
<1> USE DEF Upload!Init, Upload!Empty, Upload!UploadAssumption
<1>1. UploadTypes
    BY DEF UploadTypes
<1>2. Unposted /\ FetchedInOrder
    BY DEF Unposted, FetchedInOrder
<1>3. HandedOver /\ PostedIsWhole /\ SuccessHasFiles /\ Upload!AllOrNothing /\ Upload!SuccessMeansInstalled
    BY DEF HandedOver, PostedIsWhole, SuccessHasFiles, Upload!AllOrNothing, Upload!SuccessMeansInstalled
<1>. QED  BY <1>1, <1>2, <1>3 DEF UploadInv

\* Steps of the handler: the page's state stays, but for the command it posts.
LEMMA UploadHandlerStep ==
    ASSUME Upload!UploadAssumption, UploadInv, NEW u \in Uploads, Upload!Handler(u)
    PROVE  UploadInv'
<1> USE DEF UploadInv, UploadTypes, Unposted, HandedOver, PostedIsWhole,
            SuccessHasFiles, Upload!AllOrNothing, Upload!SuccessMeansInstalled, Upload!UploadAssumption, Upload!Goto, Upload!page
<1>0. FetchedInOrder'
    BY DEF FetchedInOrder, Upload!Handler, Upload!Begin, Upload!Probe, Upload!Stage, Upload!Post, Upload!Finish, Upload!GiveUp
<1>1. CASE Upload!Begin(u)
    <2>1. /\ call[u] = "idle" /\ call' = [call EXCEPT ![u] = "probe"] /\ UNCHANGED Upload!page
          /\ \E n \in 0..MaxFiles : want' = [want EXCEPT ![u] = n]
        BY <1>1 DEF Upload!Begin
    <2>2. input.by # u /\ main[u] = "none"
        BY <2>1
    <2>3. UploadTypes' /\ Unposted' /\ HandedOver' /\ SuccessHasFiles' /\ Upload!SuccessMeansInstalled'
        BY <2>1
    <2>4. \A v \in Uploads : v # u => want'[v] = want[v]
        BY <2>1
    <2>5. PostedIsWhole'
        BY <2>1, <2>2, <2>4
    <2>6. Upload!AllOrNothing'
        BY <2>1, <2>2, <2>4
    <2>. QED  BY <2>3, <2>5, <2>6, <1>0
<1>2. CASE Upload!Probe(u) \/ Upload!Stage(u)
    <2>1. /\ call[u] \in {"probe", "stage"} /\ UNCHANGED <<want, Upload!page>>
          /\ call' = call \/ \E where \in {"stage", "error"} : call' = [call EXCEPT ![u] = where]
        BY <1>2 DEF Upload!Probe, Upload!Stage
    <2>2. UploadTypes' /\ Unposted' /\ HandedOver' /\ SuccessHasFiles' /\ Upload!SuccessMeansInstalled'
        <3>1. CASE call' = call
            BY <2>1, <3>1
        <3>2. ASSUME NEW where \in {"stage", "error"}, call' = [call EXCEPT ![u] = where]
              PROVE  UploadTypes' /\ Unposted' /\ HandedOver' /\ SuccessHasFiles' /\ Upload!SuccessMeansInstalled'
            BY <2>1, <3>2
        <3>. QED  BY <2>1, <3>1, <3>2
    <2>3. PostedIsWhole' /\ Upload!AllOrNothing'
        BY <2>1
    <2>. QED  BY <2>2, <2>3, <1>0
<1>3. CASE Upload!Post(u)
    <2>1. /\ call[u] = "stage" /\ call' = [call EXCEPT ![u] = "wait"]
          /\ content' = [content EXCEPT ![u] = "posted"]
          /\ UNCHANGED <<want, fetched, main, result, input, installed>>
        BY <1>3 DEF Upload!Post
    <2>. QED  BY <2>1, <1>0
<1>4. CASE Upload!Finish(u)
    <2>1. /\ call[u] = "wait" /\ call' = [call EXCEPT ![u] = result[u]]
          /\ UNCHANGED <<want, Upload!page>>
        BY <1>4 DEF Upload!Finish
    <2>2. UploadTypes' /\ Unposted' /\ HandedOver' /\ SuccessHasFiles' /\ Upload!SuccessMeansInstalled'
        BY <2>1
    <2>3. PostedIsWhole' /\ Upload!AllOrNothing'
        BY <2>1
    <2>. QED  BY <2>2, <2>3, <1>0
<1>5. CASE Upload!GiveUp(u)
    <2>1. /\ call[u] = "wait" /\ call' = [call EXCEPT ![u] = "error"]
          /\ content' = content \/ content' = [content EXCEPT ![u] = "none"]
          /\ UNCHANGED <<want, fetched, main, result, input, installed>>
        BY <1>5 DEF Upload!GiveUp
    <2>2. ASSUME content' = content PROVE UploadTypes' /\ Unposted' /\ HandedOver'
        <3>1. UploadTypes' /\ HandedOver'
            BY <2>1, <2>2
        <3>2. Unposted'
            BY <2>1, <2>2
        <3>. QED  BY <3>1, <3>2
    <2>3. ASSUME content' = [content EXCEPT ![u] = "none"]
          PROVE  UploadTypes' /\ Unposted' /\ HandedOver'
        <3>1. UploadTypes'
            BY <2>1, <2>3
        <3>2. HandedOver'
            BY <2>1, <2>3
        <3>3. Unposted'
            BY <2>1, <2>3
        <3>. QED  BY <3>1, <3>2, <3>3
    <2>4. UploadTypes' /\ Unposted' /\ HandedOver'
        BY <2>1, <2>2, <2>3
    <2>5. PostedIsWhole' /\ SuccessHasFiles' /\ Upload!AllOrNothing' /\ Upload!SuccessMeansInstalled'
        BY <2>1
    <2>. QED  BY <2>4, <2>5, <1>0
<1>. QED  BY <1>1, <1>2, <1>3, <1>4, <1>5 DEF Upload!Handler

\* One more file of a call has come, or failed to.
LEMMA UploadFetchStep ==
    ASSUME UploadInv, NEW u \in Uploads, Upload!Fetch(u)
    PROVE  UploadInv'
<1> DEFINE n == Len(fetched[u]) + 1
<1>1. PICK f \in {0, n} : fetched' = [fetched EXCEPT ![u] = Append(fetched[u], f)]
    BY DEF Upload!Fetch
<1>2. content[u] = "fetching" /\ UNCHANGED <<call, want, content, main, result, input, installed>>
    BY DEF Upload!Fetch
<1>3. /\ fetched[u] \in Seq(Nat) /\ n \in Nat /\ f \in Nat
      /\ Append(fetched[u], f) \in Seq(Nat) /\ Len(Append(fetched[u], f)) = n
      /\ \A i \in 1 .. n - 1 : Append(fetched[u], f)[i] = fetched[u][i]
      /\ Append(fetched[u], f)[n] = f
    <2>1. fetched[u] \in Seq(Nat) /\ n \in Nat /\ f \in Nat
        BY LenProperties DEF UploadInv, UploadTypes
    <2>. QED  BY <2>1, AppendProperties
<1>4. UploadTypes'
    BY <1>1, <1>2, <1>3 DEF UploadInv, UploadTypes
<1>5. FetchedInOrder'
    <2>1. \A i \in 1 .. n : Append(fetched[u], f)[i] \in {0, i}
        BY <1>3 DEF UploadInv, FetchedInOrder
    <2>2. fetched'[u] = Append(fetched[u], f) /\ \A v \in Uploads \ {u} : fetched'[v] = fetched[v]
        BY <1>1 DEF UploadInv, UploadTypes
    <2>. QED  BY <1>3, <2>1, <2>2, SMTT(40) DEF UploadInv, FetchedInOrder
<1>6. main[u] = "none" /\ call[u] \notin {"idle", "probe", "stage"}
    BY <1>2 DEF UploadInv, HandedOver, Unposted
<1>7. Unposted' /\ HandedOver' /\ PostedIsWhole'
    BY <1>1, <1>2, <1>6 DEF UploadInv, UploadTypes, Unposted, HandedOver, PostedIsWhole
<1>8. SuccessHasFiles' /\ Upload!AllOrNothing' /\ Upload!SuccessMeansInstalled'
    BY <1>2 DEF UploadInv, SuccessHasFiles, Upload!AllOrNothing, Upload!SuccessMeansInstalled
<1>. QED  BY <1>4, <1>5, <1>7, <1>8 DEF UploadInv

\* The files are handed over only if every one has come, and then in order.
LEMMA FetchesOverStep ==
    ASSUME UploadInv, NEW u \in Uploads, Upload!FetchesOver(u)
    PROVE  UploadInv'
<1> USE DEF UploadInv, UploadTypes, Unposted, HandedOver, PostedIsWhole,
            SuccessHasFiles, Upload!AllOrNothing, Upload!SuccessMeansInstalled
<1>1. /\ content[u] = "fetching" /\ Len(fetched[u]) = want[u]
      /\ UNCHANGED <<call, want, fetched, input, installed>>
    BY DEF Upload!FetchesOver
<1>2. FetchedInOrder'
    BY <1>1 DEF FetchedInOrder
<1>3. CASE Upload!Failed(fetched[u])
    <2>1. /\ content' = [content EXCEPT ![u] = "answered"] /\ main' = main
          /\ result' = [result EXCEPT ![u] = "error"]
        BY <1>3 DEF Upload!FetchesOver, Upload!HandOver
    <2>. QED  BY <1>1, <1>2, <2>1
<1>4. CASE ~Upload!Failed(fetched[u])
    <2>1. /\ content' = [content EXCEPT ![u] = "waiting"] /\ result' = result
          /\ main' = [main EXCEPT ![u] = "posted"]
        BY <1>4 DEF Upload!FetchesOver, Upload!HandOver
    <2>2. fetched[u] = [i \in 1..want[u] |-> i]
        <3>1. fetched[u] \in Seq(Nat) /\ DOMAIN fetched[u] = 1..want[u]
            BY <1>1, LenProperties
        <3>2. \A i \in 1..want[u] : fetched[u][i] \in {0, i}
            BY <1>1 DEF FetchedInOrder
        <3>3. \A i \in 1..want[u] : fetched[u][i] # 0
            BY <1>4, <3>1 DEF Upload!Failed
        <3>4. fetched[u] = [i \in DOMAIN fetched[u] |-> fetched[u][i]]
            BY <3>1
        <3>. QED  BY <3>1, <3>2, <3>3, <3>4
    <2>. QED  BY <1>1, <1>2, <2>1, <2>2
<1>. QED  BY <1>3, <1>4

\* The other steps of the content script, with what it answers.
LEMMA UploadContentStep ==
    ASSUME UploadInv, NEW u \in Uploads, Upload!Take(u) \/ Upload!Replied(u) \/ Upload!ReplyTimeout(u) \/ Upload!Release(u)
    PROVE  UploadInv'
<1>1. PICK where \in {"fetching", "releasing", "answered"} :
        /\ content' = [content EXCEPT ![u] = where]
        /\ content[u] \in {"posted", "waiting", "releasing"}
        /\ where = "fetching" => content[u] = "posted"
    BY DEF Upload!Take, Upload!Replied, Upload!ReplyTimeout, Upload!Release
<1>2. UNCHANGED <<call, want, fetched, main, input, installed>>
    BY DEF Upload!Take, Upload!Replied, Upload!ReplyTimeout, Upload!Release
<1>3. \/ result' = result
      \/ main[u] \in {"ok", "error"} /\ result' = [result EXCEPT ![u] = main[u]]
      \/ result' = [result EXCEPT ![u] = "error"]
    BY DEF Upload!Take, Upload!Replied, Upload!ReplyTimeout, Upload!Release, Upload!NoReplyMeans
<1>4. UploadTypes'
    BY <1>1, <1>2, <1>3 DEF UploadInv, UploadTypes
<1>5. Unposted' /\ HandedOver'
    BY <1>1, <1>2 DEF UploadInv, UploadTypes, Unposted, HandedOver
<1>6. SuccessHasFiles'
    BY <1>2, <1>3 DEF UploadInv, UploadTypes, SuccessHasFiles
<1>7. FetchedInOrder' /\ PostedIsWhole' /\ Upload!AllOrNothing' /\ Upload!SuccessMeansInstalled'
    BY <1>2 DEF UploadInv, FetchedInOrder, PostedIsWhole, Upload!AllOrNothing, Upload!SuccessMeansInstalled
<1>. QED  BY <1>4, <1>5, <1>6, <1>7 DEF UploadInv

\* The page's world sets the files, or the page is replaced.
LEMMA UploadPageStep ==
    ASSUME Upload!UploadAssumption, UploadInv, (\E u \in Uploads : Upload!Inject(u)) \/ Upload!PageChanges \/ Upload!Navigate
    PROVE  UploadInv'
<1> USE DEF UploadInv, UploadTypes, Unposted, HandedOver, PostedIsWhole,
            SuccessHasFiles, Upload!AllOrNothing, Upload!SuccessMeansInstalled, Upload!Empty, Upload!UploadAssumption
<1>0. FetchedInOrder'
    BY DEF FetchedInOrder, Upload!Inject, Upload!PageChanges, Upload!Navigate
<1>1. ASSUME NEW u \in Uploads, Upload!Inject(u)
      PROVE  UploadInv'
    <2>1. main[u] = "posted" /\ UNCHANGED <<call, want, content, fetched, result>>
        BY <1>1 DEF Upload!Inject
    <2>2. CASE Upload!Accepts(want[u])
        <3>1. /\ main' = [main EXCEPT ![u] = "ok"] /\ installed' = installed \cup {u}
              /\ \/ input' = [by |-> None, files |-> <<>>]
                 \/ input' = [by |-> u, files |-> fetched[u]]
            BY <1>1, <2>2 DEF Upload!Inject
        <3>2. input'.by # None => input'.by = u /\ input'.files = [i \in 1..want[u] |-> i]
            <4>1. fetched[u] = [i \in 1..want[u] |-> i]
                BY <2>1 DEF UploadInv, PostedIsWhole
            <4> HIDE DEF UploadInv, UploadTypes, Unposted, HandedOver, PostedIsWhole,
                         SuccessHasFiles, Upload!AllOrNothing, Upload!SuccessMeansInstalled
            <4>2. CASE input' = [by |-> None, files |-> <<>>]
                BY <4>2
            <4>3. CASE input' = [by |-> u, files |-> fetched[u]]
                BY <4>1, <4>3
            <4>. QED  BY <3>1, <4>2, <4>3
        <3>3. input'.by \in Uploads \cup {None}
            BY <3>1
        <3>4. Upload!AllOrNothing'
            BY <2>1, <3>2
        <3>5. call[u] \notin {"idle", "probe", "stage"}
            BY <2>1
        <3>6. UploadTypes' /\ SuccessHasFiles' /\ Upload!SuccessMeansInstalled'
            BY <2>1, <3>1, <3>3
        <3>7. \A v \in Uploads : v # u => main'[v] = main[v]
            BY <3>1
        <3>8. Unposted'
            BY <2>1, <3>2, <3>5, <3>7
        <3>9. HandedOver' /\ PostedIsWhole'
            BY <2>1, <3>1, <3>7
        <3>. QED  BY <3>4, <3>6, <3>8, <3>9, <1>0
    <2>3. CASE ~Upload!Accepts(want[u])
        <3>1. main' = [main EXCEPT ![u] = "error"] /\ UNCHANGED <<input, installed>>
            BY <1>1, <2>3 DEF Upload!Inject
        <3>. QED  BY <2>1, <3>1, <1>0
    <2>. QED  BY <2>2, <2>3
<1>2. CASE Upload!PageChanges
    BY <1>2, <1>0 DEF Upload!PageChanges
<1>3. CASE Upload!Navigate
    <2>1. /\ content' = [v \in Uploads |-> IF content[v] \in {"none", "posted", "answered"}
                                            THEN content[v] ELSE "none"]
          /\ main' = [v \in Uploads |-> IF main[v] = "posted" THEN "none" ELSE main[v]]
          /\ input' = [by |-> None, files |-> <<>>]
          /\ UNCHANGED <<call, want, fetched, result, installed>>
        BY <1>3 DEF Upload!Navigate
    <2>2. UploadTypes'
        BY <2>1
    <2>3. Unposted' /\ HandedOver' /\ PostedIsWhole'
        BY <2>1
    <2>4. SuccessHasFiles' /\ Upload!AllOrNothing' /\ Upload!SuccessMeansInstalled'
        BY <2>1
    <2>. QED  BY <2>2, <2>3, <2>4, <1>0
<1>. QED  BY <1>1, <1>2, <1>3

LEMMA UploadStep ==
    ASSUME Upload!UploadAssumption PROVE UploadInv /\ [Upload!Next]_(Upload!vars) => UploadInv'
<1> SUFFICES ASSUME UploadInv, [Upload!Next]_(Upload!vars)
             PROVE  UploadInv'
    OBVIOUS
<1>1. ASSUME NEW u \in Uploads, Upload!Handler(u) \/ Upload!ContentScript(u)
      PROVE  UploadInv'
    BY <1>1, UploadHandlerStep, UploadFetchStep, FetchesOverStep, UploadContentStep DEF Upload!ContentScript
<1>2. CASE (\E u \in Uploads : Upload!Inject(u)) \/ Upload!PageChanges \/ Upload!Navigate
    BY <1>2, UploadPageStep
<1>3. CASE \/ \E t \in Upload!Tokens : Upload!SixtySeconds(t)
           \/ Upload!EvictExpired \/ Upload!ServiceFails \/ Upload!ServiceStarts \/ UNCHANGED Upload!vars
    <2>1. UNCHANGED <<call, want, Upload!page>>
        BY <1>3 DEF Upload!SixtySeconds, Upload!EvictExpired, Upload!ServiceFails, Upload!ServiceStarts, Upload!vars
    <2>. QED
        BY <2>1 DEF Upload!page, UploadInv, UploadTypes, Unposted, FetchedInOrder, HandedOver,
                    PostedIsWhole, SuccessHasFiles, Upload!AllOrNothing, Upload!SuccessMeansInstalled
<1>. QED  BY <1>1, <1>2, <1>3 DEF Upload!Next

-----------------------------------------------------------------------------
\* Downloads.
LEMMA WatchInit == Download!Init => Download!WatchInv
    BY DEF Download!Init, Download!WatchInv, Download!WatchTypes, Download!SnapshotStays, Download!NewsIsNew, Download!NothingYet, Download!WatchFindsNew, Download!NoReply

\* Steps of Safari: files appear and bundles end.
LEMMA SafariStep ==
    ASSUME Download!WatchInv, NEW f \in Files,
           Download!SafariBegins(f) \/ Download!SafariFinishes(f) \/ Download!SafariCancels(f)
    PROVE  Download!WatchInv'
<1> USE DEF Download!WatchInv, Download!WatchTypes, Download!SnapshotStays, Download!NewsIsNew, Download!NothingYet, Download!WatchFindsNew, Download!Present, Download!asked
<1>1. CASE Download!SafariBegins(f)
    <2>1. f \notin snapshot /\ UNCHANGED <<snapshot, watch, reply, sources, vanished, checks>>
        BY <1>1 DEF Download!SafariBegins
    <2>2. created' \subseteq created \cup {f} /\ (watch \in {"off", "begun"} => created' = created)
        BY <1>1 DEF Download!SafariBegins
    <2>3. disk' = [disk EXCEPT ![f] = "bundle"] /\ wanted' = wanted
        BY <1>1 DEF Download!SafariBegins
    <2>. QED  BY <2>1, <2>2, <2>3
<1>2. CASE Download!SafariFinishes(f)
    <2>1. disk' = [disk EXCEPT ![f] = "file"] /\ UNCHANGED <<wanted, snapshot, watch, reply, created, sources, checks>>
        BY <1>2 DEF Download!SafariFinishes
    <2>2. vanished' = vanished \/ (f \in sources /\ vanished' = vanished \cup {<<f, "rename">>})
        BY <1>2 DEF Download!SafariFinishes
    <2>. QED  BY <2>1, <2>2
<1>3. CASE Download!SafariCancels(f)
    <2>1. /\ f \notin snapshot /\ disk' = [disk EXCEPT ![f] = "gone"]
          /\ UNCHANGED <<wanted, snapshot, watch, reply, created, sources, checks>>
        BY <1>3 DEF Download!SafariCancels
    <2>2. \/ vanished' = vanished
          \/ f \in sources /\ \E how \in {"rename", "delete"} : vanished' = vanished \cup {<<f, how>>}
        BY <1>3 DEF Download!SafariCancels
    <2>. QED  BY <2>1, <2>2
<1>. QED  BY <1>1, <1>2, <1>3

\* The watcher's own steps about one bundle.
LEMMA BundleStep ==
    ASSUME Download!WatchInv, NEW f \in Files,
           \/ Download!HandleFSEvent(f) \/ Download!HandleBundleRenamed(f) \/ Download!HandleBundleDeleted(f)
           \/ Download!RetryFileCheck(f)
    PROVE  Download!WatchInv'
<1> USE DEF Download!WatchInv, Download!WatchTypes, Download!SnapshotStays, Download!NewsIsNew, Download!NothingYet, Download!WatchFindsNew, Download!Present, Download!dir, Download!asked, Download!NoReply
<1>1. CASE Download!HandleFSEvent(f)
    BY <1>1 DEF Download!HandleFSEvent
<1>2. CASE Download!HandleBundleRenamed(f)
    <2>1. /\ <<f, "rename">> \in vanished /\ vanished' \subseteq vanished
          /\ checks' = [checks EXCEPT ![f] = 0]
          /\ UNCHANGED <<disk, wanted, watch, snapshot, created, sources, reply>>
        BY <1>2 DEF Download!HandleBundleRenamed
    <2>. QED  BY <2>1
<1>3. CASE Download!HandleBundleDeleted(f)
    BY <1>3 DEF Download!HandleBundleDeleted, Download!Settle
<1>4. CASE Download!RetryFileCheck(f)
    <2>1. /\ checks[f] # None /\ UNCHANGED <<disk, wanted, snapshot>>
          /\ checks' \in [Files -> Nat \cup {None}]
          /\ \A g \in Files : g # f => checks'[g] = checks[g]
        BY <1>4 DEF Download!RetryFileCheck
    <2>2. f \notin snapshot /\ watch \notin {"off", "begun"}
        BY <2>1
    <2>3. CASE watch = "on" /\ Download!ChecksOut(f)
        <3>1. /\ watch' = "settled" /\ reply' = [kind |-> "ok", file |-> f]
              /\ created' = {} /\ sources' = {} /\ vanished' = {}
            BY <1>4, <2>3 DEF Download!RetryFileCheck
        <3>2. f \in wanted
            BY <2>3 DEF Download!ChecksOut
        <3>. QED  BY <2>1, <2>2, <3>1, <3>2
    <2>4. CASE ~(watch = "on" /\ Download!ChecksOut(f))
        <3>1. UNCHANGED <<watch, reply, created, sources, vanished>>
            BY <1>4, <2>4 DEF Download!RetryFileCheck
        <3>. QED  BY <2>1, <2>2, <3>1
    <2>. QED  BY <2>3, <2>4
<1>. QED  BY <1>1, <1>2, <1>3, <1>4

\* The watcher begins, and its time is up.
LEMMA WatcherStep ==
    ASSUME Download!WatchInv, Download!StartWatch \/ Download!HandleTimeout \/ Download!AskDaemon
    PROVE  Download!WatchInv'
<1> USE DEF Download!WatchInv, Download!WatchTypes, Download!SnapshotStays, Download!NewsIsNew, Download!NothingYet, Download!WatchFindsNew, Download!Present, Download!dir, Download!asked, Download!NoReply
<1>1. CASE Download!StartWatch
    BY <1>1 DEF Download!StartWatch, Download!Settle
<1>2. CASE Download!HandleTimeout
    <2>1. PICK kind, f : Download!Settle(kind, f) /\ (kind = "ok" => f \in (Download!Present \cap wanted) \ snapshot)
        BY <1>2 DEF Download!HandleTimeout
    <2>2. UNCHANGED <<disk, wanted>>
        BY <1>2 DEF Download!HandleTimeout
    <2>. QED  BY <2>1, <2>2 DEF Download!Settle
<1>3. CASE Download!AskDaemon
    BY <1>3 DEF Download!AskDaemon, Download!Begun
<1>. QED  BY <1>1, <1>2, <1>3

LEMMA WatchStep == Download!WatchInv /\ [Download!Next]_(Download!vars) => Download!WatchInv'
<1> SUFFICES ASSUME Download!WatchInv, [Download!Next]_(Download!vars)
             PROVE  Download!WatchInv'
    OBVIOUS
<1>1. ASSUME NEW f \in Files,
             \/ Download!SafariBegins(f) \/ Download!SafariFinishes(f) \/ Download!SafariCancels(f)
             \/ Download!HandleFSEvent(f) \/ Download!HandleBundleRenamed(f) \/ Download!HandleBundleDeleted(f)
             \/ Download!RetryFileCheck(f)
      PROVE  Download!WatchInv'
    BY <1>1, SafariStep, BundleStep
<1>2. CASE Download!StartWatch \/ Download!HandleTimeout \/ Download!AskDaemon
    BY <1>2, WatcherStep
<1>3. CASE \/ Download!Begin \/ Download!DaemonAnswers \/ Download!DaemonFails
           \/ Download!PollBegins \/ Download!PollFindsNew \/ Download!PollFindsListed \/ Download!PollEnds \/ UNCHANGED Download!vars
    <2>1. UNCHANGED <<Download!dir, Download!asked, Download!watcher>>
        BY <1>3 DEF Download!Begin, Download!DaemonAnswers, Download!DaemonFails, Download!PollBegins, Download!PollFindsNew, Download!PollFindsListed, Download!PollEnds, Download!vars
    <2>. QED
        BY <2>1 DEF Download!dir, Download!asked, Download!watcher, Download!WatchInv, Download!WatchTypes, Download!SnapshotStays, Download!NewsIsNew, Download!NothingYet, Download!WatchFindsNew, Download!Present
<1>. QED  BY <1>1, <1>2, <1>3 DEF Download!Next

-----------------------------------------------------------------------------
\* PDF export.
LEMMA PdfInit == Prints!Init => Prints!PdfInv
<1> SUFFICES ASSUME Prints!Init PROVE Prints!PdfInv
  OBVIOUS
<1>1. inbox \in Seq(Prints!Jobs) /\ DOMAIN inbox = {}
  BY EmptySeq DEF Prints!Init
<1> QED BY <1>1 DEF Prints!Init, Prints!PdfInv, Prints!PdfTypes, Prints!InboxInv, Prints!CallInv, Prints!Reported, Prints!Jobs, Prints!Attempts, Prints!Stages

LEMMA SentOnce ==
    ASSUME Prints!PdfTypes, Prints!InboxInv, NEW j \in Prints!Jobs, job[j] = "none",
           inbox' = Append(inbox, j), job' = [job EXCEPT ![j] = "sent"]
    PROVE  Prints!InboxInv' /\ inbox' \in Seq(Prints!Jobs)
<1>1. /\ inbox' \in Seq(Prints!Jobs) /\ Len(inbox) \in Nat /\ DOMAIN inbox = 1..Len(inbox)
      /\ DOMAIN inbox' = 1..(Len(inbox) + 1) /\ inbox'[Len(inbox) + 1] = j
      /\ \A i \in 1..Len(inbox) : inbox'[i] = inbox[i]
  BY AppendProperties, LenProperties DEF Prints!PdfTypes
<1>2. \A i \in DOMAIN inbox : inbox[i] # j /\ inbox[i] \in Prints!Jobs
  BY <1>1, ElementOfSeq DEF Prints!InboxInv, Prints!PdfTypes
<1>3. job'[j] = "sent" /\ \A k \in Prints!Jobs \ {j} : job'[k] = job[k]
  BY DEF Prints!PdfTypes
<1>4. \A i \in DOMAIN inbox' : i \in DOMAIN inbox \/ i = Len(inbox) + 1
  BY <1>1
<1>5. \A i \in DOMAIN inbox : i \in DOMAIN inbox' /\ inbox'[i] = inbox[i] /\ i # Len(inbox) + 1
  BY <1>1
<1>6. Len(inbox) + 1 \in DOMAIN inbox'
  BY <1>1
<1> HIDE DEF Prints!InboxInv
<1>7. \A i \in DOMAIN inbox' : job'[inbox'[i]] = "sent"
  BY <1>1, <1>2, <1>3, <1>4, <1>5 DEF Prints!InboxInv
<1>8. \A i, k \in DOMAIN inbox' : inbox'[i] = inbox'[k] => i = k
  BY <1>1, <1>2, <1>4, <1>5 DEF Prints!InboxInv
<1>9. ASSUME NEW k \in Prints!Jobs, job'[k] = "sent" PROVE \E i \in DOMAIN inbox' : inbox'[i] = k
  BY <1>1, <1>3, <1>5, <1>6, <1>9 DEF Prints!InboxInv
<1> QED BY <1>1, <1>7, <1>8, <1>9 DEF Prints!InboxInv

\* It has the others, each once.
Once(s) == \A k, l \in DOMAIN s : s[k] = s[l] => k = l
Rest(r, s, i) ==
    /\ \A k \in DOMAIN r : \E l \in DOMAIN s \ {i} : r[k] = s[l]
    /\ \A k, l \in DOMAIN r : r[k] = r[l] => k = l
    /\ \A l \in DOMAIN s \ {i} : \E k \in DOMAIN r : r[k] = s[l]

LEMMA OthersStay ==
    ASSUME NEW S, NEW s \in Seq(S), NEW i \in DOMAIN s, NEW r,
           r = Cut(s, i),
           Once(s)
    PROVE  r \in Seq(S) /\ Rest(r, s, i)
<1>0. /\ r \in Seq(S) /\ DOMAIN r = 1..(Len(s) - 1)
      /\ \A k \in DOMAIN r : r[k] = IF k < i THEN s[k] ELSE s[k + 1]
  BY WithoutOne
<1> DEFINE n == Len(s)
<1>1. n \in Nat /\ i \in 1..n /\ DOMAIN s = 1..n
  BY LenProperties
<1>2. DOMAIN r = 1..(n - 1)
  BY <1>0
<1> HIDE DEF n
<1>3. ASSUME NEW k \in DOMAIN r PROVE \E l \in DOMAIN s \ {i} : r[k] = s[l] /\ l = IF k < i THEN k ELSE k + 1
  <2>1. (IF k < i THEN k ELSE k + 1) \in DOMAIN s \ {i}
    BY <1>1, <1>2
  <2> QED BY <1>0, <2>1
<1>4. ASSUME NEW k \in DOMAIN r, NEW l \in DOMAIN r, r[k] = r[l] PROVE k = l
  <2>1. (IF k < i THEN k ELSE k + 1) = (IF l < i THEN l ELSE l + 1)
    BY <1>3, <1>4 DEF Once
  <2>2. k \in Int /\ l \in Int /\ i \in Int
    BY <1>1, <1>2
  <2> QED BY <2>1, <2>2
<1>5. ASSUME NEW l \in DOMAIN s \ {i} PROVE \E k \in DOMAIN r : r[k] = s[l]
  <2>1. CASE l < i
    <3>1. l \in DOMAIN r
      BY <1>1, <1>2, <2>1
    <3> QED BY <1>0, <2>1, <3>1
  <2>2. CASE ~(l < i)
    <3>1. l - 1 \in DOMAIN r /\ ~(l - 1 < i) /\ (l - 1) + 1 = l
      BY <1>1, <1>2, <2>2
    <3> QED BY <1>0, <3>1
  <2> QED BY <2>1, <2>2
<1> QED BY <1>0, <1>3, <1>4, <1>5 DEF Rest

LEMMA ReadOnce ==
    ASSUME Prints!PdfTypes, Prints!InboxInv, NEW j \in Prints!Jobs, NEW i \in DOMAIN inbox, inbox[i] = j,
           Rest(inbox', inbox, i),
           job' = [job EXCEPT ![j] = "loading"]
    PROVE  Prints!InboxInv' /\ job[j] = "sent"
<1>1. job'[j] = "loading" /\ \A k \in Prints!Jobs \ {j} : job'[k] = job[k]
  BY DEF Prints!PdfTypes
<1>2. \A l \in DOMAIN inbox \ {i} : inbox[l] # j /\ inbox[l] \in Prints!Jobs
  BY LenProperties, ElementOfSeq DEF Prints!InboxInv, Prints!PdfTypes
<1>3. ASSUME NEW k \in DOMAIN inbox' PROVE job'[inbox'[k]] = "sent"
  <2>1. PICK l \in DOMAIN inbox \ {i} : inbox'[k] = inbox[l]
    BY DEF Rest
  <2> QED BY <1>1, <1>2, <2>1 DEF Prints!InboxInv
<1>4. ASSUME NEW k \in Prints!Jobs, job'[k] = "sent" PROVE \E l \in DOMAIN inbox' : inbox'[l] = k
  <2>1. k # j /\ job[k] = "sent"
    BY <1>1, <1>4
  <2>2. PICK l \in DOMAIN inbox \ {i} : inbox[l] = k
    BY <2>1 DEF Prints!InboxInv
  <2> QED BY <2>2 DEF Rest
<1> QED BY <1>3, <1>4 DEF Prints!InboxInv, Rest

\* The daemon goes on with a command it has read.
LEMMA InboxStays ==
    ASSUME Prints!PdfTypes, Prints!InboxInv, UNCHANGED inbox, NEW j \in Prints!Jobs, NEW w, w # "sent", job[j] # "sent",
           job' = [job EXCEPT ![j] = w]
    PROVE  Prints!InboxInv'
<1>1. \A k \in Prints!Jobs : (job'[k] = "sent") <=> (job[k] = "sent")
  BY DEF Prints!PdfTypes
<1>2. \A i \in DOMAIN inbox : inbox[i] \in Prints!Jobs
  BY ElementOfSeq, LenProperties DEF Prints!PdfTypes
<1> QED BY <1>1, <1>2 DEF Prints!InboxInv

LEMMA CallKeeps ==
    ASSUME NEW d, Prints!CallInv(d), UNCHANGED <<transport, printRequest>>, printPhase'[d] = printPhase[d], attempt'[d] = attempt[d],
           printed'[d] = printed[d], file'[d] = file[d], d \in gaveUp => d \in gaveUp',
           job'[<<d, "html">>] = job[<<d, "html">>], job'[<<d, "url">>] = job[<<d, "url">>],
           attempt[d] \in Prints!Attempts \cup {None}
    PROVE  Prints!CallInv(d)'
<1>1. attempt[d] # None => job'[<<d, attempt[d]>>] = job[<<d, attempt[d]>>]
  BY DEF Prints!Attempts
<1> QED BY <1>1 DEF Prints!CallInv, Prints!Reported, Prints!Sheet, Prints!Sent, Prints!AsDouble, Prints!Letter, Prints!Error

LEMMA SheetStays ==
    ASSUME NEW c, UNCHANGED printRequest
    PROVE  Prints!Sheet(printRequest[c])' = Prints!Sheet(printRequest[c])
BY DEF Prints!Sheet, Prints!Sent, Prints!AsDouble, Prints!Letter

\* The daemon goes on with a rendering that its call does not ask for any more,
\* or has yet to be told of.
LEMMA JobMoves ==
    ASSUME NEW c \in Exports, Prints!CallInv(c), Prints!PdfTypes, NEW j \in Prints!Jobs, job[j] \notin {"none", "over"}, NEW w, w # "none",
           job' = [job EXCEPT ![j] = w], UNCHANGED <<transport, printRequest, gaveUp>>,
           printPhase'[c] = printPhase[c], attempt'[c] = attempt[c], printed'[c] = printed[c],
           file'[c] = file[c] \/ (j[1] = c /\ job[j] # "sent")
    PROVE  Prints!CallInv(c)'
<1>1. <<c, "html">> \in Prints!Jobs /\ <<c, "url">> \in Prints!Jobs /\ attempt[c] \in Prints!Attempts \cup {None}
  BY DEF Prints!Jobs, Prints!Attempts, Prints!PdfTypes
<1>2. \A a \in Prints!Attempts : job'[<<c, a>>] = IF j = <<c, a>> THEN w ELSE job[<<c, a>>]
  BY <1>1 DEF Prints!PdfTypes, Prints!Jobs
<1>3. \A a \in Prints!Attempts : job[<<c, a>>] \in {"none", "over"} => job'[<<c, a>>] = job[<<c, a>>]
  BY <1>2
<1>4. job[<<c, "html">>] = "none" => job'[<<c, "html">>] = "none"
  BY <1>3 DEF Prints!Attempts
<1>5. job[<<c, "url">>] = "none" => job'[<<c, "url">>] = "none"
  BY <1>3 DEF Prints!Attempts
<1>6. job[<<c, "html">>] \in {"none", "over"} => job'[<<c, "html">>] \in {"none", "over"}
  BY <1>3 DEF Prints!Attempts
<1>7. attempt[c] # None /\ job[<<c, attempt[c]>>] \in {"none", "over"} =>
            job'[<<c, attempt[c]>>] = job[<<c, attempt[c]>>]
  BY <1>1, <1>3
<1>8. Prints!Reported(c) /\ (transport = "stdin" \/ c \notin gaveUp) => file'[c] = file[c]
  <2> SUFFICES ASSUME Prints!Reported(c), transport = "stdin" \/ c \notin gaveUp, j[1] = c PROVE FALSE
    OBVIOUS
  <2>1. j = <<c, "html">> \/ j = <<c, "url">>
    BY DEF Prints!Jobs, Prints!Attempts
  <2>2. attempt[c] \in {"html", "url"} /\ job[<<c, attempt[c]>>] = "over"
    BY <1>1 DEF Prints!CallInv, Prints!Attempts
  <2>3. attempt[c] = "url" => job[<<c, "html">>] \in {"none", "over"}
    BY DEF Prints!CallInv, Prints!PdfTypes
  <2> QED BY <2>1, <2>2, <2>3 DEF Prints!CallInv
<1>9. Prints!Reported(c)' <=> Prints!Reported(c)
  BY DEF Prints!Reported, Prints!Error
<1>10. Prints!Sheet(printRequest[c])' = Prints!Sheet(printRequest[c])
  BY SheetStays
<1> QED BY <1>1, <1>4, <1>5, <1>6, <1>7, <1>8, <1>9, <1>10 DEF Prints!CallInv

\* A call goes on to the URL, or is over with an error.
LEMMA NextKeeps ==
    ASSUME NEW c \in Exports, Prints!CallInv(c), Prints!PdfTypes, Prints!PdfAssumption, printPhase[c] \in {"ping", "wait"},
           Prints!NextAttempt(c), UNCHANGED <<transport, printRequest>>, gaveUp \subseteq gaveUp',
           job'[<<c, "url">>] = job[<<c, "url">>] \/ attempt[c] = "url",
           job'[<<c, "html">>] = job[<<c, "html">>] \/ attempt[c] = "html",
           attempt[c] = "html" => c \in gaveUp' \/ job'[<<c, "html">>] \in {"none", "over"}
    PROVE  /\ Prints!CallInv(c)' /\ printPhase' \in [Exports -> {"idle", "ping", "wait", "over"}]
           /\ attempt' \in [Exports -> Prints!Attempts \cup {None}] /\ DOMAIN printed' = Exports
           /\ \A d \in Exports \ {c} : printPhase'[d] = printPhase[d] /\ attempt'[d] = attempt[d] /\ printed'[d] = printed[d]
<1>1. CASE attempt[c] = "html" /\ Prints!Try(c, "url")
  <2>1. /\ printPhase' = [printPhase EXCEPT ![c] = "ping"] /\ attempt' = [attempt EXCEPT ![c] = "url"] /\ printed' = printed
    BY <1>1 DEF Prints!Try
  <2>2. printPhase'[c] = "ping" /\ attempt'[c] = "url" /\ printed'[c] = None
    BY <2>1 DEF Prints!PdfTypes, Prints!CallInv
  <2>3. job'[<<c, "url">>] = "none"
    BY <1>1 DEF Prints!CallInv
  <2>4. "url" # None
    BY DEF Prints!PdfAssumption, Prints!Attempts
  <2>5. ~Prints!Reported(c)'
    BY <2>2 DEF Prints!Reported
  <2>6. Prints!CallInv(c)'
    BY <1>1, <2>2, <2>3, <2>4, <2>5 DEF Prints!CallInv, Prints!PdfTypes
  <2> QED BY <2>1, <2>6 DEF Prints!PdfTypes, Prints!Attempts
<1>2. CASE attempt[c] = "url" /\ Prints!Over(c, Prints!Error) /\ UNCHANGED attempt
  <2>1. printPhase' = [printPhase EXCEPT ![c] = "over"] /\ printed' = [printed EXCEPT ![c] = Prints!Error] /\ attempt' = attempt
    BY <1>2 DEF Prints!Over
  <2>2. printPhase'[c] = "over" /\ printed'[c] = Prints!Error
    BY <2>1 DEF Prints!PdfTypes
  <2>3. ~Prints!Reported(c)'
    BY <2>2 DEF Prints!Reported, Prints!Error
  <2>4. Prints!CallInv(c)'
    BY <1>2, <2>1, <2>2, <2>3 DEF Prints!CallInv, Prints!PdfTypes
  <2> QED BY <2>1, <2>4 DEF Prints!PdfTypes
<1> QED BY <1>1, <1>2 DEF Prints!NextAttempt

LEMMA Handled ==
    ASSUME NEW c, NEW rep, Prints!HandleReply(c, rep)
    PROVE  Prints!NextAttempt(c) \/ (rep.source \in Prints!Attempts /\ Prints!Over(c, rep) /\ UNCHANGED attempt)
<1>1. ~(rep.source = "error" /\ ~Prints!Retryable(rep))
  BY DEF Prints!Retryable
<1> QED BY <1>1 DEF Prints!HandleReply, Prints!Attempts

\* A step of one call leaves the others alone.
LEMMA OthersKeep ==
    ASSUME Prints!PdfTypes, NEW c \in Exports, NEW a \in Prints!Attempts, NEW w, job' = [job EXCEPT ![<<c, a>>] = w],
           NEW d \in Exports \ {c}, Prints!CallInv(d), UNCHANGED <<transport, printRequest>>, gaveUp \subseteq gaveUp',
           printPhase'[d] = printPhase[d], attempt'[d] = attempt[d], printed'[d] = printed[d], file'[d] = file[d]
    PROVE  Prints!CallInv(d)'
<1>1. <<d, "html">> \in Prints!Jobs \ {<<c, a>>} /\ <<d, "url">> \in Prints!Jobs \ {<<c, a>>}
  BY DEF Prints!Jobs, Prints!Attempts
<1>2. job'[<<d, "html">>] = job[<<d, "html">>] /\ job'[<<d, "url">>] = job[<<d, "url">>]
  BY <1>1 DEF Prints!PdfTypes
<1>3. attempt[d] \in Prints!Attempts \cup {None}
  BY DEF Prints!PdfTypes
<1> QED BY <1>2, <1>3, CallKeeps

\* A call has the answer it waited for.
LEMMA AnsweredKeeps ==
    ASSUME NEW c \in Exports, Prints!CallInv(c), Prints!PdfTypes, NEW a \in Prints!Attempts, NEW rep,
           printPhase[c] = "wait", attempt[c] = a, Prints!Over(c, rep), UNCHANGED <<attempt, transport, printRequest, gaveUp>>,
           job' = [job EXCEPT ![<<c, a>>] = "over"],
           rep = [source |-> a, pages |-> rep.pages],
           file'[c] = [source |-> a, pages |-> rep.pages, sheet |-> Prints!Sheet(printRequest[c])]
    PROVE  /\ Prints!CallInv(c)' /\ printPhase' \in [Exports -> {"idle", "ping", "wait", "over"}] /\ DOMAIN printed' = Exports
           /\ \A d \in Exports \ {c} : printPhase'[d] = printPhase[d] /\ printed'[d] = printed[d]
<1>1. printPhase' = [printPhase EXCEPT ![c] = "over"] /\ printed' = [printed EXCEPT ![c] = rep]
  BY DEF Prints!Over
<1>2. printPhase'[c] = "over" /\ printed'[c] = rep
  BY <1>1 DEF Prints!PdfTypes
<1>3. \A b \in Prints!Attempts : <<c, b>> \in Prints!Jobs /\ (b # a => <<c, b>> # <<c, a>>)
  BY DEF Prints!Jobs
<1>4. job'[<<c, a>>] = "over" /\ \A b \in Prints!Attempts \ {a} : job'[<<c, b>>] = job[<<c, b>>]
  BY <1>3 DEF Prints!PdfTypes
<1>5. a # None /\ a \in {"html", "url"}
  BY DEF Prints!CallInv, Prints!Attempts
<1>6. a = "html" => job'[<<c, "url">>] = "none"
  BY <1>4 DEF Prints!CallInv, Prints!Attempts
<1>7. a = "url" /\ (transport = "tcp" => c \notin gaveUp) => job'[<<c, "html">>] \in {"none", "over"}
  <2> SUFFICES ASSUME a = "url", transport = "tcp" => c \notin gaveUp PROVE job'[<<c, "html">>] \in {"none", "over"}
    OBVIOUS
  <2>1. job'[<<c, "html">>] = job[<<c, "html">>]
    BY <1>4 DEF Prints!Attempts
  <2>2. job[<<c, "html">>] \in {"none", "over"}
    BY DEF Prints!CallInv
  <2> QED BY <2>1, <2>2
<1>8. attempt' = attempt /\ transport' = transport /\ gaveUp' = gaveUp /\ printed'[c].pages = rep.pages
  BY <1>2
<1>9. Prints!Sheet(printRequest[c])' = Prints!Sheet(printRequest[c])
  BY SheetStays
<1>10. Prints!CallInv(c)'
  BY <1>2, <1>4, <1>5, <1>6, <1>7, <1>8, <1>9 DEF Prints!CallInv
<1> QED BY <1>1, <1>10 DEF Prints!PdfTypes

\* A rendering is over, with a failure or with a file at the path of its call.
Ends(j, rep) ==
    /\ Prints!Reply(j, rep) /\ UNCHANGED inbox
    /\ file' = file \/ \E f : file' = [file EXCEPT ![j[1]] = f]
    /\ \/ rep.source = "error"
       \/ /\ rep = [source |-> j[2], pages |-> rep.pages]
          /\ file'[j[1]] = [source |-> j[2], pages |-> rep.pages, sheet |-> Prints!Sheet(printRequest[j[1]])]

LEMMA EndsKeeps ==
    ASSUME Prints!PdfInv, Prints!PdfAssumption, NEW c \in Exports, NEW a \in Prints!Attempts,
           job[<<c, a>>] \notin {"none", "sent", "over"}, NEW rep, Ends(<<c, a>>, rep)
    PROVE  Prints!PdfInv'
<1>1. Prints!PdfTypes /\ Prints!InboxInv /\ Prints!CallInv(c) /\ <<c, a>> \in Prints!Jobs
  BY DEF Prints!PdfInv, Prints!Jobs
<1>2. /\ job' = [job EXCEPT ![<<c, a>>] = "over"] /\ UNCHANGED <<transport, printRequest, gaveUp, inbox>>
      /\ printPhase[c] = "wait" /\ attempt[c] = a => Prints!HandleReply(c, rep)
      /\ ~(printPhase[c] = "wait" /\ attempt[c] = a) => UNCHANGED <<printPhase, attempt, printed>>
  BY DEF Ends, Prints!Reply
<1>3. DOMAIN file' = Exports /\ \A d \in Exports \ {c} : file'[d] = file[d]
  BY <1>1 DEF Ends, Prints!PdfTypes
<1>4. Prints!InboxInv'
  BY <1>1, <1>2, InboxStays
<1>5. job' \in [Prints!Jobs -> Prints!Stages]
  BY <1>1, <1>2 DEF Prints!PdfTypes, Prints!Stages
<1>6. /\ job'[<<c, a>>] = "over"
      /\ \A b \in Prints!Attempts \ {a} : job'[<<c, b>>] = job[<<c, b>>]
  BY <1>1, <1>2 DEF Prints!PdfTypes, Prints!Jobs
<1>7. Prints!CallInv(c)' /\ printPhase' \in [Exports -> {"idle", "ping", "wait", "over"}]
      /\ attempt' \in [Exports -> Prints!Attempts \cup {None}] /\ DOMAIN printed' = Exports
      /\ \A d \in Exports \ {c} : printPhase'[d] = printPhase[d] /\ attempt'[d] = attempt[d] /\ printed'[d] = printed[d]
  <2>1. CASE ~(printPhase[c] = "wait" /\ attempt[c] = a)
    <3>1. UNCHANGED <<printPhase, attempt, printed>>
      BY <1>2, <2>1, Zenon
    <3>2. <<c, a>>[1] = c /\ "over" # "none"
      OBVIOUS
    <3>3. Prints!CallInv(c)'
      BY <1>1, <1>2, <3>1, <3>2, JobMoves
    <3> QED BY <1>1, <3>1, <3>3 DEF Prints!PdfTypes
  <2>2. CASE printPhase[c] = "wait" /\ attempt[c] = a /\ Prints!NextAttempt(c)
    <3>1. job'[<<c, "url">>] = job[<<c, "url">>] \/ attempt[c] = "url"
      BY <1>6, <2>2 DEF Prints!Attempts
    <3>2. job'[<<c, "html">>] = job[<<c, "html">>] \/ attempt[c] = "html"
      BY <1>6, <2>2 DEF Prints!Attempts
    <3>3. attempt[c] = "html" => job'[<<c, "html">>] \in {"none", "over"}
      BY <1>6, <2>2
    <3> QED BY <1>1, <1>2, <2>2, <3>1, <3>2, <3>3, NextKeeps
  <2>3. CASE printPhase[c] = "wait" /\ attempt[c] = a /\ rep.source \in Prints!Attempts /\ Prints!Over(c, rep) /\ UNCHANGED attempt
    <3>1. /\ rep = [source |-> a, pages |-> rep.pages]
          /\ file'[c] = [source |-> a, pages |-> rep.pages, sheet |-> Prints!Sheet(printRequest[c])]
      BY <2>3 DEF Ends, Prints!Attempts
    <3>2. /\ Prints!CallInv(c)' /\ printPhase' \in [Exports -> {"idle", "ping", "wait", "over"}] /\ DOMAIN printed' = Exports
          /\ \A d \in Exports \ {c} : printPhase'[d] = printPhase[d] /\ printed'[d] = printed[d]
      BY <1>1, <1>2, <2>3, <3>1, AnsweredKeeps
    <3> QED BY <1>1, <2>3, <3>2 DEF Prints!PdfTypes
  <2>4. Prints!HandleReply(c, rep) => Prints!NextAttempt(c) \/ (rep.source \in Prints!Attempts /\ Prints!Over(c, rep) /\ UNCHANGED attempt)
    BY Handled, Zenon
  <2> QED BY <1>2, <2>1, <2>2, <2>3, <2>4, Zenon
<1>8. ASSUME NEW d \in Exports \ {c} PROVE Prints!CallInv(d)'
  <2>1. Prints!CallInv(d)
    BY DEF Prints!PdfInv
  <2> QED BY <1>1, <1>2, <1>3, <1>7, <2>1, OthersKeep
<1>9. Prints!PdfTypes'
  BY <1>1, <1>2, <1>3, <1>5, <1>7 DEF Prints!PdfTypes
<1> QED BY <1>4, <1>7, <1>8, <1>9 DEF Prints!PdfInv

\* A call's own step, which no rendering sees.
LEMMA AskingKeeps ==
    ASSUME Prints!PdfInv, Prints!PdfAssumption, NEW c \in Exports, printPhase[c] \in {"ping", "wait"}, Prints!NextAttempt(c),
           UNCHANGED <<transport, printRequest, inbox, job, file>>,
           gaveUp' = IF printPhase[c] = "wait" THEN gaveUp \cup {c} ELSE gaveUp
    PROVE  Prints!PdfInv'
<1>1. Prints!PdfTypes /\ Prints!InboxInv /\ Prints!CallInv(c)
  BY DEF Prints!PdfInv
<1>2. gaveUp \subseteq gaveUp' /\ gaveUp' \subseteq Exports
  BY <1>1 DEF Prints!PdfTypes
<1>3. attempt[c] = "html" => c \in gaveUp' \/ job'[<<c, "html">>] \in {"none", "over"}
  BY <1>1 DEF Prints!CallInv
<1>4. job' = job
  OBVIOUS
<1>5. Prints!CallInv(c)' /\ printPhase' \in [Exports -> {"idle", "ping", "wait", "over"}]
      /\ attempt' \in [Exports -> Prints!Attempts \cup {None}] /\ DOMAIN printed' = Exports
      /\ \A d \in Exports \ {c} : printPhase'[d] = printPhase[d] /\ attempt'[d] = attempt[d] /\ printed'[d] = printed[d]
  BY <1>1, <1>2, <1>3, <1>4, NextKeeps
<1>6. ASSUME NEW d \in Exports \ {c} PROVE Prints!CallInv(d)'
  <2>1. Prints!CallInv(d) /\ attempt[d] \in Prints!Attempts \cup {None} /\ (d \in gaveUp => d \in gaveUp')
    BY <1>1, <1>2 DEF Prints!PdfInv, Prints!PdfTypes
  <2> QED BY <1>5, <2>1, CallKeeps
<1>7. Prints!InboxInv' /\ Prints!PdfTypes'
  BY <1>1, <1>2, <1>5 DEF Prints!InboxInv, Prints!PdfTypes
<1> QED BY <1>5, <1>6, <1>7 DEF Prints!PdfInv

LEMMA BeginKeeps ==
    ASSUME Prints!PdfInv, Prints!PdfAssumption, NEW c \in Exports, Prints!Begin(c)
    PROVE  Prints!PdfInv'
<1>1. Prints!PdfTypes /\ Prints!InboxInv /\ Prints!CallInv(c) /\ printPhase[c] = "idle" /\ UNCHANGED <<transport, printRequest, gaveUp, inbox, job, file>>
  BY DEF Prints!PdfInv, Prints!Begin
<1>2. attempt[c] = None /\ printed[c] = None /\ job[<<c, "html">>] = "none" /\ job[<<c, "url">>] = "none"
  BY <1>1 DEF Prints!CallInv, Prints!PdfAssumption, Prints!Attempts
<1>3. /\ Prints!CallInv(c)' /\ printPhase' \in [Exports -> {"idle", "ping", "wait", "over"}]
      /\ attempt' \in [Exports -> Prints!Attempts \cup {None}] /\ DOMAIN printed' = Exports
      /\ \A d \in Exports \ {c} : printPhase'[d] = printPhase[d] /\ attempt'[d] = attempt[d] /\ printed'[d] = printed[d]
  <2>1. CASE Prints!Over(c, Prints!Error) /\ UNCHANGED attempt
    <3>1. printPhase'[c] = "over" /\ printed'[c] = Prints!Error /\ attempt'[c] = None
      BY <1>1, <1>2, <2>1 DEF Prints!Over, Prints!PdfTypes
    <3>2. ~Prints!Reported(c)'
      BY <3>1 DEF Prints!Reported, Prints!Error
    <3>3. Prints!CallInv(c)'
      BY <1>1, <1>2, <3>1, <3>2 DEF Prints!CallInv
    <3> QED BY <1>1, <2>1, <3>3 DEF Prints!Over, Prints!PdfTypes
  <2>2. ASSUME NEW a \in Prints!Attempts, Prints!Try(c, a)
        PROVE  /\ Prints!CallInv(c)' /\ printPhase' \in [Exports -> {"idle", "ping", "wait", "over"}]
               /\ attempt' \in [Exports -> Prints!Attempts \cup {None}] /\ DOMAIN printed' = Exports
               /\ \A d \in Exports \ {c} : printPhase'[d] = printPhase[d] /\ attempt'[d] = attempt[d] /\ printed'[d] = printed[d]
    <3>1. printPhase'[c] = "ping" /\ printed'[c] = None /\ attempt'[c] = a /\ a # None /\ a \in {"html", "url"}
      BY <1>1, <1>2, <2>2 DEF Prints!Try, Prints!PdfTypes, Prints!PdfAssumption, Prints!Attempts
    <3>2. ~Prints!Reported(c)'
      BY <3>1 DEF Prints!Reported
    <3>3. Prints!CallInv(c)'
      BY <1>1, <1>2, <3>1, <3>2 DEF Prints!CallInv
    <3> QED BY <1>1, <2>2, <3>3 DEF Prints!Try, Prints!PdfTypes
  <2> QED BY <2>1, <2>2 DEF Prints!Begin
<1>4. ASSUME NEW d \in Exports \ {c} PROVE Prints!CallInv(d)'
  <2>1. Prints!CallInv(d) /\ attempt[d] \in Prints!Attempts \cup {None}
    BY <1>1 DEF Prints!PdfInv, Prints!PdfTypes
  <2> QED BY <1>1, <1>3, <2>1, CallKeeps
<1>5. Prints!InboxInv' /\ Prints!PdfTypes'
  BY <1>1, <1>3 DEF Prints!InboxInv, Prints!PdfTypes
<1> QED BY <1>3, <1>4, <1>5 DEF Prints!PdfInv

\* Over stdin nothing is in the daemon's hands when it answers a ping.
LEMMA AskKeeps ==
    ASSUME Prints!PdfInv, Prints!PdfAssumption, NEW c \in Exports, Prints!Ask(c)
    PROVE  Prints!PdfInv'
<1> DEFINE a == attempt[c]
<1>1. Prints!PdfTypes /\ Prints!InboxInv /\ Prints!CallInv(c) /\ printPhase[c] = "ping" /\ UNCHANGED <<transport, printRequest, attempt, printed, gaveUp, file>>
  BY DEF Prints!PdfInv, Prints!Ask
<1>2. a \in Prints!Attempts /\ <<c, a>> \in Prints!Jobs /\ job[<<c, a>>] = "none" /\ a # None
  BY <1>1 DEF Prints!CallInv, Prints!PdfTypes, Prints!Jobs
<1>3. /\ printPhase' = [printPhase EXCEPT ![c] = "wait"]
      /\ inbox' = Append(inbox, <<c, a>>) /\ job' = [job EXCEPT ![<<c, a>>] = "sent"]
  BY DEF Prints!Ask
<1>4. transport = "stdin" => job[<<c, "html">>] \in {"none", "over"}
  <2> SUFFICES ASSUME transport = "stdin" PROVE job[<<c, "html">>] \in {"none", "over"}
    OBVIOUS
  <2>1. inbox = <<>> /\ Prints!Running = {} /\ <<c, "html">> \in Prints!Jobs
    BY <1>1 DEF Prints!Ask, Prints!Busy, Prints!Jobs, Prints!Attempts
  <2>2. job[<<c, "html">>] # "sent"
    BY <1>1, <2>1 DEF Prints!InboxInv
  <2> QED BY <2>1, <2>2 DEF Prints!Running
<1> HIDE DEF a
<1>5. Prints!InboxInv' /\ inbox' \in Seq(Prints!Jobs)
  BY <1>1, <1>2, <1>3, SentOnce
<1>6. \A d \in Exports \ {c} : printPhase'[d] = printPhase[d]
  BY <1>1, <1>3 DEF Prints!PdfTypes
<1>7. ASSUME NEW d \in Exports \ {c} PROVE Prints!CallInv(d)'
  <2>1. Prints!CallInv(d)
    BY DEF Prints!PdfInv
  <2> QED BY <1>1, <1>2, <1>3, <1>6, <2>1, OthersKeep
<1>8. Prints!CallInv(c)'
  <2>1. printPhase'[c] = "wait" /\ attempt'[c] = a /\ printed'[c] = None
    BY <1>1, <1>3 DEF Prints!PdfTypes, Prints!CallInv, a
  <2>2. \A b \in Prints!Attempts \ {a} : job'[<<c, b>>] = job[<<c, b>>]
    BY <1>1, <1>2, <1>3 DEF Prints!PdfTypes, Prints!Jobs
  <2>3. ~Prints!Reported(c)'
    BY <2>1 DEF Prints!Reported
  <2>4. a # "url" => job'[<<c, "url">>] = "none"
    BY <1>1, <2>2 DEF Prints!CallInv, Prints!Attempts, a
  <2>5. a = "url" /\ (IF transport = "tcp" THEN c \notin gaveUp ELSE TRUE) => job'[<<c, "html">>] \in {"none", "over"}
    <3> SUFFICES ASSUME a = "url", IF transport = "tcp" THEN c \notin gaveUp ELSE TRUE
                 PROVE  job'[<<c, "html">>] \in {"none", "over"}
      OBVIOUS
    <3>1. job'[<<c, "html">>] = job[<<c, "html">>]
      BY <2>2 DEF Prints!Attempts
    <3>2. job[<<c, "html">>] \in {"none", "over"}
      BY <1>1, <1>4 DEF Prints!CallInv, Prints!PdfTypes, a
    <3> QED BY <3>1, <3>2
  <2>6. attempt' = attempt /\ transport' = transport /\ gaveUp' = gaveUp
    BY <1>1
  <2> QED BY <1>2, <2>1, <2>3, <2>4, <2>5, <2>6 DEF Prints!CallInv
<1>9. Prints!PdfTypes'
  BY <1>1, <1>2, <1>3, <1>5 DEF Prints!PdfTypes, Prints!Stages
<1> QED BY <1>5, <1>7, <1>8, <1>9 DEF Prints!PdfInv

\* The daemon takes a command up, or goes on with one.
LEMMA GoesOn ==
    ASSUME Prints!PdfInv, NEW c \in Exports, NEW a \in Prints!Attempts, NEW w \in Prints!Stages \ {"none", "sent"},
           job[<<c, a>>] \notin {"none", "over"}, job' = [job EXCEPT ![<<c, a>>] = w],
           UNCHANGED <<transport, printRequest, Prints!tool, file>>, inbox' \in Seq(Prints!Jobs), Prints!InboxInv'
    PROVE  Prints!PdfInv'
<1>1. Prints!PdfTypes /\ <<c, a>> \in Prints!Jobs /\ Prints!CallInv(c)
  BY DEF Prints!PdfInv, Prints!Jobs
<1>2. UNCHANGED <<printPhase, attempt, printed, gaveUp>>
  BY DEF Prints!tool
<1>3. Prints!CallInv(c)'
  BY <1>1, <1>2, JobMoves
<1>4. ASSUME NEW d \in Exports \ {c} PROVE Prints!CallInv(d)'
  <2>1. Prints!CallInv(d)
    BY DEF Prints!PdfInv
  <2> QED BY <1>1, <1>2, <2>1, OthersKeep
<1>5. Prints!PdfTypes'
  BY <1>1, <1>2 DEF Prints!PdfTypes
<1> QED BY <1>3, <1>4, <1>5 DEF Prints!PdfInv

LEMMA ReadKeeps ==
    ASSUME Prints!PdfInv, NEW c \in Exports, NEW a \in Prints!Attempts, Prints!Read(<<c, a>>)
    PROVE  Prints!PdfInv'
<1>1. Prints!PdfTypes /\ Prints!InboxInv /\ <<c, a>> \in Prints!Jobs
  BY DEF Prints!PdfInv, Prints!Jobs
<1>2. PICK i \in DOMAIN inbox : /\ inbox[i] = <<c, a>>
                                /\ inbox' = SubSeq(inbox, 1, i - 1) \o SubSeq(inbox, i + 1, Len(inbox))
  BY DEF Prints!Read
<1>3. job' = [job EXCEPT ![<<c, a>>] = "loading"] /\ UNCHANGED <<transport, printRequest, Prints!tool, file>>
  BY DEF Prints!Read
<1>4. inbox \in Seq(Prints!Jobs) /\ Once(inbox)
  BY <1>1 DEF Prints!PdfTypes, Prints!InboxInv, Once
<1>5. i \in DOMAIN inbox /\ inbox' = Cut(inbox, i)
  BY <1>2 DEF Cut
<1>6. inbox' \in Seq(Prints!Jobs) /\ Rest(inbox', inbox, i)
  BY <1>4, <1>5, OthersStay
<1>7. Prints!InboxInv' /\ job[<<c, a>>] = "sent"
  BY <1>1, <1>2, <1>3, <1>6, ReadOnce
<1> QED BY <1>3, <1>6, <1>7, GoesOn DEF Prints!Stages

LEMMA AtKeeps ==
    ASSUME Prints!PdfInv, NEW c \in Exports, NEW a \in Prints!Attempts, NEW w \in Prints!Stages \ {"none", "sent"},
           job[<<c, a>>] \notin {"none", "sent", "over"}, Prints!At(<<c, a>>, w)
    PROVE  Prints!PdfInv'
<1>1. Prints!PdfTypes /\ Prints!InboxInv /\ <<c, a>> \in Prints!Jobs
  BY DEF Prints!PdfInv, Prints!Jobs
<1>2. job' = [job EXCEPT ![<<c, a>>] = w] /\ UNCHANGED <<transport, printRequest, Prints!tool, inbox, file>>
  BY DEF Prints!At
<1>3. Prints!InboxInv' /\ inbox' \in Seq(Prints!Jobs)
  BY <1>1, <1>2, InboxStays DEF Prints!PdfTypes
<1> QED BY <1>2, <1>3, GoesOn

LEMMA FailsKeeps ==
    ASSUME Prints!PdfInv, Prints!PdfAssumption, NEW c \in Exports, NEW a \in Prints!Attempts, NEW w \in {"loading", "late", "printing"},
           NEW final, Prints!Fails(<<c, a>>, w, final)
    PROVE  Prints!PdfInv'
<1>1. Prints!Failure(final).source = "error"
  BY DEF Prints!Failure
<1>2. Ends(<<c, a>>, Prints!Failure(final))
  BY <1>1 DEF Prints!Fails, Ends
<1> QED BY <1>2, EndsKeeps DEF Prints!Fails

LEMMA PrintsKeeps ==
    ASSUME Prints!PdfInv, Prints!PdfAssumption, NEW c \in Exports, NEW a \in Prints!Attempts, Prints!PrintsToFile(<<c, a>>)
    PROVE  Prints!PdfInv'
<1>1. job[<<c, a>>] = "printing" /\ UNCHANGED inbox
  BY DEF Prints!PrintsToFile
<1>2. PICK n \in 0..MaxPages, large \in BOOLEAN :
        LET r == printRequest[c]
            pages == Prints!Extract(r.range, n)
        IN  IF pages = None THEN Prints!Reply(<<c, a>>, Prints!Failure(TRUE)) /\ UNCHANGED file
            ELSE /\ file' = [file EXCEPT ![c] = [source |-> a, pages |-> pages, sheet |-> Prints!Sheet(r)]]
                 /\ Prints!Reply(<<c, a>>, IF pages = 0 /\ ~large THEN Prints!Failure(FALSE)
                                    ELSE [source |-> a, pages |-> pages])
  BY DEF Prints!PrintsToFile
<1> DEFINE pages == Prints!Extract(printRequest[c].range, n)
           f == [source |-> a, pages |-> pages, sheet |-> Prints!Sheet(printRequest[c])]
           rep == IF pages = None THEN Prints!Failure(TRUE)
                    ELSE IF pages = 0 /\ ~large THEN Prints!Failure(FALSE) ELSE [source |-> a, pages |-> pages]
<1>3. Prints!Reply(<<c, a>>, rep) /\ (IF pages = None THEN file' = file ELSE file' = [file EXCEPT ![c] = f])
  BY <1>2
<1> HIDE DEF pages
<1>4. rep.source = "error" \/ (pages # None /\ rep = [source |-> a, pages |-> pages])
  BY DEF Prints!Failure
<1> HIDE DEF rep
<1>5. \/ rep.source = "error"
      \/ /\ rep = [source |-> a, pages |-> rep.pages]
         /\ file'[c] = [source |-> a, pages |-> rep.pages, sheet |-> Prints!Sheet(printRequest[c])]
  <2>1. c \in DOMAIN file
    BY DEF Prints!PdfInv, Prints!PdfTypes
  <2>2. CASE pages # None /\ rep = [source |-> a, pages |-> pages]
    <3>1. file'[c] = f /\ rep.pages = pages
      BY <1>3, <2>1, <2>2
    <3> QED BY <2>2, <3>1
  <2> QED BY <1>4, <2>2, Zenon
<1>6. file' = file \/ \E g : file' = [file EXCEPT ![c] = g]
  BY <1>3
<1>7. Ends(<<c, a>>, rep)
  BY <1>1, <1>3, <1>5, <1>6 DEF Ends
<1> QED BY <1>1, <1>7, EndsKeeps

LEMMA PdfStep == Prints!PdfAssumption /\ Prints!PdfInv /\ [Prints!Next]_(Prints!vars) => Prints!PdfInv'
<1> SUFFICES ASSUME Prints!PdfAssumption, Prints!PdfInv, [Prints!Next]_(Prints!vars) PROVE Prints!PdfInv'
  OBVIOUS
<1>1. CASE UNCHANGED Prints!vars
  <2>1. UNCHANGED <<transport, printRequest, printPhase, attempt, printed, gaveUp, inbox, job, file>>
    BY <1>1 DEF Prints!vars, Prints!tool
  <2>2. Prints!PdfTypes' /\ Prints!InboxInv'
    BY <2>1 DEF Prints!PdfInv, Prints!PdfTypes, Prints!InboxInv
  <2>3. ASSUME NEW c \in Exports PROVE Prints!CallInv(c)'
    <3>1. Prints!CallInv(c) /\ attempt[c] \in Prints!Attempts \cup {None}
      BY DEF Prints!PdfInv, Prints!PdfTypes
    <3> QED BY <2>1, <3>1, CallKeeps
  <2> QED BY <2>2, <2>3 DEF Prints!PdfInv
<1>2. ASSUME NEW c \in Exports, Prints!Begin(c) \/ Prints!Ask(c) \/ Prints!Unavailable(c) \/ Prints!GiveUp(c) PROVE Prints!PdfInv'
  <2>1. CASE Prints!Unavailable(c)
    BY <2>1, AskingKeeps DEF Prints!Unavailable
  <2>2. CASE Prints!GiveUp(c)
    BY <2>2, AskingKeeps DEF Prints!GiveUp
  <2> QED BY <1>2, <2>1, <2>2, BeginKeeps, AskKeeps
<1>3. ASSUME NEW j \in Prints!Jobs,
             \/ Prints!Read(j) \/ Prints!Refuse(j) \/ Prints!DidFinish(j) \/ Prints!DidFail(j)
             \/ Prints!NavigationTimeout(j) \/ Prints!NavigationSettlesLate(j)
             \/ Prints!FontsSettle(j) \/ Prints!PrintFails(j) \/ Prints!PrintsToFile(j)
      PROVE  Prints!PdfInv'
  <2>1. PICK c \in Exports, a \in Prints!Attempts : j = <<c, a>>
    BY DEF Prints!Jobs
  <2>2. CASE Prints!Read(j)
    BY <2>1, <2>2, ReadKeeps
  <2>3. CASE Prints!Refuse(j) \/ Prints!DidFail(j) \/ Prints!NavigationSettlesLate(j) \/ Prints!PrintFails(j)
    BY <2>1, <2>3, FailsKeeps DEF Prints!Refuse, Prints!DidFail, Prints!NavigationSettlesLate, Prints!PrintFails
  <2>4. CASE Prints!DidFinish(j) \/ Prints!NavigationTimeout(j) \/ Prints!FontsSettle(j)
    BY <2>1, <2>4, AtKeeps DEF Prints!DidFinish, Prints!NavigationTimeout, Prints!FontsSettle, Prints!Stages
  <2>5. CASE Prints!PrintsToFile(j)
    BY <2>1, <2>5, PrintsKeeps
  <2> QED BY <1>3, <2>2, <2>3, <2>4, <2>5
<1> QED BY <1>1, <1>2, <1>3 DEF Prints!Next

LEMMA PdfTold == Prints!PdfAssumption /\ Prints!PdfInv => Prints!AnswerDescribesFile
<1> SUFFICES ASSUME Prints!PdfAssumption, Prints!PdfInv, NEW c \in Exports, Prints!Reported(c), transport = "stdin" \/ c \notin gaveUp
             PROVE  /\ file[c] = [source |-> printed[c].source, pages |-> printed[c].pages, sheet |-> Prints!Sheet(printRequest[c])]
                    /\ Prints!Unspoilt(printRequest[c]) => file[c].sheet = printRequest[c].paper
  BY DEF Prints!AnswerDescribesFile, Prints!Reported
<1>1. /\ printed[c] = [source |-> attempt[c], pages |-> printed[c].pages]
      /\ file[c] = [source |-> attempt[c], pages |-> printed[c].pages, sheet |-> Prints!Sheet(printRequest[c])]
      /\ printRequest[c] \in PdfRequests
  BY DEF Prints!PdfInv, Prints!CallInv, Prints!PdfTypes
<1>2. file[c] = [source |-> printed[c].source, pages |-> printed[c].pages, sheet |-> Prints!Sheet(printRequest[c])]
  BY <1>1
<1>3. Prints!Unspoilt(printRequest[c]) => Prints!Sheet(printRequest[c]) = printRequest[c].paper
  BY <1>1 DEF Prints!PdfAssumption, Prints!Unspoilt, Prints!Sheet, Prints!Sent, Prints!AsDouble
<1> QED BY <1>1, <1>2, <1>3

-----------------------------------------------------------------------------
\* Gates.
LEMMA LeastOf ==
    ASSUME NEW T \in SUBSET Nat, T # {}
    PROVE  Guard!Min(T) \in T /\ \A n \in T : Guard!Min(T) <= n
BY LeastMember DEF Guard!Min

\* What expired is at the beginning.
LEMMA Pruned ==
    ASSUME Guard!GatesAssumption, clock \in Nat, NEW w \in Seq(Nat)
    PROVE  \E m \in 0..Len(w) :
              /\ Guard!Prune(w) \in Seq(Nat) /\ Len(Guard!Prune(w)) = Len(w) - m
              /\ \A i \in 1..(Len(w) - m) : Guard!Prune(w)[i] = w[m + i]
              /\ \A i \in 1..m : w[i] + WindowMs <= clock
<1> DEFINE T == {i \in DOMAIN w : w[i] + WindowMs > clock}
           L == Len(w)
<1>0. Guard!Prune(w) = IF T = {} THEN <<>> ELSE SubSeq(w, Guard!Min(T), L)
  BY DEF Guard!Prune
<1>1. L \in Nat /\ DOMAIN w = 1..L /\ \A i \in 1..L : w[i] \in Nat
  BY LenProperties, ElementOfSeq
<1>2. WindowMs \in Nat
  BY DEF Guard!GatesAssumption
<1> HIDE DEF L
<1>3. T \in SUBSET Nat /\ \A i \in 1..L : i \notin T => w[i] + WindowMs <= clock
  BY <1>1, <1>2
<1>4. T \subseteq 1..L
  BY <1>1
<1> HIDE DEF T
<1>5. CASE T = {}
  <2>1. Guard!Prune(w) \in Seq(Nat) /\ Len(Guard!Prune(w)) = 0
    BY <1>0, <1>5, EmptySeq
  <2>2. L \in 0..L /\ L - L = 0 /\ \A i \in 1..L : w[i] + WindowMs <= clock
    BY <1>1, <1>3, <1>5
  <2> QED BY <2>1, <2>2 DEF L
<1>6. CASE T # {}
  <2> DEFINE m == Guard!Min(T)
  <2>1. m \in T /\ \A n \in T : m <= n
    BY <1>3, <1>6, LeastOf
  <2>0. Guard!Prune(w) = SubSeq(w, m, L)
    BY <1>0, <1>6
  <2> HIDE DEF m
  <2>2. m \in 1..L /\ L \in Int /\ m \in Int
    BY <1>1, <1>4, <2>1
  <2>4. \A i \in m..L : w[i] \in Nat
    BY <1>1, <2>2
  <2>5. /\ Guard!Prune(w) \in Seq(Nat) /\ Len(Guard!Prune(w)) = (IF m <= L THEN L - m + 1 ELSE 0)
        /\ \A i \in 1..(L - m + 1) : Guard!Prune(w)[i] = w[m + i - 1]
    BY <2>0, <2>2, <2>4, SubSeqProperties
  <2>6. m - 1 \in 0..L /\ L - (m - 1) = L - m + 1 /\ m <= L
        /\ \A i \in 1..(L - (m - 1)) : m + i - 1 = (m - 1) + i
    BY <2>2
  <2>7. \A i \in 1..(m - 1) : w[i] + WindowMs <= clock
    <3> SUFFICES ASSUME NEW i \in 1..(m - 1) PROVE i \in 1..L /\ i \notin T
      BY <1>3
    <3> QED BY <2>1, <2>2
  <2>8. /\ m - 1 \in 0..L /\ Guard!Prune(w) \in Seq(Nat) /\ Len(Guard!Prune(w)) = L - (m - 1)
        /\ \A i \in 1..(L - (m - 1)) : Guard!Prune(w)[i] = w[(m - 1) + i]
        /\ \A i \in 1..(m - 1) : w[i] + WindowMs <= clock
    BY <2>5, <2>6, <2>7
  <2> QED BY <2>8 DEF L
<1> QED BY <1>5, <1>6

IsShifted(p, h, x, threshold, m) ==
    /\ Len(p) = Len(h) + 1 - m /\ (m = 1 <=> Len(h) + 1 > threshold)
    /\ p[Len(h) + 1 - m] = x
    /\ \A i \in 1..(Len(h) - m) : p[i] = h[i + m]

LEMMA ShiftedOn ==
    ASSUME NEW S, NEW h \in Seq(S), NEW x \in S, NEW threshold \in Nat \ {0}
    PROVE  /\ Guard!Shifted(h, x, threshold) \in Seq(S)
           /\ \E m \in {0, 1} : IsShifted(Guard!Shifted(h, x, threshold), h, x, threshold, m)
<1> DEFINE a == Append(h, x)
           p == Guard!Shifted(h, x, threshold)
           L == Len(h)
<1>1. /\ a \in Seq(S) /\ a # <<>> /\ Len(a) = L + 1 /\ \A i \in 1..L : a[i] = h[i]
      /\ a[L + 1] = x /\ L \in Nat
  BY AppendProperties, LenProperties
<1>2. p = IF Len(a) > threshold THEN Tail(a) ELSE a
  BY DEF Guard!Shifted
<1> HIDE DEF a, p, L
<1>3. CASE L + 1 > threshold
  <2>1. p = Tail(a) /\ p \in Seq(S) /\ Len(p) = L /\ \A i \in 1..L : p[i] = a[i + 1]
    <3>1. Tail(a) \in Seq(S) /\ Len(Tail(a)) = Len(a) - 1 /\ \A i \in 1..Len(Tail(a)) : Tail(a)[i] = a[i + 1]
      BY <1>1, HeadTailProperties
    <3>2. p = Tail(a)
      BY <1>1, <1>2, <1>3
    <3> HIDE DEF a
    <3>3. Len(a) - 1 = L
      BY <1>1
    <3> QED BY <3>1, <3>2, <3>3
  <2>2. L + 1 - 1 = L /\ L >= 1 /\ \A i \in 1..(L - 1) : i \in 1..L /\ i + 1 \in 1..L
    BY <1>1, <1>3
  <2>3. p[L] = x /\ \A i \in 1..(L - 1) : p[i] = h[i + 1]
    BY <1>1, <2>1, <2>2
  <2> QED BY <1>3, <2>1, <2>2, <2>3 DEF p, L, IsShifted
<1>4. CASE ~(L + 1 > threshold)
  <2>1. p = a
    BY <1>1, <1>2, <1>4
  <2>2. L + 1 - 0 = L + 1 /\ L - 0 = L /\ \A i \in 1..L : i + 0 = i
    BY <1>1
  <2> QED BY <1>1, <1>4, <2>1, <2>2 DEF p, L, IsShifted
<1> QED BY <1>3, <1>4

\* No run of equal entries that were let through becomes as long as the threshold.
LEMMA PushKeeps ==
    ASSUME NEW S, NEW h \in Seq(S), NEW x \in S, NEW threshold \in Nat \ {0}, NEW g, Guard!RepeatsInv(h, g, threshold)
    PROVE  /\ Guard!Pushed(h, x, threshold) \in Seq(S)
           /\ Guard!RepeatsInv(Guard!Pushed(h, x, threshold), Guard!Counted(g, x, ~Guard!Repeats(h, x, threshold)), threshold)
<1> DEFINE p == Guard!Pushed(h, x, threshold)
           e == Guard!Counted(g, x, ~Guard!Repeats(h, x, threshold))
           L == Len(h)
           prior == IF g.what = x THEN g.times ELSE 0
<1>0. p \in Seq(S) /\ \E m \in {0, 1} : IsShifted(p, h, x, threshold, m)
  BY ShiftedOn DEF Guard!Pushed
<1>1. PICK m \in {0, 1} :
              /\ p \in Seq(S) /\ Len(p) = L + 1 - m /\ (m = 1 <=> L + 1 > threshold)
              /\ p[L + 1 - m] = x /\ \A i \in 1..(L - m) : p[i] = h[i + m]
  BY <1>0 DEF IsShifted
<1>2. L \in Nat /\ DOMAIN h = 1..L /\ DOMAIN p = 1..Len(p) /\ Len(p) \in Nat
  BY <1>1, LenProperties
<1>3. /\ prior \in Nat /\ prior < threshold /\ prior <= L
      /\ \A i \in 1..L : i > L - prior => h[i] = x
  BY <1>2 DEF Guard!RepeatsInv
<1>4. Guard!Repeats(h, x, threshold) <=> L + 1 >= threshold /\ \A i \in 1..L : i + threshold > L + 1 => h[i] = x
  BY DEF Guard!Repeats
<1>5. e.what = x /\ e.times = IF Guard!Repeats(h, x, threshold) THEN prior ELSE prior + 1
  BY DEF Guard!Counted
<1> HIDE DEF L, prior, p, e
<1>6. ~Guard!Repeats(h, x, threshold) => prior + 1 < threshold
  <2> SUFFICES ASSUME prior + 1 >= threshold PROVE Guard!Repeats(h, x, threshold)
    BY <1>3
  <2>1. L + 1 >= threshold
    BY <1>2, <1>3
  <2>2. \A i \in 1..L : i + threshold > L + 1 => i > L - prior
    BY <1>2, <1>3
  <2> QED BY <1>3, <1>4, <2>1, <2>2
<1>7. e.times \in Nat /\ e.times < threshold /\ e.times <= prior + 1
  BY <1>3, <1>5, <1>6
<1>8. e.times <= Len(p)
  BY <1>1, <1>2, <1>3, <1>5, <1>6
<1>9. ASSUME NEW i \in 1..Len(p), i > Len(p) - e.times PROVE p[i] = x
  <2>1. CASE i = Len(p)
    BY <1>1, <2>1
  <2>2. CASE i # Len(p)
    <3>1. i \in 1..(L - m) /\ i + m \in 1..L /\ i + m > L - prior
      BY <1>1, <1>2, <1>3, <1>7, <1>9, <2>2
    <3> QED BY <1>1, <1>3, <3>1
  <2> QED BY <2>1, <2>2
<1> QED BY <1>1, <1>2, <1>5, <1>7, <1>8, <1>9 DEF Guard!RepeatsInv, p, e

\* The rate limiter forgets what expired.
LEMMA PrunedHolds ==
    ASSUME Guard!GatesAssumption, clock \in Nat, NEW w \in Seq(Nat), NEW a \in Seq(Nat), Guard!QuotaInv(w, a)
    PROVE  /\ Guard!Prune(w) \in Seq(Nat) /\ Guard!QuotaInv(Guard!Prune(w), a)
<1>1. PICK m \in 0..Len(w) :
              /\ Guard!Prune(w) \in Seq(Nat) /\ Len(Guard!Prune(w)) = Len(w) - m
              /\ \A i \in 1..(Len(w) - m) : Guard!Prune(w)[i] = w[m + i]
              /\ \A i \in 1..m : w[i] + WindowMs <= clock
  BY Pruned
<1> DEFINE p == Guard!Prune(w)
           W == Len(w)
           A == Len(a)
<1>2. /\ W \in Nat /\ A \in Nat /\ m \in 0..W /\ DOMAIN w = 1..W /\ DOMAIN a = 1..A /\ DOMAIN p = 1..Len(p)
      /\ p \in Seq(Nat) /\ Len(p) = W - m /\ \A i \in 1..(W - m) : p[i] = w[m + i]
      /\ \A i \in 1..m : w[i] + WindowMs <= clock
  BY <1>1, LenProperties
<1>3. /\ W <= GlobalLimit /\ A <= GlobalLimit + 1 /\ A - W >= 0
      /\ \A i \in 1..W : w[i] = a[(A - W) + i]
      /\ \A i, k \in 1..A : i <= k => a[i] <= a[k]
      /\ \A i \in 1..A : a[i] <= clock /\ (i <= A - W => a[i] + WindowMs <= clock)
      /\ A = GlobalLimit + 1 => a[1] + WindowMs <= a[A]
  BY <1>2 DEF Guard!QuotaInv
<1>4. GlobalLimit \in Nat
  BY DEF Guard!GatesAssumption
<1> HIDE DEF p, W, A
<1>5. Len(p) \in Nat /\ Len(p) <= GlobalLimit /\ A - Len(p) >= 0 /\ A - Len(p) = (A - W) + m
  BY <1>2, <1>3, <1>4
<1>6. ASSUME NEW i \in DOMAIN p PROVE p[i] = a[(A - Len(p)) + i]
  <2>0. i \in Int /\ 1 <= i /\ i <= W - m /\ m \in Int /\ 0 <= m /\ W \in Int /\ A \in Int
    BY <1>2
  <2>1. m + i \in 1..W /\ i \in 1..(W - m)
    BY <2>0
  <2>2. (A - W) + (m + i) = (A - Len(p)) + i
    <3>1. Len(p) = W - m
      BY <1>2
    <3>2. (A - W) + (m + i) = (A - (W - m)) + i
      BY <2>0
    <3> QED BY <3>1, <3>2, Zenon
  <2> QED BY <1>2, <1>3, <2>1, <2>2
<1>7. ASSUME NEW i \in 1..A, i <= A - Len(p) PROVE a[i] + WindowMs <= clock
  <2>1. CASE i <= A - W
    BY <1>3, <2>1
  <2>2. CASE ~(i <= A - W)
    <3>1. i - (A - W) \in 1..m /\ i - (A - W) \in 1..W /\ (A - W) + (i - (A - W)) = i
      BY <1>2, <1>3, <1>5, <1>7, <2>2
    <3> QED BY <1>2, <1>3, <3>1
  <2> QED BY <2>1, <2>2
<1>8. Guard!QuotaInv(p, a)
  BY <1>2, <1>3, <1>5, <1>6, <1>7 DEF Guard!QuotaInv, A
<1> QED BY <1>2, <1>8 DEF p

\* What it records comes last, and the first of as many and one more expired.
LEMMA RecordHolds ==
    ASSUME Guard!GatesAssumption, clock \in Nat, NEW w \in Seq(Nat), NEW a \in Seq(Nat), Guard!QuotaInv(w, a), Len(w) < GlobalLimit
    PROVE  /\ Append(w, clock) \in Seq(Nat) /\ Guard!Shifted(a, clock, GlobalLimit + 1) \in Seq(Nat)
           /\ Guard!QuotaInv(Append(w, clock), Guard!Shifted(a, clock, GlobalLimit + 1))
<1> DEFINE p == Append(w, clock)
           b == Guard!Shifted(a, clock, GlobalLimit + 1)
           W == Len(w)
           A == Len(a)
<1>1. GlobalLimit \in Nat /\ GlobalLimit >= 1 /\ WindowMs \in Nat
  BY DEF Guard!GatesAssumption
<1>2. PICK m \in {0, 1} :
              /\ b \in Seq(Nat) /\ Len(b) = A + 1 - m /\ (m = 1 <=> A + 1 > GlobalLimit + 1)
              /\ b[A + 1 - m] = clock
              /\ \A i \in 1..(A - m) : b[i] = a[i + m]
  <2>1. GlobalLimit + 1 \in Nat \ {0}
    BY <1>1
  <2>2. b \in Seq(Nat) /\ \E m \in {0, 1} : IsShifted(b, a, clock, GlobalLimit + 1, m)
    <3> DEFINE n == GlobalLimit + 1
    <3>1. n \in Nat \ {0}
      BY <2>1
    <3> HIDE DEF n
    <3>2. Guard!Shifted(a, clock, n) \in Seq(Nat) /\ \E m \in {0, 1} : IsShifted(Guard!Shifted(a, clock, n), a, clock, n, m)
      BY <3>1, ShiftedOn
    <3> QED BY <3>2 DEF n
  <2> QED BY <2>2 DEF IsShifted
<1>3. p \in Seq(Nat) /\ Len(p) = W + 1 /\ p[W + 1] = clock /\ \A i \in 1..W : p[i] = w[i]
  BY AppendProperties
<1>4. /\ W \in Nat /\ A \in Nat /\ DOMAIN w = 1..W /\ DOMAIN a = 1..A /\ DOMAIN p = 1..Len(p) /\ DOMAIN b = 1..Len(b)
      /\ \A i \in 1..A : a[i] \in Nat
  BY <1>2, <1>3, LenProperties, ElementOfSeq
<1>5. /\ W < GlobalLimit /\ A <= GlobalLimit + 1 /\ A - W >= 0
      /\ \A i \in 1..W : w[i] = a[(A - W) + i]
      /\ \A i, k \in 1..A : i <= k => a[i] <= a[k]
      /\ \A i \in 1..A : a[i] <= clock /\ (i <= A - W => a[i] + WindowMs <= clock)
  BY <1>4 DEF Guard!QuotaInv
<1> HIDE DEF p, b, W, A
<1>6. /\ Len(b) \in Nat /\ Len(b) <= GlobalLimit + 1 /\ Len(p) <= GlobalLimit
      /\ Len(b) - Len(p) = (A - W) - m /\ Len(b) - Len(p) >= 0
  BY <1>1, <1>2, <1>3, <1>4, <1>5
<1>7. ASSUME NEW i \in DOMAIN p PROVE p[i] = b[(Len(b) - Len(p)) + i]
  <2>1. CASE i = W + 1
    BY <1>2, <1>3, <1>4, <1>6, <2>1
  <2>2. CASE i # W + 1
    <3>0. /\ i \in Int /\ 1 <= i /\ i <= W + 1 /\ m \in {0, 1} /\ W \in Nat /\ A \in Nat /\ A - W >= 0
          /\ Len(b) - Len(p) = (A - W) - m /\ (A - W) - m >= 0
      BY <1>3, <1>4, <1>5, <1>6
    <3>1. /\ i \in 1..W /\ ((A - W) - m) + i \in 1..(A - m) /\ (((A - W) - m) + i) + m = (A - W) + i
      BY <2>2, <3>0
    <3> QED BY <1>2, <1>3, <1>5, <3>0, <3>1
  <2> QED BY <2>1, <2>2
<1>8. ASSUME NEW i \in DOMAIN b
      PROVE  \/ i = Len(b) /\ b[i] = clock
             \/ i # Len(b) /\ i + m \in 1..A /\ b[i] = a[i + m]
  <2>1. i \in Int /\ 1 <= i /\ i <= Len(b) /\ Len(b) = A + 1 - m /\ m \in {0, 1} /\ A \in Nat
    BY <1>2, <1>4
  <2>2. i # Len(b) => i \in 1..(A - m) /\ i + m \in 1..A
    BY <2>1
  <2> QED BY <1>2, <2>1, <2>2
<1>9. ASSUME NEW i \in DOMAIN b, NEW k \in DOMAIN b, i <= k PROVE b[i] <= b[k]
  <2>1. CASE k = Len(b)
    BY <1>2, <1>4, <1>5, <1>8, <2>1
  <2>2. CASE k # Len(b)
    <3>1. i \in Int /\ k \in Int /\ m \in Int /\ k <= Len(b) /\ Len(b) \in Int
      BY <1>4, <1>6
    <3>2. i # Len(b) /\ i + m <= k + m
      BY <1>9, <2>2, <3>1
    <3> QED BY <1>5, <1>8, <2>2, <3>2
  <2> QED BY <2>1, <2>2
<1>10. ASSUME NEW i \in DOMAIN b, i <= Len(b) - Len(p) PROVE b[i] + WindowMs <= clock
  <2>1. i # Len(b)
    BY <1>3, <1>4, <1>6, <1>10
  <2>2. i + m \in 1..A /\ b[i] = a[i + m] /\ i + m <= A - W
    BY <1>2, <1>4, <1>6, <1>8, <1>10, <2>1
  <2> QED BY <1>5, <2>2
<1>11. ASSUME NEW i \in DOMAIN b PROVE b[i] <= clock
  BY <1>5, <1>8
<1>12. Len(b) = GlobalLimit + 1 => b[1] + WindowMs <= b[Len(b)]
  <2> SUFFICES ASSUME Len(b) = GlobalLimit + 1 PROVE b[1] + WindowMs <= clock
    BY <1>2
  <2>1. 1 \in DOMAIN b /\ 1 <= Len(b) - Len(p)
    BY <1>1, <1>3, <1>4, <1>5, <1>6
  <2> QED BY <1>10, <2>1
<1>13. Guard!QuotaInv(p, b)
  BY <1>6, <1>7, <1>9, <1>10, <1>11, <1>12 DEF Guard!QuotaInv
<1> QED BY <1>2, <1>3, <1>13 DEF p, b

LEMMA GatesInit == Guard!GatesAssumption /\ Guard!Init => Guard!GatesInv
<1> SUFFICES ASSUME Guard!GatesAssumption, Guard!Init PROVE Guard!GatesInv
  OBVIOUS
<1>1. /\ <<>> \in Seq(Nat) /\ <<>> \in Seq(Guard!Keys) /\ <<>> \in Seq(Results) /\ Len(<<>>) = 0 /\ DOMAIN <<>> = {}
  BY EmptySeq
<1>2. GlobalLimit \in Nat \ {0} /\ LoopThreshold \in Nat \ {0} /\ ThrashThreshold \in Nat \ {0}
  BY DEF Guard!GatesAssumption
<1>3. Guard!QuotaInv(<<>>, <<>>)
  <2>1. \A i \in DOMAIN <<>> : FALSE
    BY <1>1
  <2>2. Len(<<>>) <= GlobalLimit /\ Len(<<>>) <= GlobalLimit + 1 /\ Len(<<>>) - Len(<<>>) >= 0 /\ Len(<<>>) # GlobalLimit + 1
    BY <1>1, <1>2
  <2> QED BY <2>1, <2>2 DEF Guard!QuotaInv
<1>4. Guard!RepeatsInv(<<>>, Guard!Nobody, LoopThreshold) /\ Guard!RepeatsInv(<<>>, Guard!Nobody, ThrashThreshold)
  BY <1>1, <1>2 DEF Guard!RepeatsInv, Guard!Nobody
<1>5. /\ clock = 0 /\ windows = [d \in Guard!Domains |-> <<>>] /\ admitted = [d \in Guard!Domains |-> <<>>]
      /\ callHistory = <<>> /\ snapshotResultHistory = <<>> /\ streak = Guard!Nobody /\ shown = Guard!Nobody
  BY DEF Guard!Init
<1>6. windows \in [Guard!Domains -> Seq(Nat)] /\ admitted \in [Guard!Domains -> Seq(Nat)]
      /\ \A d \in Guard!Domains : windows[d] = <<>> /\ admitted[d] = <<>>
  BY <1>1, <1>5
<1> QED BY <1>1, <1>3, <1>4, <1>5, <1>6 DEF Guard!GatesInv

\* The parts of the invariant.
Quotas ==
    /\ clock \in Nat /\ windows \in [Guard!Domains -> Seq(Nat)] /\ admitted \in [Guard!Domains -> Seq(Nat)]
    /\ \A d \in Guard!Domains : Guard!QuotaInv(windows[d], admitted[d])
Loops == callHistory \in Seq(Guard!Keys) /\ Guard!RepeatsInv(callHistory, streak, LoopThreshold)
Thrashes == snapshotResultHistory \in Seq(Results) /\ Guard!RepeatsInv(snapshotResultHistory, shown, ThrashThreshold)

LEMMA GatesParts == Guard!GatesInv <=> Quotas /\ Loops /\ Thrashes
BY DEF Guard!GatesInv, Quotas, Loops, Thrashes

LEMMA LoopsStay == Loops /\ UNCHANGED <<callHistory, streak>> => Loops'
BY DEF Loops, Guard!RepeatsInv

LEMMA ThrashesStay == Thrashes /\ UNCHANGED <<snapshotResultHistory, shown>> => Thrashes'
BY DEF Thrashes, Guard!RepeatsInv

LEMMA QuotasStay == Quotas /\ UNCHANGED <<clock, windows, admitted>> => Quotas'
<1> SUFFICES ASSUME Quotas, UNCHANGED <<clock, windows, admitted>> PROVE Quotas'
  OBVIOUS
<1>1. ASSUME NEW d \in Guard!Domains PROVE Guard!QuotaInv(windows[d], admitted[d])'
  <2>1. Guard!QuotaInv(windows[d], admitted[d])
    BY DEF Quotas
  <2> QED BY <2>1 DEF Guard!QuotaInv
<1> QED BY <1>1 DEF Quotas

LEMMA TimePasses ==
    ASSUME Quotas, Guard!GatesAssumption, Guard!Tick
    PROVE  Quotas'
<1>1. clock \in Nat /\ clock' = clock + 1 /\ windows' = windows /\ admitted' = admitted /\ WindowMs \in Nat
  BY DEF Quotas, Guard!Tick, Guard!GatesAssumption
<1>2. ASSUME NEW d \in Guard!Domains PROVE Guard!QuotaInv(windows[d], admitted[d])'
  <2>1. Guard!QuotaInv(windows[d], admitted[d]) /\ admitted[d] \in Seq(Nat)
    BY DEF Quotas
  <2>2. \A i \in DOMAIN admitted[d] : admitted[d][i] \in Nat
    BY <2>1, ElementOfSeq, LenProperties
  <2>3. \A i \in DOMAIN admitted[d] :
            /\ admitted[d][i] <= clock => admitted[d][i] <= clock'
            /\ admitted[d][i] + WindowMs <= clock => admitted[d][i] + WindowMs <= clock'
    BY <1>1, <2>2
  <2> QED BY <1>1, <2>1, <2>3 DEF Guard!QuotaInv
<1> QED BY <1>1, <1>2 DEF Quotas

\* One domain's window changes.
LEMMA OneWindow ==
    ASSUME Quotas, NEW d \in Guard!Domains, NEW w \in Seq(Nat), NEW a \in Seq(Nat), Guard!QuotaInv(w, a), UNCHANGED clock,
           windows' = [windows EXCEPT ![d] = w], admitted' = [admitted EXCEPT ![d] = a]
    PROVE  Quotas'
<1>1. windows' \in [Guard!Domains -> Seq(Nat)] /\ admitted' \in [Guard!Domains -> Seq(Nat)] /\ clock' \in Nat
  BY DEF Quotas
<1>2. ASSUME NEW e \in Guard!Domains PROVE Guard!QuotaInv(windows[e], admitted[e])'
  <2>1. windows'[e] = IF e = d THEN w ELSE windows[e]
    BY DEF Quotas
  <2>2. admitted'[e] = IF e = d THEN a ELSE admitted[e]
    BY DEF Quotas
  <2>3. Guard!QuotaInv(windows'[e], admitted'[e])
    BY <2>1, <2>2 DEF Quotas
  <2> QED BY <2>3 DEF Guard!QuotaInv
<1> QED BY <1>1, <1>2 DEF Quotas

LEMMA LimitedKeeps ==
    ASSUME Quotas, Guard!GatesAssumption, NEW c \in ToolCalls, Guard!RateLimited(c)
    PROVE  Quotas'
<1> DEFINE d == c.domain
<1>1. d \in Guard!Domains
  BY DEF Guard!Domains
<1>2. windows' = [windows EXCEPT ![d] = Guard!Prune(windows[d])] /\ UNCHANGED <<clock, admitted>>
  BY DEF Guard!RateLimited
<1> HIDE DEF d
<1>3. windows[d] \in Seq(Nat) /\ admitted[d] \in Seq(Nat) /\ Guard!QuotaInv(windows[d], admitted[d]) /\ clock \in Nat
  BY <1>1 DEF Quotas
<1>4. Guard!Prune(windows[d]) \in Seq(Nat) /\ Guard!QuotaInv(Guard!Prune(windows[d]), admitted[d])
  BY <1>3, PrunedHolds
<1>5. admitted' = [admitted EXCEPT ![d] = admitted[d]]
  BY <1>1, <1>2 DEF Quotas
<1> QED BY <1>1, <1>2, <1>3, <1>4, <1>5, OneWindow

LEMMA RecordKeeps ==
    ASSUME Quotas, Guard!GatesAssumption, NEW c \in ToolCalls, Guard!RecordAction(c), UNCHANGED clock
    PROVE  Quotas'
<1> DEFINE d == c.domain
<1>1. d \in Guard!Domains
  BY DEF Guard!Domains
<1>2. /\ Len(Guard!Prune(windows[d])) < GlobalLimit
      /\ windows' = [windows EXCEPT ![d] = Append(Guard!Prune(windows[d]), clock)]
      /\ admitted' = [admitted EXCEPT ![d] = Guard!Shifted(admitted[d], clock, GlobalLimit + 1)]
  BY DEF Guard!RecordAction
<1> HIDE DEF d
<1>3. windows[d] \in Seq(Nat) /\ admitted[d] \in Seq(Nat) /\ Guard!QuotaInv(windows[d], admitted[d]) /\ clock \in Nat
  BY <1>1 DEF Quotas
<1>4. Guard!Prune(windows[d]) \in Seq(Nat) /\ Guard!QuotaInv(Guard!Prune(windows[d]), admitted[d])
  BY <1>3, PrunedHolds
<1>5. /\ Append(Guard!Prune(windows[d]), clock) \in Seq(Nat) /\ Guard!Shifted(admitted[d], clock, GlobalLimit + 1) \in Seq(Nat)
      /\ Guard!QuotaInv(Append(Guard!Prune(windows[d]), clock), Guard!Shifted(admitted[d], clock, GlobalLimit + 1))
  BY <1>2, <1>3, <1>4, RecordHolds
<1> QED BY <1>1, <1>2, <1>5, OneWindow

LEMMA GatesStep == Guard!GatesAssumption /\ Guard!GatesInv /\ [Guard!Next]_(Guard!vars) => Guard!GatesInv'
<1> SUFFICES ASSUME Guard!GatesAssumption, Quotas, Loops, Thrashes, [Guard!Next]_(Guard!vars) PROVE Quotas' /\ Loops' /\ Thrashes'
  BY GatesParts DEF Guard!GatesInv, Quotas, Loops, Thrashes
<1>0. LoopThreshold \in Nat \ {0} /\ ThrashThreshold \in Nat \ {0}
  BY DEF Guard!GatesAssumption
<1>1. CASE UNCHANGED Guard!vars
  BY <1>1, QuotasStay, LoopsStay, ThrashesStay DEF Guard!vars
<1>2. CASE Guard!Tick
  BY <1>2, TimePasses, LoopsStay, ThrashesStay DEF Guard!Tick
<1>3. ASSUME NEW c \in ToolCalls, Guard!Refuse(c) PROVE Quotas' /\ Loops' /\ Thrashes'
  BY <1>3, QuotasStay, LoopsStay, ThrashesStay DEF Guard!Refuse
<1>4. ASSUME NEW c \in ToolCalls, Guard!RateLimited(c) PROVE Quotas' /\ Loops' /\ Thrashes'
  <2>1. UNCHANGED <<callHistory, snapshotResultHistory, streak, shown>>
    BY <1>4 DEF Guard!RateLimited
  <2> QED BY <1>4, <2>1, LimitedKeeps, LoopsStay, ThrashesStay
<1>5. ASSUME NEW c \in ToolCalls, Guard!HealthCheck(c) PROVE Quotas' /\ Loops' /\ Thrashes'
  <2>1. Guard!RecordAction(c) /\ UNCHANGED clock /\ callHistory' = <<>> /\ snapshotResultHistory' = <<>>
        /\ streak' = Guard!Nobody /\ shown' = Guard!Nobody
    BY <1>5 DEF Guard!HealthCheck
  <2>2. Quotas'
    BY <2>1, RecordKeeps
  <2>3. <<>> \in Seq(Guard!Keys) /\ <<>> \in Seq(Results) /\ Len(<<>>) = 0 /\ DOMAIN <<>> = {}
    BY EmptySeq
  <2>4. Guard!RepeatsInv(<<>>, Guard!Nobody, LoopThreshold) /\ Guard!RepeatsInv(<<>>, Guard!Nobody, ThrashThreshold)
    BY <1>0, <2>3 DEF Guard!RepeatsInv, Guard!Nobody
  <2>5. Loops' /\ Thrashes'
    BY <2>1, <2>3, <2>4 DEF Loops, Thrashes
  <2> QED BY <2>2, <2>5
<1>6. ASSUME NEW c \in ToolCalls, Guard!Call(c) PROVE Quotas' /\ Loops' /\ Thrashes'
  <2> DEFINE key == <<c.tool, c.key>>
  <2>1. /\ Guard!RecordAction(c) /\ UNCHANGED <<clock, snapshotResultHistory, shown>>
        /\ callHistory' = Guard!Pushed(callHistory, key, LoopThreshold)
        /\ streak' = Guard!Counted(streak, key, ~Guard!Repeats(callHistory, key, LoopThreshold))
    BY <1>6 DEF Guard!Call
  <2>2. Quotas' /\ Thrashes'
    BY <2>1, RecordKeeps, ThrashesStay
  <2>3. key \in Guard!Keys
    BY DEF Guard!Keys
  <2> HIDE DEF key
  <2>4. callHistory \in Seq(Guard!Keys) /\ Guard!RepeatsInv(callHistory, streak, LoopThreshold)
    BY DEF Loops
  <2>5. callHistory' \in Seq(Guard!Keys) /\ Guard!RepeatsInv(callHistory', streak', LoopThreshold)
    BY <1>0, <2>1, <2>3, <2>4, PushKeeps
  <2> QED BY <2>2, <2>5 DEF Loops
<1>7. ASSUME NEW x \in Results, Guard!SnapshotAnswers(x) PROVE Quotas' /\ Loops' /\ Thrashes'
  <2>1. /\ UNCHANGED <<clock, windows, admitted, callHistory, streak>>
        /\ snapshotResultHistory' = Guard!Pushed(snapshotResultHistory, x, ThrashThreshold)
        /\ shown' = Guard!Counted(shown, x, ~Guard!Repeats(snapshotResultHistory, x, ThrashThreshold))
    BY <1>7 DEF Guard!SnapshotAnswers
  <2>2. Quotas' /\ Loops'
    BY <2>1, QuotasStay, LoopsStay
  <2>3. snapshotResultHistory \in Seq(Results) /\ Guard!RepeatsInv(snapshotResultHistory, shown, ThrashThreshold)
    BY DEF Thrashes
  <2>4. snapshotResultHistory' \in Seq(Results) /\ Guard!RepeatsInv(snapshotResultHistory', shown', ThrashThreshold)
    BY <1>0, <2>1, <2>3, PushKeeps
  <2> QED BY <2>2, <2>4 DEF Thrashes
<1>8. CASE Guard!SnapshotFails
  BY <1>8, QuotasStay, LoopsStay, ThrashesStay DEF Guard!SnapshotFails
<1> QED BY <1>1, <1>2, <1>3, <1>4, <1>5, <1>6, <1>7, <1>8 DEF Guard!Next

LEMMA GuardsFollow == Guard!GatesAssumption /\ Guard!GatesInv => Guard!GuardsHold
<1> SUFFICES ASSUME Guard!GatesAssumption, Guard!GatesInv PROVE Guard!GuardsHold
  OBVIOUS
<1>1. streak.times < LoopThreshold /\ shown.times < ThrashThreshold
  BY DEF Guard!GatesInv, Guard!RepeatsInv
<1>2. ASSUME NEW d \in Guard!Domains, Len(admitted[d]) > GlobalLimit
      PROVE  Head(admitted[d]) + WindowMs <= Guard!Last(admitted[d])
  <2>1. admitted[d] \in Seq(Nat) /\ Guard!QuotaInv(windows[d], admitted[d]) /\ GlobalLimit \in Nat
    BY DEF Guard!GatesInv, Guard!GatesAssumption
  <2>2. Len(admitted[d]) \in Nat /\ Len(admitted[d]) <= GlobalLimit + 1
    BY <2>1, LenProperties DEF Guard!QuotaInv
  <2>3. Len(admitted[d]) = GlobalLimit + 1
    BY <1>2, <2>1, <2>2
  <2>4. Head(admitted[d]) = admitted[d][1] /\ Guard!Last(admitted[d]) = admitted[d][Len(admitted[d])]
    BY DEF Guard!Last
  <2> QED BY <2>1, <2>3, <2>4 DEF Guard!QuotaInv
<1> QED BY <1>1, <1>2 DEF Guard!GuardsHold, Guard!QuotaHeld

-----------------------------------------------------------------------------
\* Network tools.
\* The instance counts as this module does.
LEMMA CountsAlike == \A S : (Traffic!IsFiniteSet(S) <=> IsFiniteSet(S)) /\ Traffic!Cardinality(S) = Cardinality(S)
<1> SUFFICES ASSUME NEW S PROVE (Traffic!IsFiniteSet(S) <=> IsFiniteSet(S)) /\ Traffic!Cardinality(S) = Cardinality(S)
  OBVIOUS
<1>1. Traffic!IsFiniteSet(S) <=> IsFiniteSet(S)
  BY DEF Traffic!IsFiniteSet, IsFiniteSet
<1>2. Traffic!Cardinality(S) = Cardinality(S)
  BY DEF Traffic!Cardinality, Cardinality
<1> QED BY <1>1, <1>2

LEMMA OneEntry ==
    ASSUME NEW e
    PROVE [i \in 1..1 |-> e] = <<e>>
OBVIOUS

\* A layer goes on top of a chain.
LEMMA Topped ==
    ASSUME NEW chain \in Seq(Traffic!Layers), NEW layer \in Traffic!Layers
    PROVE  /\ <<layer>> \o chain \in Seq(Traffic!Layers)
           /\ \A l \in Traffic!Layers :
                 /\ Traffic!AtMostOnce(chain, l) /\ (layer = l => Traffic!Without(chain, l)) => Traffic!AtMostOnce(<<layer>> \o chain, l)
                 /\ Traffic!Without(chain, l) /\ layer # l => Traffic!Without(<<layer>> \o chain, l)
<1> DEFINE top == <<layer>> \o chain
<1>1. <<layer>> \in Seq(Traffic!Layers) /\ Len(<<layer>>) = 1 /\ <<layer>>[1] = layer
  OBVIOUS
<1>2. top \in Seq(Traffic!Layers) /\ Len(top) = 1 + Len(chain)
  BY <1>1, ConcatProperties
<1>3. Len(chain) \in Nat /\ DOMAIN chain = 1..Len(chain) /\ DOMAIN top = 1..(1 + Len(chain))
  BY <1>2, LenProperties
<1>4. top[1] = layer /\ \A i \in 2..(1 + Len(chain)) : i - 1 \in 1..Len(chain) /\ top[i] = chain[i - 1]
  <2> SUFFICES ASSUME NEW i \in 1..(1 + Len(chain)) PROVE top[i] = IF i <= 1 THEN <<layer>>[i] ELSE chain[i - 1]
    BY <1>1, <1>3
  <2> QED BY <1>1, ConcatProperties
<1> HIDE DEF top
<1>5. ASSUME NEW l \in Traffic!Layers, Traffic!AtMostOnce(chain, l), layer = l => Traffic!Without(chain, l) PROVE Traffic!AtMostOnce(top, l)
  <2> SUFFICES ASSUME NEW i \in 1..(1 + Len(chain)), NEW j \in 1..(1 + Len(chain)), top[i] = l, top[j] = l PROVE i = j
    BY <1>3 DEF Traffic!AtMostOnce
  <2>1. \A k \in 2..(1 + Len(chain)) : top[k] = l => chain[k - 1] = l /\ layer # l
    BY <1>4, <1>5, <1>3 DEF Traffic!Without
  <2>2. CASE i = 1
    BY <2>1, <2>2, <1>4, <1>3
  <2>3. CASE j = 1
    BY <2>1, <2>3, <1>4, <1>3
  <2>4. CASE i # 1 /\ j # 1
    <3>1. i \in 2..(1 + Len(chain)) /\ j \in 2..(1 + Len(chain))
      BY <2>4, <1>3
    <3>2. i - 1 = j - 1
      BY <2>1, <3>1, <1>4, <1>3, <1>5 DEF Traffic!AtMostOnce
    <3> QED BY <3>1, <3>2, <1>3
  <2> QED BY <2>2, <2>3, <2>4
<1>6. ASSUME NEW l \in Traffic!Layers, Traffic!Without(chain, l), layer # l PROVE Traffic!Without(top, l)
  <2> SUFFICES ASSUME NEW i \in 1..(1 + Len(chain)), top[i] = l PROVE FALSE
    BY <1>3 DEF Traffic!Without
  <2>1. i \in 2..(1 + Len(chain))
    BY <1>3, <1>4, <1>6
  <2> QED BY <2>1, <1>4, <1>3, <1>6 DEF Traffic!Without
<1> QED BY <1>2, <1>5, <1>6 DEF top

LEMMA EmptyChain ==
    /\ <<>> \in Seq(Traffic!Layers)
    /\ \A l : Traffic!AtMostOnce(<<>>, l) /\ Traffic!Without(<<>>, l)
BY DEF Traffic!AtMostOnce, Traffic!Without

LEMMA LoneLayer ==
    ASSUME NEW layer \in Traffic!Layers \ {"intercept", "idle"}
    PROVE Traffic!SoundChain(<<layer>>)
BY DEF Traffic!SoundChain, Traffic!AtMostOnce, Traffic!Without, Traffic!Layers

\* How often a layer is passed on the way to a place of the chain.
LEMMA Passed ==
    ASSUME NEW chain \in Seq(Traffic!Layers), NEW n \in 1..(Len(chain) + 1), NEW l \in Traffic!Layers, Traffic!AtMostOnce(chain, l)
    PROVE  LET p == Cardinality({i \in 1..(n - 1) : chain[i] = l})
               rest == SubSeq(chain, n + 1, Len(chain))
           IN  /\ p \in {0, 1} /\ (p = 1 => Traffic!Without(rest, l))
               /\ Traffic!Without(chain, l) => p = 0 /\ Traffic!Without(rest, l)
               /\ Traffic!AtMostOnce(rest, l)
<1> DEFINE P == {i \in 1..(n - 1) : chain[i] = l}
           rest == SubSeq(chain, n + 1, Len(chain))
           L == Len(chain)
<1>1. L \in Nat /\ DOMAIN chain = 1..L
  BY LenProperties
<1>2. Len(rest) \in Nat /\ DOMAIN rest = 1..Len(rest)
      /\ \A i \in 1..Len(rest) : n + i \in 1..L /\ rest[i] = chain[n + i]
  <2>1. \A i \in (n + 1)..L : chain[i] \in Traffic!Layers
    BY <1>1, ElementOfSeq
  <2>2. /\ rest \in Seq(Traffic!Layers) /\ Len(rest) = IF n + 1 <= L THEN L - n ELSE 0
        /\ \A i \in 1..(L - n) : rest[i] = chain[n + i]
    <3>1. n + 1 \in Int /\ L \in Int /\ \A i \in 1..(L - n) : (n + 1) + i - 1 = n + i
      BY <1>1
    <3>2. /\ rest \in Seq(Traffic!Layers) /\ Len(rest) = IF n + 1 <= L THEN L - (n + 1) + 1 ELSE 0
          /\ \A i \in 1..(L - (n + 1) + 1) : rest[i] = chain[(n + 1) + i - 1]
      BY <2>1, <3>1, SubSeqProperties
    <3> HIDE DEF rest, L
    <3> QED BY <3>1, <3>2
  <2>3. DOMAIN rest = 1..Len(rest)
    BY <2>2, LenProperties
  <2> HIDE DEF rest, L
  <2> QED BY <2>2, <2>3, <1>1
<1> HIDE DEF rest
<1>3. \A i, j \in P : i = j
  BY <1>1 DEF Traffic!AtMostOnce
<1>4. P = {} \/ \E i \in 1..(n - 1) : P = {i} /\ chain[i] = l
  <2>1. P = {} \/ \E i \in P : P = {i}
    BY <1>3, Zenon
  <2> QED BY <2>1
<1>5. Traffic!AtMostOnce(rest, l)
  <2> SUFFICES ASSUME NEW i \in 1..Len(rest), NEW j \in 1..Len(rest), rest[i] = l, rest[j] = l PROVE i = j
    BY <1>2 DEF Traffic!AtMostOnce
  <2>1. n + i = n + j
    BY <1>1, <1>2 DEF Traffic!AtMostOnce
  <2> QED BY <2>1
<1>6. CASE P = {}
  <2>1. Cardinality(P) = 0
    BY <1>6, FS_EmptySet
  <2>2. Traffic!Without(chain, l) => Traffic!Without(rest, l)
    BY <1>1, <1>2 DEF Traffic!Without
  <2> QED BY <2>1, <2>2, <1>5 DEF rest
<1>7. CASE \E i \in 1..(n - 1) : P = {i} /\ chain[i] = l
  <2> PICK i \in 1..(n - 1) : P = {i} /\ chain[i] = l
    BY <1>7
  <2>1. Cardinality(P) = 1
    BY FS_Singleton
  <2>2. i \in 1..L /\ ~Traffic!Without(chain, l)
    BY <1>1 DEF Traffic!Without
  <2>3. Traffic!Without(rest, l)
    <3> SUFFICES ASSUME NEW j \in 1..Len(rest), rest[j] = l PROVE FALSE
      BY <1>2 DEF Traffic!Without
    <3>1. n + j = i
      BY <1>1, <1>2, <2>2 DEF Traffic!AtMostOnce
    <3> QED BY <3>1
  <2> QED BY <2>1, <2>2, <2>3, <1>5 DEF rest
<1> QED BY <1>4, <1>6, <1>7

\* The request on its way down, where it stops.
LEMMA Stopped ==
    ASSUME NEW chain \in Seq(Traffic!Layers), NEW q
    PROVE  LET stops == {i \in DOMAIN chain : Traffic!Stops(q, chain[i])}
               n == IF stops = {} THEN Len(chain) + 1 ELSE CHOOSE i \in stops : \A j \in stops : i <= j
           IN  n \in 1..(Len(chain) + 1)
<1> DEFINE stops == {i \in DOMAIN chain : Traffic!Stops(q, chain[i])}
<1>1. Len(chain) \in Nat /\ DOMAIN chain = 1..Len(chain)
  BY LenProperties
<1>2. stops \subseteq 1..Len(chain)
  BY <1>1
<1> HIDE DEF stops
<1>3. CASE stops = {}
  BY <1>1, <1>3 DEF stops
<1>4. CASE stops # {}
  <2>1. stops \in SUBSET Nat
    BY <1>2
  <2>2. \E m \in stops : \A j \in stops : m <= j
    BY <2>1, <1>4, LeastMember
  <2>3. (CHOOSE i \in stops : \A j \in stops : i <= j) \in stops
    BY <2>2
  <2> QED BY <2>3, <1>1, <1>2, <1>4 DEF stops
<1> QED BY <1>3, <1>4

\* What a request brings that goes down a chain.
LEMMA Descended ==
    ASSUME Traffic!NetworkAssumption, Traffic!NetInv, NEW r \in PageRequests, NEW q, NEW chain, Traffic!SoundRequest(q, chain),
           req[r].at \in {"none", "opened", "delayed"}, q.counted = req[r].counted,
           Traffic!Descend(r, q, chain)
    PROVE  Traffic!NetInv'
<1> DEFINE stops == {i \in DOMAIN chain : Traffic!Stops(q, chain[i])}
           n == IF stops = {} THEN Len(chain) + 1 ELSE CHOOSE i \in stops : \A j \in stops : i <= j
           Passes(layer) == Traffic!Cardinality({i \in 1..(n - 1) : chain[i] = layer})
           at == IF stops = {} THEN "network"
                 ELSE CASE chain[n] = "throttle" -> "delayed"
                        [] chain[n] = "offline" -> "refused"
                        [] OTHER -> "mocked"
           rest == SubSeq(chain, n + 1, Len(chain))
           q2 == [q EXCEPT !.at = at, !.rest = rest,
                !.counted = @ + Passes("idle"),
                !.noted = @ + (IF Traffic!Recorded(q) THEN Passes("intercept") ELSE 0)]
<1>1. /\ req' = [req EXCEPT ![r] = q2]
      /\ IF Passes("idle") = 0 THEN UNCHANGED <<inflight, quiet>>
         ELSE inflight' = inflight + Passes("idle") /\ quiet' = FALSE
      /\ UNCHANGED <<fn, saved, interceptor, mocks, entries, harFile, har, waiting, idleWith>>
  BY DEF Traffic!Descend, Traffic!toolVars, Traffic!waitVars
<1>2. chain \in Seq(Traffic!Layers) /\ Traffic!AtMostOnce(chain, "idle") /\ Traffic!AtMostOnce(chain, "intercept")
  BY DEF Traffic!SoundRequest, Traffic!SoundChain
<1>3. n \in 1..(Len(chain) + 1)
  BY <1>2, Stopped
<1>4. PICK counts :
      /\ counts = Passes("idle")
      /\ counts \in {0, 1} /\ (counts = 1 => Traffic!Without(rest, "idle"))
      /\ Traffic!Without(chain, "idle") => counts = 0 /\ Traffic!Without(rest, "idle")
      /\ Traffic!AtMostOnce(rest, "idle")
  BY <1>2, <1>3, Passed, CountsAlike, "idle" \in Traffic!Layers DEF Traffic!Layers
<1>5. PICK notes :
      /\ notes = Passes("intercept")
      /\ notes \in {0, 1} /\ (notes = 1 => Traffic!Without(rest, "intercept"))
      /\ Traffic!Without(chain, "intercept") => notes = 0 /\ Traffic!Without(rest, "intercept")
      /\ Traffic!AtMostOnce(rest, "intercept")
  BY <1>2, <1>3, Passed, CountsAlike, "intercept" \in Traffic!Layers DEF Traffic!Layers
<1>6. rest \in Seq(Traffic!Layers)
  <2>0. Len(chain) \in Nat /\ n \in 1..(Len(chain) + 1)
    BY <1>2, <1>3, LenProperties
  <2>1. Len(chain) \in Nat /\ \A i \in (n + 1)..Len(chain) : chain[i] \in Traffic!Layers
    <3> HIDE DEF n
    <3> QED BY <1>2, <2>0, ElementOfSeq
  <2>2. n + 1 \in Int /\ Len(chain) \in Int
    BY <1>3, <2>1
  <2> HIDE DEF n
  <2> QED BY <2>1, <2>2, SubSeqProperties
<1>7. at \in {"network", "delayed", "refused", "mocked"}
  OBVIOUS
<1> DEFINE bag == [q EXCEPT !.at = at, !.rest = rest, !.counted = @ + counts,
                             !.noted = @ + (IF Traffic!Recorded(q) THEN notes ELSE 0)]
<1>71. /\ req' = [req EXCEPT ![r] = bag]
       /\ IF counts = 0 THEN UNCHANGED <<inflight, quiet>>
          ELSE inflight' = inflight + counts /\ quiet' = FALSE
  BY <1>1, <1>4, <1>5
<1> HIDE DEF rest, at, Passes, q2
<1>8. /\ q \in Traffic!TheRequest /\ bag \in Traffic!TheRequest /\ bag.at = at /\ bag.rest = rest
      /\ bag.counted = q.counted + counts /\ bag.noted \in {0, 1}
      /\ bag.counted = 1 => Traffic!Without(rest, "idle") /\ inflight # None
      /\ bag.noted = 1 => Traffic!Without(rest, "intercept") /\ interceptor # None
  <2>1. q \in Traffic!TheRequest /\ q.counted \in {0, 1} /\ q.noted \in {0, 1}
    BY DEF Traffic!SoundRequest, Traffic!TheRequest
  <2>2. q.counted = 1 => Traffic!Without(chain, "idle") /\ inflight # None
    BY DEF Traffic!SoundRequest
  <2>3. q.noted = 1 => Traffic!Without(chain, "intercept") /\ interceptor # None
    BY DEF Traffic!SoundRequest
  <2>4. (inflight = None => Traffic!Without(chain, "idle")) /\ (interceptor = None => Traffic!Without(chain, "intercept"))
    BY DEF Traffic!SoundRequest, Traffic!SoundChain
  <2>5. q.counted + counts \in {0, 1}
    BY <2>1, <2>2, <1>4
  <2> DEFINE N == IF Traffic!Recorded(q) THEN notes ELSE 0
  <2>6. N \in {0, 1} /\ q.noted + N \in {0, 1}
    BY <2>1, <2>3, <1>5
  <2>7. bag = [q EXCEPT !.at = at, !.rest = rest, !.counted = @ + counts, !.noted = @ + N]
    OBVIOUS
  <2> HIDE DEF bag
  <2>8. bag \in Traffic!TheRequest /\ bag.at = at /\ bag.rest = rest /\ bag.counted = q.counted + counts /\ bag.noted = q.noted + N
    <3> HIDE DEF N
    <3> QED BY <2>1, <2>5, <2>6, <2>7, <1>6, <1>7 DEF Traffic!TheRequest
  <2>9. bag.counted = 1 => Traffic!Without(rest, "idle") /\ inflight # None
    BY <2>1, <2>2, <2>4, <2>8, <1>4
  <2>10. bag.noted = 1 => Traffic!Without(rest, "intercept") /\ interceptor # None
    BY <2>1, <2>3, <2>4, <2>6, <2>8, <1>5
  <2> QED BY <2>1, <2>6, <2>8, <2>9, <2>10
<1> HIDE DEF bag, n
<1>9. /\ req' \in [PageRequests -> Traffic!TheRequest] /\ req'[r] = bag /\ \A x \in PageRequests \ {r} : req'[x] = req[x]
  BY <1>1, <1>71, <1>8 DEF Traffic!NetInv
<1>10. (inflight # None) <=> (inflight' # None)
  <2>1. CASE counts = 0
    BY <2>1, <1>1, <1>71
  <2>2. CASE counts # 0
    <3>1. inflight # None
      BY <2>2, <1>4 DEF Traffic!SoundRequest, Traffic!SoundChain
    <3>2. inflight \in Nat
      <4>1. IsFiniteSet(Traffic!Counted)
        BY FS_Subset, CountsAlike DEF Traffic!Counted, Traffic!InFlight, Traffic!NetworkAssumption
      <4> QED BY <4>1, <3>1, FS_CardinalityType, CountsAlike DEF Traffic!NetInv
    <3>3. inflight' = inflight + 1
      BY <2>2, <1>1, <1>71, <1>4
    <3> QED BY <3>1, <3>2, <3>3 DEF Traffic!NetworkAssumption
  <2> QED BY <2>1, <2>2
<1>11. \A c : Traffic!SoundChain(c) => Traffic!SoundChain(c)'
  BY <1>1, <1>71, <1>10 DEF Traffic!SoundChain, Traffic!AtMostOnce, Traffic!Without
<1>12. \A x \in PageRequests :
         /\ Traffic!SoundRequest(req[x], req[x].rest)'
         /\ req'[x].at \in {"none", "opened"} => req'[x].counted = 0 /\ req'[x].noted = 0
  <2> SUFFICES ASSUME NEW x \in PageRequests
               PROVE /\ Traffic!SoundRequest(req[x], req[x].rest)'
                     /\ req'[x].at \in {"none", "opened"} => req'[x].counted = 0 /\ req'[x].noted = 0
    OBVIOUS
  <2>1. CASE x = r
    <3> PICK c : c = rest
      OBVIOUS
    <3>1. Traffic!SoundChain(c)
      BY <1>4, <1>5, <1>6 DEF Traffic!SoundChain, Traffic!SoundRequest
    <3>2. Traffic!SoundChain(c)'
      BY <3>1, <1>11
    <3> PICK z : z = bag
      OBVIOUS
    <3>3. /\ z \in Traffic!TheRequest /\ z.at \notin {"none", "opened"} /\ z.rest = c
          /\ z.counted = 1 => Traffic!Without(c, "idle") /\ inflight' # None
          /\ z.noted = 1 => Traffic!Without(c, "intercept") /\ interceptor' # None
      BY <1>1, <1>71, <1>7, <1>8, <1>10
    <3>4. req'[r] = z
      BY <1>9
    <3> QED BY <2>1, <3>2, <3>3, <3>4 DEF Traffic!SoundRequest, Traffic!Without, Traffic!TheRequest
  <2>2. CASE x # r
    <3>1. req'[x] = req[x]
      BY <2>2, <1>9
    <3>2. Traffic!SoundRequest(req[x], req[x].rest) /\ (req[x].at \in {"none", "opened"} => req[x].counted = 0 /\ req[x].noted = 0)
      BY DEF Traffic!NetInv
    <3> QED BY <3>1, <3>2, <1>1, <1>71, <1>10, <1>11 DEF Traffic!SoundRequest, Traffic!Without
  <2> QED BY <2>1, <2>2
<1>13. inflight' # None => inflight' = Cardinality(Traffic!Counted')
  <2> SUFFICES ASSUME inflight' # None PROVE inflight' = Cardinality(Traffic!Counted')
    OBVIOUS
  <2>1. IsFiniteSet(Traffic!Counted) /\ inflight = Cardinality(Traffic!Counted)
    BY <1>10, FS_Subset, CountsAlike DEF Traffic!Counted, Traffic!InFlight, Traffic!NetworkAssumption, Traffic!NetInv
  <2>2. \A x \in PageRequests \ {r} : x \in Traffic!Counted' <=> x \in Traffic!Counted
    BY <1>9 DEF Traffic!Counted, Traffic!InFlight
  <2>3. r \in Traffic!Counted <=> q.counted = 1
    <3>1. req[r].counted \in {0, 1} /\ (req[r].at # "delayed" => req[r].counted = 0)
      BY DEF Traffic!NetInv, Traffic!TheRequest
    <3> QED BY <3>1 DEF Traffic!Counted, Traffic!InFlight
  <2>4. r \in Traffic!Counted' <=> bag.counted = 1
    <3>1. bag.counted \in {0, 1}
      BY <1>8 DEF Traffic!TheRequest
    <3> QED BY <3>1, <1>7, <1>8, <1>9 DEF Traffic!Counted, Traffic!InFlight
  <2>5. Traffic!Counted \subseteq PageRequests /\ Traffic!Counted' \subseteq PageRequests
    BY DEF Traffic!Counted, Traffic!InFlight
  <2>6. q.counted \in {0, 1} /\ bag.counted \in {0, 1}
    BY <1>8 DEF Traffic!TheRequest
  <2>7. CASE counts = 0
    <3>1. Traffic!Counted' = Traffic!Counted
      BY <2>2, <2>3, <2>4, <2>5, <2>6, <2>7, <1>8
    <3> QED BY <3>1, <2>1, <2>7, <1>1, <1>71
  <2>8. CASE counts # 0
    <3>0. counts = 1
      BY <2>8, <1>4
    <3>1. q.counted = 0 /\ bag.counted = 1
      BY <3>0, <2>6, <1>8
    <3>2. r \notin Traffic!Counted /\ Traffic!Counted' = Traffic!Counted \cup {r}
      BY <3>1, <2>2, <2>3, <2>4, <2>5
    <3>3. Cardinality(Traffic!Counted') = Cardinality(Traffic!Counted) + 1
      BY <3>2, <2>1, FS_AddElement
    <3>4. inflight' = inflight + 1
      BY <3>0, <1>1, <1>71
    <3> QED BY <3>3, <3>4, <2>1
  <2> QED BY <2>7, <2>8
<1>14. \A i \in 1..Len(entries') : req'[entries'[i].id].at = "done"
  <2>0. entries \in Seq(Traffic!Entry)
    BY DEF Traffic!NetInv
  <2>1. \A i \in 1..Len(entries) : entries[i].id \in PageRequests
    <3> SUFFICES ASSUME NEW i \in 1..Len(entries) PROVE entries[i].id \in PageRequests
      OBVIOUS
    <3>1. entries[i] \in Traffic!Entry
      BY <2>0, ElementOfSeq
    <3> QED BY <3>1 DEF Traffic!Entry
  <2> QED BY <2>1, <1>1, <1>71, <1>9 DEF Traffic!NetInv
<1>15. Traffic!SoundFn(fn)' /\ \A t \in {"throttle", "offline"} : saved'[t] # None => saved'[t] \in [Traffic!Slots -> Seq(Traffic!Layers)] /\ Traffic!SoundFn(saved[t])'
  BY <1>1, <1>71, <1>11 DEF Traffic!NetInv, Traffic!SoundFn, Traffic!Saves
<1>16. DOMAIN req' = PageRequests
  BY <1>9
<1>17. (inflight # None => inflight = Traffic!Cardinality(Traffic!Counted))'
  BY <1>13, CountsAlike
<1> QED BY <1>1, <1>71, <1>9, <1>12, <1>14, <1>15, <1>16, <1>17 DEF Traffic!NetInv, Traffic!Saves

\* A tool changes what is installed, and takes no interceptor away.
LEMMA ToolStep ==
    ASSUME Traffic!NetInv, interceptor # None => interceptor' # None,
           UNCHANGED <<req, entries, inflight, idleWith>>,
           NEW f, f \in [Traffic!Slots -> Seq(Traffic!Layers)], Traffic!SoundFn(f)', fn' = f,
           NEW s, Traffic!Saves(s), saved' = s
    PROVE  Traffic!NetInv'
<1>1. \A c : Traffic!SoundChain(c) => Traffic!SoundChain(c)'
  BY DEF Traffic!SoundChain, Traffic!AtMostOnce, Traffic!Without
<1>2. Traffic!Saves(s)'
  BY <1>1 DEF Traffic!Saves, Traffic!SoundFn
<1>3. Traffic!Saves(saved)'
  BY <1>2 DEF Traffic!Saves, Traffic!SoundFn, Traffic!SoundChain, Traffic!AtMostOnce, Traffic!Without
<1>4. \A q, c : Traffic!SoundRequest(q, c) => Traffic!SoundRequest(q, c)'
  BY <1>1 DEF Traffic!SoundRequest, Traffic!Without
<1>5. \A x \in PageRequests : Traffic!SoundRequest(req[x], req[x].rest)'
  <2> SUFFICES ASSUME NEW x \in PageRequests PROVE Traffic!SoundRequest(req[x], req[x].rest)'
    OBVIOUS
  <2> PICK q, c : q = req[x] /\ c = req[x].rest
    OBVIOUS
  <2>1. Traffic!SoundRequest(q, c)'
    BY <1>4 DEF Traffic!NetInv
  <2>2. req'[x] = q /\ req'[x].rest = c
    OBVIOUS
  <2> QED BY <2>1, <2>2 DEF Traffic!SoundRequest, Traffic!Without, Traffic!SoundChain, Traffic!AtMostOnce
<1>6. Traffic!Counted' = Traffic!Counted
  BY DEF Traffic!Counted, Traffic!InFlight
<1>7. Traffic!SoundFn(fn)'
  BY DEF Traffic!SoundFn, Traffic!SoundChain, Traffic!AtMostOnce, Traffic!Without
<1> QED BY <1>3, <1>5, <1>6, <1>7 DEF Traffic!NetInv, Traffic!Saves

LEMMA WrapSound ==
    ASSUME Traffic!NetInv, NEW layer \in Traffic!Layers, NEW slots,
           layer = "intercept" => interceptor = None, layer = "idle" => inflight = None
    PROVE  /\ Traffic!Wrap(layer, slots) \in [Traffic!Slots -> Seq(Traffic!Layers)]
           /\ \A s \in Traffic!Slots :
                /\ Traffic!AtMostOnce(Traffic!Wrap(layer, slots)[s], "intercept") /\ Traffic!AtMostOnce(Traffic!Wrap(layer, slots)[s], "idle")
                /\ interceptor = None /\ layer # "intercept" => Traffic!Without(Traffic!Wrap(layer, slots)[s], "intercept")
                /\ inflight = None /\ layer # "idle" => Traffic!Without(Traffic!Wrap(layer, slots)[s], "idle")
<1>1. \A s \in Traffic!Slots : fn[s] \in Seq(Traffic!Layers) /\ Traffic!SoundChain(fn[s])
  BY DEF Traffic!NetInv, Traffic!SoundFn
<1>2. "intercept" \in Traffic!Layers /\ "idle" \in Traffic!Layers
  BY DEF Traffic!Layers
<1>3. \A s \in Traffic!Slots :
        /\ Traffic!Wrap(layer, slots)[s] = IF s \in slots THEN <<layer>> \o fn[s] ELSE fn[s]
        /\ Traffic!Wrap(layer, slots) \in [Traffic!Slots -> {Traffic!Wrap(layer, slots)[t] : t \in Traffic!Slots}]
  BY DEF Traffic!Wrap
<1>4. \A s \in Traffic!Slots : <<layer>> \o fn[s] \in Seq(Traffic!Layers)
  BY <1>1, Topped
<1>5. Traffic!Wrap(layer, slots) \in [Traffic!Slots -> Seq(Traffic!Layers)]
  BY <1>1, <1>4 DEF Traffic!Wrap
<1>6. ASSUME NEW s \in Traffic!Slots
      PROVE /\ Traffic!AtMostOnce(Traffic!Wrap(layer, slots)[s], "intercept") /\ Traffic!AtMostOnce(Traffic!Wrap(layer, slots)[s], "idle")
            /\ interceptor = None /\ layer # "intercept" => Traffic!Without(Traffic!Wrap(layer, slots)[s], "intercept")
            /\ inflight = None /\ layer # "idle" => Traffic!Without(Traffic!Wrap(layer, slots)[s], "idle")
  <2> PICK c : c = fn[s]
    OBVIOUS
  <2>1. c \in Seq(Traffic!Layers) /\ Traffic!AtMostOnce(c, "intercept") /\ Traffic!AtMostOnce(c, "idle")
        /\ (interceptor = None => Traffic!Without(c, "intercept")) /\ (inflight = None => Traffic!Without(c, "idle"))
    BY <1>1 DEF Traffic!SoundChain
  <2>2. \A l \in Traffic!Layers :
            /\ Traffic!AtMostOnce(c, l) /\ (layer = l => Traffic!Without(c, l)) => Traffic!AtMostOnce(<<layer>> \o c, l)
            /\ Traffic!Without(c, l) /\ layer # l => Traffic!Without(<<layer>> \o c, l)
    <3>1. c \in Seq(Traffic!Layers)
      BY <2>1
    <3> QED BY <3>1, Topped
  <2>3. CASE s \in slots
    <3>1. Traffic!Wrap(layer, slots)[s] = <<layer>> \o c
      BY <2>3, <1>3
    <3> QED BY <3>1, <2>1, <2>2, <1>2
  <2>4. CASE s \notin slots
    <3>1. Traffic!Wrap(layer, slots)[s] = c
      BY <2>4, <1>3
    <3> QED BY <3>1, <2>1
  <2> QED BY <2>3, <2>4
<1> QED BY <1>5, <1>6

LEMMA Unsaved == Traffic!NetInv => Traffic!Saves(saved) /\ Traffic!SoundFn(fn) /\ fn \in [Traffic!Slots -> Seq(Traffic!Layers)]
BY DEF Traffic!NetInv, Traffic!Saves

\* Nothing happens to what the invariant is about.
LEMMA OtherStep ==
    ASSUME Traffic!NetInv, UNCHANGED <<fn, saved, interceptor, req, entries, inflight, idleWith>>
    PROVE  Traffic!NetInv'
<1> PICK f, s : f = fn /\ s = saved
  OBVIOUS
<1>1. Traffic!SoundFn(f)'
  BY Unsaved DEF Traffic!SoundFn, Traffic!SoundChain, Traffic!AtMostOnce, Traffic!Without
<1>2. f \in [Traffic!Slots -> Seq(Traffic!Layers)] /\ Traffic!Saves(s) /\ fn' = f /\ saved' = s /\ (interceptor # None => interceptor' # None)
  BY Unsaved DEF Traffic!Saves, Traffic!SoundFn, Traffic!SoundChain, Traffic!AtMostOnce, Traffic!Without
<1> QED BY <1>1, <1>2, ToolStep

LEMMA InterceptStep ==
    ASSUME Traffic!NetworkAssumption, Traffic!NetInv, NEW p \in Patterns, Traffic!InterceptRequests(p)
    PROVE  Traffic!NetInv'
<1>0. UNCHANGED <<saved, entries, inflight, req, idleWith>>
  BY DEF Traffic!InterceptRequests, Traffic!waitVars
<1>1. CASE Traffic!Installed
  BY <1>0, <1>1, OtherStep DEF Traffic!InterceptRequests
<1>2. CASE ~Traffic!Installed
  <2>1. interceptor = None /\ interceptor' # None /\ fn' = Traffic!Wrap("intercept", Traffic!Slots)
    BY <1>2 DEF Traffic!InterceptRequests, Traffic!Installed, Traffic!NetworkAssumption
  <2> PICK f, s : f = Traffic!Wrap("intercept", Traffic!Slots) /\ s = saved
    OBVIOUS
  <2>2. f \in [Traffic!Slots -> Seq(Traffic!Layers)] /\ \A x \in Traffic!Slots :
          Traffic!AtMostOnce(f[x], "intercept") /\ Traffic!AtMostOnce(f[x], "idle") /\ (inflight = None => Traffic!Without(f[x], "idle"))
    <3>1. "intercept" \in Traffic!Layers
      BY DEF Traffic!Layers
    <3> QED BY <3>1, <2>1, WrapSound
  <2>3. Traffic!SoundFn(f)'
    BY <2>1, <2>2, <1>0 DEF Traffic!SoundFn, Traffic!SoundChain, Traffic!AtMostOnce, Traffic!Without
  <2> QED BY <1>0, <2>1, <2>2, <2>3, Unsaved, ToolStep
<1> QED BY <1>1, <1>2

\* What throttle and offline go back to.
LEMMA OriginalsSound ==
    ASSUME Traffic!NetInv, NEW tool \in {"throttle", "offline"}
    PROVE  /\ Traffic!Originals(tool) \in [Traffic!Slots -> Seq(Traffic!Layers)] /\ Traffic!SoundFn(Traffic!Originals(tool))
           /\ Traffic!Saves([saved EXCEPT ![tool] = Traffic!Originals(tool)])
<1>1. Traffic!Originals(tool) \in [Traffic!Slots -> Seq(Traffic!Layers)] /\ Traffic!SoundFn(Traffic!Originals(tool))
  BY DEF Traffic!NetInv, Traffic!Originals, Traffic!Saves
<1> QED BY <1>1, Unsaved DEF Traffic!Saves

LEMMA ToppedSound ==
    ASSUME NEW chain, Traffic!SoundChain(chain), NEW layer \in Traffic!Layers \ {"intercept", "idle"}
    PROVE  Traffic!SoundChain(<<layer>> \o chain)
<1>1. "intercept" \in Traffic!Layers /\ "idle" \in Traffic!Layers /\ layer \in Traffic!Layers /\ chain \in Seq(Traffic!Layers)
  BY DEF Traffic!Layers, Traffic!SoundChain
<1>2. /\ <<layer>> \o chain \in Seq(Traffic!Layers)
      /\ \A l \in Traffic!Layers :
          /\ Traffic!AtMostOnce(chain, l) /\ (layer = l => Traffic!Without(chain, l)) => Traffic!AtMostOnce(<<layer>> \o chain, l)
          /\ Traffic!Without(chain, l) /\ layer # l => Traffic!Without(<<layer>> \o chain, l)
  BY <1>1, Topped
<1> QED BY <1>1, <1>2 DEF Traffic!SoundChain

LEMMA SoundFnKept ==
    ASSUME NEW f, Traffic!SoundFn(f), UNCHANGED <<interceptor, inflight>>
    PROVE  Traffic!SoundFn(f)'
BY DEF Traffic!SoundFn, Traffic!SoundChain, Traffic!AtMostOnce, Traffic!Without

LEMMA ThrottleStep ==
    ASSUME Traffic!NetInv, NEW on \in BOOLEAN, Traffic!NetworkThrottle(on)
    PROVE  Traffic!NetInv'
<1>0. UNCHANGED <<interceptor, entries, inflight, req, idleWith>>
  BY DEF Traffic!NetworkThrottle, Traffic!waitVars
<1> PICK orig, s : orig = Traffic!Originals("throttle") /\ s = [saved EXCEPT !["throttle"] = Traffic!Originals("throttle")]
  OBVIOUS
<1> DEFINE g == IF on THEN [fn EXCEPT !["fetch"] = <<"throttle">> \o orig["fetch"],
                                      !["send"] = <<"throttle">> \o orig["send"]]
                ELSE orig
<1>1. fn' = g /\ saved' = s
  BY DEF Traffic!NetworkThrottle
<1>2. orig \in [Traffic!Slots -> Seq(Traffic!Layers)] /\ Traffic!SoundFn(orig) /\ Traffic!Saves(s) /\ fn \in [Traffic!Slots -> Seq(Traffic!Layers)] /\ Traffic!SoundFn(fn)
  BY OriginalsSound, Unsaved
<1>3. \A x \in Traffic!Slots : Traffic!SoundChain(<<"throttle">> \o orig[x])
  <2>1. "throttle" \in Traffic!Layers \ {"intercept", "idle"}
    BY DEF Traffic!Layers
  <2> QED BY <2>1, <1>2, ToppedSound DEF Traffic!SoundFn
<1>4. "fetch" \in Traffic!Slots /\ "send" \in Traffic!Slots
  BY DEF Traffic!Slots
<1>5. <<"throttle">> \o orig["fetch"] \in Seq(Traffic!Layers) /\ <<"throttle">> \o orig["send"] \in Seq(Traffic!Layers)
  BY <1>3, <1>4 DEF Traffic!SoundChain
<1>6. Traffic!SoundFn(g) /\ g \in [Traffic!Slots -> Seq(Traffic!Layers)]
  <2> PICK a, b : a = <<"throttle">> \o orig["fetch"] /\ b = <<"throttle">> \o orig["send"]
    OBVIOUS
  <2>1. Traffic!SoundChain(a) /\ Traffic!SoundChain(b) /\ a \in Seq(Traffic!Layers) /\ b \in Seq(Traffic!Layers)
    BY <1>3, <1>4, <1>5
  <2>2. [fn EXCEPT !["fetch"] = a, !["send"] = b] \in [Traffic!Slots -> Seq(Traffic!Layers)]
    BY <2>1, <1>2
  <2>3. Traffic!SoundFn([fn EXCEPT !["fetch"] = a, !["send"] = b])
    BY <2>1, <1>2 DEF Traffic!SoundFn
  <2> QED BY <2>2, <2>3, <1>2
<1> PICK f : f = g
  OBVIOUS
<1> HIDE DEF g
<1>7. Traffic!SoundFn(f)'
  BY <1>0, <1>6, SoundFnKept
<1> QED BY <1>0, <1>1, <1>2, <1>6, <1>7, ToolStep

LEMMA OfflineStep ==
    ASSUME Traffic!NetInv, NEW on \in BOOLEAN, Traffic!NetworkOffline(on)
    PROVE  Traffic!NetInv'
<1>0. UNCHANGED <<interceptor, entries, inflight, req, idleWith>>
  BY DEF Traffic!NetworkOffline, Traffic!waitVars
<1> PICK orig, s : orig = Traffic!Originals("offline") /\ s = [saved EXCEPT !["offline"] = Traffic!Originals("offline")]
  OBVIOUS
<1> DEFINE g == IF on THEN [fn EXCEPT !["fetch"] = <<"offline">>,
                                      !["open"] = <<"offline">> \o orig["open"]]
                ELSE [fn EXCEPT !["fetch"] = orig["fetch"], !["open"] = orig["open"]]
<1>1. fn' = g /\ saved' = s
  BY DEF Traffic!NetworkOffline
<1>2. orig \in [Traffic!Slots -> Seq(Traffic!Layers)] /\ Traffic!SoundFn(orig) /\ Traffic!Saves(s) /\ fn \in [Traffic!Slots -> Seq(Traffic!Layers)] /\ Traffic!SoundFn(fn)
  BY OriginalsSound, Unsaved
<1>3. "offline" \in Traffic!Layers \ {"intercept", "idle"} /\ "fetch" \in Traffic!Slots /\ "open" \in Traffic!Slots
  BY DEF Traffic!Layers, Traffic!Slots
<1>4. Traffic!SoundChain(<<"offline">>) /\ Traffic!SoundChain(<<"offline">> \o orig["open"]) /\ Traffic!SoundChain(orig["open"]) /\ Traffic!SoundChain(orig["fetch"])
  BY <1>2, <1>3, LoneLayer, ToppedSound DEF Traffic!SoundFn
<1>6. Traffic!SoundFn(g) /\ g \in [Traffic!Slots -> Seq(Traffic!Layers)]
  <2>1. ASSUME NEW a, NEW b, Traffic!SoundChain(a), Traffic!SoundChain(b)
        PROVE  Traffic!SoundFn([fn EXCEPT !["fetch"] = a, !["open"] = b])
               /\ [fn EXCEPT !["fetch"] = a, !["open"] = b] \in [Traffic!Slots -> Seq(Traffic!Layers)]
    <3>1. a \in Seq(Traffic!Layers) /\ b \in Seq(Traffic!Layers)
      BY <2>1 DEF Traffic!SoundChain
    <3> QED BY <2>1, <3>1, <1>2 DEF Traffic!SoundFn
  <2> QED BY <2>1, <1>4
<1> PICK f : f = g
  OBVIOUS
<1> HIDE DEF g
<1>7. Traffic!SoundFn(f)'
  BY <1>0, <1>6, SoundFnKept
<1> QED BY <1>0, <1>1, <1>2, <1>6, <1>7, ToolStep

\* A mock is one more layer, or none.
LEMMA MockStep ==
    ASSUME Traffic!NetInv, UNCHANGED <<saved, interceptor, entries, inflight, req, idleWith>>,
           fn' \in {fn, Traffic!Wrap("mock", Traffic!Slots)}
    PROVE  Traffic!NetInv'
<1>1. CASE fn' = fn
  BY <1>1, OtherStep
<1>2. CASE fn' = Traffic!Wrap("mock", Traffic!Slots)
  <2> PICK f, s : f = Traffic!Wrap("mock", Traffic!Slots) /\ s = saved
    OBVIOUS
  <2>1. "mock" \in Traffic!Layers /\ "mock" # "intercept" /\ "mock" # "idle"
    BY DEF Traffic!Layers
  <2>2. f \in [Traffic!Slots -> Seq(Traffic!Layers)] /\ \A x \in Traffic!Slots :
          /\ Traffic!AtMostOnce(f[x], "intercept") /\ Traffic!AtMostOnce(f[x], "idle")
          /\ (interceptor = None => Traffic!Without(f[x], "intercept")) /\ (inflight = None => Traffic!Without(f[x], "idle"))
    BY <2>1, WrapSound
  <2>3. Traffic!SoundFn(f)'
    BY <2>2 DEF Traffic!SoundFn, Traffic!SoundChain, Traffic!AtMostOnce, Traffic!Without
  <2> QED BY <1>2, <2>2, <2>3, Unsaved, ToolStep
<1> QED BY <1>1, <1>2

LEMMA NobodyCounted ==
    ASSUME Traffic!NetInv, inflight = None \/ (Traffic!NetworkAssumption /\ inflight = 0)
    PROVE  Traffic!Counted = {}
<1>1. CASE inflight = None
  <2>1. \A r \in PageRequests : req[r].counted = 0
    BY <1>1 DEF Traffic!NetInv, Traffic!SoundRequest, Traffic!TheRequest
  <2> QED BY <2>1 DEF Traffic!Counted, Traffic!InFlight
<1>2. CASE Traffic!NetworkAssumption /\ inflight = 0
  <2>1. inflight # None
    BY <1>2 DEF Traffic!NetworkAssumption
  <2>2. IsFiniteSet(Traffic!Counted)
    BY <1>2, FS_Subset, CountsAlike DEF Traffic!Counted, Traffic!InFlight, Traffic!NetworkAssumption
  <2> QED BY <2>1, <2>2, <1>2, FS_EmptySet, CountsAlike DEF Traffic!NetInv
<1> QED BY <1>1, <1>2

LEMMA SetUpStep ==
    ASSUME Traffic!NetworkAssumption, Traffic!NetInv, Traffic!SetUp
    PROVE  Traffic!NetInv'
<1>1. /\ inflight = None /\ inflight' = 0 /\ inflight' # None /\ fn' = Traffic!Wrap("idle", {"fetch", "send"})
      /\ UNCHANGED <<saved, interceptor, entries, req, idleWith>>
  BY DEF Traffic!SetUp, Traffic!waitVars, Traffic!NetworkAssumption
<1> PICK f, s : f = Traffic!Wrap("idle", {"fetch", "send"}) /\ s = saved
  OBVIOUS
<1>2. f \in [Traffic!Slots -> Seq(Traffic!Layers)] /\ \A x \in Traffic!Slots :
          /\ Traffic!AtMostOnce(f[x], "intercept") /\ Traffic!AtMostOnce(f[x], "idle")
          /\ (interceptor = None => Traffic!Without(f[x], "intercept"))
  <2>1. "idle" \in Traffic!Layers /\ "idle" # "intercept"
    BY DEF Traffic!Layers
  <2> QED BY <2>1, <1>1, WrapSound
<1>3. Traffic!SoundFn(f)'
  BY <1>1, <1>2 DEF Traffic!SoundFn, Traffic!SoundChain, Traffic!AtMostOnce, Traffic!Without
<1>4. Traffic!Counted = {} /\ Traffic!Counted' = Traffic!Counted
  BY <1>1, NobodyCounted DEF Traffic!Counted, Traffic!InFlight
<1>5. inflight' = Cardinality(Traffic!Counted')
  BY <1>1, <1>4, FS_EmptySet
<1>6. \A c : Traffic!SoundChain(c) => Traffic!SoundChain(c)'
  BY <1>1 DEF Traffic!SoundChain, Traffic!AtMostOnce, Traffic!Without
<1>7. Traffic!Saves(s)'
  BY <1>6, Unsaved DEF Traffic!Saves, Traffic!SoundFn
<1>8. Traffic!Saves(saved)' /\ Traffic!SoundFn(fn)' /\ fn' \in [Traffic!Slots -> Seq(Traffic!Layers)]
  BY <1>1, <1>2, <1>3, <1>7 DEF Traffic!Saves, Traffic!SoundFn, Traffic!SoundChain, Traffic!AtMostOnce, Traffic!Without
<1>9. \A q, c : Traffic!SoundRequest(q, c) => Traffic!SoundRequest(q, c)'
  BY <1>1, <1>6 DEF Traffic!SoundRequest, Traffic!Without
<1>10. \A x \in PageRequests : Traffic!SoundRequest(req[x], req[x].rest)'
  <2> SUFFICES ASSUME NEW x \in PageRequests PROVE Traffic!SoundRequest(req[x], req[x].rest)'
    OBVIOUS
  <2> PICK q, c : q = req[x] /\ c = req[x].rest
    OBVIOUS
  <2>1. Traffic!SoundRequest(q, c)'
    BY <1>9 DEF Traffic!NetInv
  <2>2. req'[x] = q /\ req'[x].rest = c
    BY <1>1
  <2> QED BY <2>1, <2>2 DEF Traffic!SoundRequest, Traffic!Without, Traffic!SoundChain, Traffic!AtMostOnce
<1> QED BY <1>1, <1>5, <1>8, <1>10, CountsAlike DEF Traffic!NetInv, Traffic!Saves

LEMMA FreshSound ==
    /\ Traffic!NoRequest \in Traffic!TheRequest /\ Traffic!NoRequest.rest = <<>> /\ Traffic!NoRequest.at = "none"
    /\ Traffic!NoRequest.counted = 0 /\ Traffic!NoRequest.noted = 0
BY EmptyChain DEF Traffic!NoRequest, Traffic!TheRequest

LEMMA FetchStep ==
    ASSUME Traffic!NetworkAssumption, Traffic!NetInv, NEW r \in PageRequests, NEW u \in PageUrls, Traffic!Fetch(r, u)
    PROVE  Traffic!NetInv'
<1> DEFINE q == [Traffic!NoRequest EXCEPT !.kind = "fetch", !.url = u]
<1>1. req[r].at = "none" /\ Traffic!Descend(r, q, fn["fetch"])
  BY DEF Traffic!Fetch
<1>2. q \in Traffic!TheRequest /\ q.counted = 0 /\ q.noted = 0
  BY FreshSound DEF Traffic!NoRequest, Traffic!TheRequest
<1>3. Traffic!SoundChain(fn["fetch"])
  BY DEF Traffic!NetInv, Traffic!SoundFn, Traffic!Slots
<1> HIDE DEF q
<1>4. Traffic!SoundRequest(q, fn["fetch"])
  BY <1>2, <1>3 DEF Traffic!SoundRequest
<1>5. req[r].counted = 0
  BY <1>1 DEF Traffic!NetInv
<1> QED BY <1>1, <1>2, <1>4, <1>5, Descended

LEMMA SendStep ==
    ASSUME Traffic!NetworkAssumption, Traffic!NetInv, NEW r \in PageRequests, Traffic!Send(r)
    PROVE  Traffic!NetInv'
<1>1. req[r].at = "opened" /\ Traffic!Descend(r, req[r], fn["send"])
  BY DEF Traffic!Send
<1>2. req[r] \in Traffic!TheRequest /\ req[r].counted = 0 /\ req[r].noted = 0
  BY <1>1 DEF Traffic!NetInv
<1>3. Traffic!SoundChain(fn["send"])
  BY DEF Traffic!NetInv, Traffic!SoundFn, Traffic!Slots
<1>4. Traffic!SoundRequest(req[r], fn["send"])
  BY <1>2, <1>3 DEF Traffic!SoundRequest
<1> QED BY <1>1, <1>4, Descended

LEMMA DelayedStep ==
    ASSUME Traffic!NetworkAssumption, Traffic!NetInv, NEW r \in PageRequests, Traffic!Delayed(r)
    PROVE  Traffic!NetInv'
<1>1. req[r].at = "delayed" /\ Traffic!Descend(r, req[r], req[r].rest)
  BY DEF Traffic!Delayed
<1>2. Traffic!SoundRequest(req[r], req[r].rest)
  BY DEF Traffic!NetInv
<1> QED BY <1>1, <1>2, Descended

\* The layers stay, and so does what was sound, but for one request.
LEMMA RequestStep ==
    ASSUME Traffic!NetInv, NEW r \in PageRequests, NEW q, Traffic!SoundRequest(q, q.rest),
           q.at \in {"none", "opened"} => q.counted = 0 /\ q.noted = 0,
           req' = [req EXCEPT ![r] = q], UNCHANGED <<fn, saved, interceptor, idleWith>>,
           inflight = None <=> inflight' = None
    PROVE  /\ fn' \in [Traffic!Slots -> Seq(Traffic!Layers)] /\ Traffic!SoundFn(fn)' /\ Traffic!Saves(saved)'
           /\ req' \in [PageRequests -> Traffic!TheRequest] /\ DOMAIN req' = PageRequests
           /\ \A x \in PageRequests :
                /\ Traffic!SoundRequest(req[x], req[x].rest)'
                /\ req'[x].at \in {"none", "opened"} => req'[x].counted = 0 /\ req'[x].noted = 0
<1>1. \A c : Traffic!SoundChain(c) => Traffic!SoundChain(c)'
  BY DEF Traffic!SoundChain, Traffic!AtMostOnce, Traffic!Without
<1>2. Traffic!SoundFn(fn)' /\ Traffic!Saves(saved)'
  <2> PICK f, s : f = fn /\ s = saved
    OBVIOUS
  <2>1. Traffic!SoundFn(f)' /\ Traffic!Saves(s)'
    BY <1>1, Unsaved DEF Traffic!Saves, Traffic!SoundFn
  <2> QED BY <2>1 DEF Traffic!Saves, Traffic!SoundFn, Traffic!SoundChain, Traffic!AtMostOnce, Traffic!Without
<1>3. \A y, c : Traffic!SoundRequest(y, c) => Traffic!SoundRequest(y, c)'
  BY <1>1 DEF Traffic!SoundRequest, Traffic!Without
<1>4. q \in Traffic!TheRequest
  BY DEF Traffic!SoundRequest
<1>5. req' \in [PageRequests -> Traffic!TheRequest] /\ DOMAIN req' = PageRequests
  BY <1>4 DEF Traffic!NetInv
<1>6. ASSUME NEW x \in PageRequests
      PROVE  /\ Traffic!SoundRequest(req[x], req[x].rest)'
             /\ req'[x].at \in {"none", "opened"} => req'[x].counted = 0 /\ req'[x].noted = 0
  <2> PICK y : y = IF x = r THEN q ELSE req[x]
    OBVIOUS
  <2>1. req'[x] = y
    BY DEF Traffic!NetInv
  <2>2. Traffic!SoundRequest(y, y.rest) /\ (y.at \in {"none", "opened"} => y.counted = 0 /\ y.noted = 0)
    BY DEF Traffic!NetInv
  <2>3. Traffic!SoundRequest(y, y.rest)'
    BY <2>2, <1>3
  <2> QED BY <2>1, <2>2, <2>3 DEF Traffic!SoundRequest, Traffic!SoundChain, Traffic!AtMostOnce, Traffic!Without
<1> QED BY <1>2, <1>5, <1>6 DEF Traffic!NetInv

LEMMA OpenStep ==
    ASSUME Traffic!NetInv, NEW r \in PageRequests, NEW u \in PageUrls, Traffic!Open(r, u)
    PROVE  Traffic!NetInv'
<1> DEFINE q0 == [Traffic!NoRequest EXCEPT !.kind = "xhr", !.url = u, !.at = "opened",
            !.seen = {"intercept", "mock"} \cap {fn["open"][i] : i \in DOMAIN fn["open"]}]
<1> PICK q : q = q0
  OBVIOUS
<1>1. req[r].at = "none" /\ req' = [req EXCEPT ![r] = q] /\ UNCHANGED <<fn, saved, interceptor, idleWith, inflight, entries>>
  BY DEF Traffic!Open, Traffic!toolVars, Traffic!waitVars
<1>2. q \in Traffic!TheRequest /\ q.rest = <<>> /\ q.counted = 0 /\ q.noted = 0 /\ q.at = "opened"
  BY FreshSound DEF Traffic!NoRequest, Traffic!TheRequest
<1> HIDE DEF q0
<1>3. Traffic!SoundRequest(q, q.rest)
  BY <1>2, EmptyChain DEF Traffic!SoundRequest, Traffic!SoundChain
<1>4. \A x \in PageRequests : req'[x] = IF x = r THEN q ELSE req[x]
  BY <1>1 DEF Traffic!NetInv
<1>5. Traffic!Counted' = Traffic!Counted
  BY <1>1, <1>2, <1>4 DEF Traffic!Counted, Traffic!InFlight
<1>6. \A i \in 1..Len(entries') : req'[entries'[i].id].at = "done"
  <2> SUFFICES ASSUME NEW i \in 1..Len(entries) PROVE req'[entries[i].id].at = "done"
    BY <1>1
  <2>1. entries[i] \in Traffic!Entry
    BY ElementOfSeq DEF Traffic!NetInv
  <2>2. entries[i].id \in PageRequests /\ req[entries[i].id].at = "done"
    BY <2>1 DEF Traffic!NetInv, Traffic!Entry
  <2> QED BY <2>2, <1>1, <1>4
<1>7. /\ fn' \in [Traffic!Slots -> Seq(Traffic!Layers)] /\ Traffic!SoundFn(fn)' /\ Traffic!Saves(saved)'
      /\ req' \in [PageRequests -> Traffic!TheRequest] /\ DOMAIN req' = PageRequests
      /\ \A x \in PageRequests :
                /\ Traffic!SoundRequest(req[x], req[x].rest)'
                /\ req'[x].at \in {"none", "opened"} => req'[x].counted = 0 /\ req'[x].noted = 0
  BY <1>1, <1>2, <1>3, RequestStep
<1> QED BY <1>1, <1>5, <1>6, <1>7 DEF Traffic!NetInv, Traffic!Saves

LEMMA NavigateStep ==
    ASSUME Traffic!NetInv, Traffic!Navigate
    PROVE  Traffic!NetInv'
<1>1. /\ fn' = Traffic!Native /\ saved' = [t \in {"throttle", "offline"} |-> None] /\ interceptor' = None
      /\ entries' = <<>> /\ inflight' = None /\ req' = [x \in PageRequests |-> Traffic!NoRequest] /\ idleWith' = {}
  BY DEF Traffic!Navigate, Traffic!Fresh
<1>2. Traffic!SoundChain(<<>>)'
  BY EmptyChain DEF Traffic!SoundChain
<1>3. Traffic!SoundRequest(Traffic!NoRequest, <<>>)'
  BY <1>2, FreshSound DEF Traffic!SoundRequest
<1>4. fn' \in [Traffic!Slots -> Seq(Traffic!Layers)] /\ Traffic!SoundFn(fn)'
  BY <1>1, EmptyChain DEF Traffic!Native, Traffic!SoundFn, Traffic!SoundChain, Traffic!AtMostOnce, Traffic!Without
<1>5. \A x \in PageRequests : req'[x] = Traffic!NoRequest
  BY <1>1
<1>6. \A x \in PageRequests : Traffic!SoundRequest(req[x], req[x].rest)'
  BY <1>3, <1>5, FreshSound DEF Traffic!SoundRequest, Traffic!SoundChain, Traffic!AtMostOnce, Traffic!Without
<1>7. entries' \in Seq(Traffic!Entry) /\ Len(entries') = 0
  BY <1>1, EmptySeq
<1> QED BY <1>1, <1>4, <1>5, <1>6, <1>7, FreshSound DEF Traffic!NetInv, Traffic!Saves

LEMMA NetInit ==
    ASSUME Traffic!Init
    PROVE  Traffic!NetInv
<1>1. /\ fn = Traffic!Native /\ saved = [t \in {"throttle", "offline"} |-> None] /\ interceptor = None
      /\ entries = <<>> /\ inflight = None /\ req = [x \in PageRequests |-> Traffic!NoRequest] /\ idleWith = {}
  BY DEF Traffic!Init, Traffic!Fresh
<1>2. Traffic!SoundChain(<<>>)
  BY EmptyChain DEF Traffic!SoundChain
<1>3. fn \in [Traffic!Slots -> Seq(Traffic!Layers)] /\ Traffic!SoundFn(fn)
  BY <1>1, <1>2, EmptyChain DEF Traffic!Native, Traffic!SoundFn
<1>4. \A x \in PageRequests : Traffic!SoundRequest(req[x], req[x].rest)
  BY <1>1, <1>2, FreshSound DEF Traffic!SoundRequest
<1>5. entries \in Seq(Traffic!Entry) /\ Len(entries) = 0
  BY <1>1, EmptySeq
<1> QED BY <1>1, <1>3, <1>4, <1>5, FreshSound DEF Traffic!NetInv, Traffic!Saves

\* An entry that comes, and others that may go.
LEMMA PushedOne ==
    ASSUME Traffic!NetworkAssumption, entries \in Seq(Traffic!Entry), NEW e \in Traffic!Entry
    PROVE  LET p == Traffic!Pushed(e, 1)
               L == Len(entries)
           IN  /\ p \in Seq(Traffic!Entry)
               /\ \E d \in 0..L :
                     /\ Len(p) = L + 1 - d
                     /\ \A i \in 1..(L + 1 - d) : p[i] = IF d + i = L + 1 THEN e ELSE entries[d + i]
<1> DEFINE all == entries \o [i \in 1..1 |-> e]
           L == Len(entries)
           kept == IF Len(all) > MaxEntries THEN MaxEntries ELSE Len(all)
           d == Len(all) - kept
           p == SubSeq(all, d + 1, Len(all))
<1>1. Traffic!Pushed(e, 1) = SubSeq(all, Len(all) - kept + 1, Len(all))
  BY DEF Traffic!Pushed
<1>2. <<e>> \in Seq(Traffic!Entry) /\ Len(<<e>>) = 1 /\ <<e>>[1] = e
  OBVIOUS
<1>3. L \in Nat /\ all \in Seq(Traffic!Entry) /\ Len(all) = L + 1
      /\ \A i \in 1..(L + 1) : all[i] = IF i = L + 1 THEN e ELSE entries[i]
  <2>1. all = entries \o <<e>> /\ L \in Nat
    BY OneEntry, LenProperties
  <2> HIDE DEF all
  <2>2. all \in Seq(Traffic!Entry) /\ Len(all) = L + 1
        /\ \A i \in 1..(L + 1) : all[i] = IF i <= L THEN entries[i] ELSE <<e>>[i - L]
    BY <2>1, <1>2, ConcatProperties
  <2> QED BY <2>1, <2>2, <1>2
<1> HIDE DEF all
<1>4. kept \in 1..(L + 1) /\ d \in 0..L /\ d + 1 \in 1..(L + 1)
  <2>1. Len(all) = L + 1 /\ L \in Nat /\ MaxEntries \in Nat /\ MaxEntries >= 1
    BY <1>3 DEF Traffic!NetworkAssumption
  <2> HIDE DEF L
  <2> QED BY <2>1
<1> HIDE DEF kept
<1>5. /\ p \in Seq(Traffic!Entry) /\ Len(p) = L + 1 - d
      /\ \A i \in 1..(L + 1 - d) : p[i] = all[d + i]
  <2>1. \A i \in (d + 1)..(L + 1) : all[i] \in Traffic!Entry
    BY <1>3, <1>4, ElementOfSeq
  <2>2. d \in Int /\ d + 1 \in Int /\ L \in Int /\ L + 1 \in Int /\ d + 1 <= L + 1
    BY <1>3, <1>4
  <2> PICK k : k = d
    OBVIOUS
  <2>3. p = SubSeq(all, k + 1, L + 1)
    BY <1>3
  <2>4. /\ p \in Seq(Traffic!Entry) /\ Len(p) = IF k + 1 <= L + 1 THEN (L + 1) - (k + 1) + 1 ELSE 0
        /\ \A i \in 1..((L + 1) - (k + 1) + 1) : p[i] = all[(k + 1) + i - 1]
    <3> HIDE DEF p, d, L
    <3> QED BY <2>1, <2>2, <2>3, SubSeqProperties
  <2>5. (L + 1) - (k + 1) + 1 = L + 1 - k /\ \A i \in Int : (k + 1) + i - 1 = k + i
    BY <2>2
  <2> HIDE DEF p, d, L
  <2> QED BY <2>2, <2>4, <2>5
<1>6. \A i \in 1..(L + 1 - d) : d + i \in 1..(L + 1)
  BY <1>3, <1>4
<1>7. Traffic!Pushed(e, 1) = p
  BY <1>1
<1> HIDE DEF p, d, L
<1>8. \A i \in 1..(L + 1 - d) : p[i] = IF d + i = L + 1 THEN e ELSE entries[d + i]
  BY <1>3, <1>5, <1>6
<1> QED BY <1>4, <1>5, <1>7, <1>8 DEF L

LEMMA SettleStep ==
    ASSUME Traffic!NetworkAssumption, Traffic!NetInv, NEW r \in PageRequests, Traffic!Settle(r)
    PROVE  Traffic!NetInv'
<1> PICK q : q = req[r]
  OBVIOUS
<1> DEFINE z0 == [q EXCEPT !.at = "done"]
<1> PICK z : z = z0
  OBVIOUS
<1>1. q \in Traffic!TheRequest /\ q.at \in {"network", "refused", "mocked"} /\ Traffic!SoundRequest(q, q.rest)
  BY DEF Traffic!Settle, Traffic!NetInv
<1>2. PICK status \in {"ok", "error"} :
        entries' = Traffic!Pushed([id |-> r, url |-> Traffic!UrlFor(q, "intercept"), status |-> status], q.noted)
  BY DEF Traffic!Settle
<1>3. /\ req' = [req EXCEPT ![r] = z] /\ UNCHANGED <<fn, saved, interceptor, idleWith>>
      /\ IF q.counted = 0 THEN UNCHANGED <<inflight, quiet>>
         ELSE inflight' = IF inflight > q.counted THEN inflight - q.counted ELSE 0
  BY DEF Traffic!Settle, Traffic!toolVars, Traffic!waitVars
<1>4. z \in Traffic!TheRequest /\ z.at = "done" /\ z.rest = q.rest /\ z.counted = q.counted /\ z.noted = q.noted
  BY <1>1 DEF Traffic!TheRequest
<1> HIDE DEF z0
<1>5. Traffic!SoundRequest(z, z.rest)
  BY <1>1, <1>4 DEF Traffic!SoundRequest
<1>6. q.counted \in {0, 1} /\ q.noted \in {0, 1}
  BY <1>1 DEF Traffic!TheRequest
<1>7. IsFiniteSet(Traffic!Counted) /\ Cardinality(Traffic!Counted) \in Nat /\ (inflight # None => inflight = Cardinality(Traffic!Counted))
  BY FS_Subset, FS_CardinalityType, CountsAlike DEF Traffic!Counted, Traffic!InFlight, Traffic!NetworkAssumption, Traffic!NetInv
<1>8. \A x \in PageRequests : req'[x] = IF x = r THEN z ELSE req[x]
  BY <1>3 DEF Traffic!NetInv
<1>9. Traffic!Counted' = Traffic!Counted \ {r}
  BY <1>4, <1>8 DEF Traffic!Counted, Traffic!InFlight
<1>10. r \in Traffic!Counted <=> q.counted = 1
  BY <1>1, <1>6 DEF Traffic!Counted, Traffic!InFlight
<1>11. (inflight = None <=> inflight' = None) /\ (inflight' # None => inflight' = Cardinality(Traffic!Counted'))
  <2>1. CASE q.counted = 0
    <3>1. Traffic!Counted' = Traffic!Counted
      BY <2>1, <1>9, <1>10
    <3> QED BY <2>1, <3>1, <1>3, <1>7
  <2>2. CASE q.counted = 1
    <3>1. inflight # None
      BY <2>2, <1>1 DEF Traffic!SoundRequest
    <3>2. Cardinality(Traffic!Counted') = Cardinality(Traffic!Counted) - 1
      BY <2>2, <1>7, <1>9, <1>10, FS_RemoveElement
    <3>3. IsFiniteSet(Traffic!Counted')
      BY <1>7, <1>9, FS_RemoveElement
    <3>4. Cardinality(Traffic!Counted') \in Nat
      BY <3>3, FS_CardinalityType
    <3>5. inflight' = Cardinality(Traffic!Counted')
      BY <2>2, <3>1, <3>2, <3>4, <1>3, <1>7
    <3> QED BY <3>1, <3>4, <3>5 DEF Traffic!NetworkAssumption
  <2> QED BY <2>1, <2>2, <1>6
<1>12. /\ fn' \in [Traffic!Slots -> Seq(Traffic!Layers)] /\ Traffic!SoundFn(fn)' /\ Traffic!Saves(saved)'
       /\ req' \in [PageRequests -> Traffic!TheRequest] /\ DOMAIN req' = PageRequests
       /\ \A x \in PageRequests :
                /\ Traffic!SoundRequest(req[x], req[x].rest)'
                /\ req'[x].at \in {"none", "opened"} => req'[x].counted = 0 /\ req'[x].noted = 0
  BY <1>3, <1>4, <1>5, <1>11, RequestStep
<1>13. /\ entries \in Seq(Traffic!Entry) /\ Len(entries) \in Nat
       /\ \A i \in 1..Len(entries) : entries[i].id \in PageRequests \ {r} /\ req'[entries[i].id].at = "done"
  <2>1. entries \in Seq(Traffic!Entry) /\ Len(entries) \in Nat
    BY LenProperties DEF Traffic!NetInv
  <2>2. ASSUME NEW i \in 1..Len(entries) PROVE entries[i].id \in PageRequests \ {r} /\ req'[entries[i].id].at = "done"
    <3>1. entries[i] \in Traffic!Entry
      BY <2>1, ElementOfSeq
    <3>2. entries[i].id \in PageRequests /\ req[entries[i].id].at = "done"
      BY <3>1 DEF Traffic!NetInv, Traffic!Entry
    <3>3. entries[i].id # r
      BY <3>2, <1>1
    <3> QED BY <3>2, <3>3, <1>8
  <2> QED BY <2>1, <2>2
<1>14. /\ entries' \in Seq(Traffic!Entry)
       /\ \A i \in 1..Len(entries') : req'[entries'[i].id].at = "done"
       /\ \A i, j \in 1..Len(entries') : entries'[i].id = entries'[j].id => i = j
  <2> DEFINE e == [id |-> r, url |-> Traffic!UrlFor(q, "intercept"), status |-> status]
  <2>1. CASE q.noted = 0
    <3>1. entries' = entries
      BY <2>1, <1>2 DEF Traffic!Pushed
    <3> QED BY <3>1, <1>13 DEF Traffic!NetInv
  <2>2. CASE q.noted = 1
    <3>1. e \in Traffic!Entry /\ e.id = r
      BY <1>1 DEF Traffic!Entry, Traffic!UrlFor, Traffic!TheRequest
    <3>2. entries' = Traffic!Pushed(e, 1)
      BY <2>2, <1>2
    <3> HIDE DEF e
    <3>3. entries' \in Seq(Traffic!Entry)
      BY <3>1, <3>2, <1>13, PushedOne
    <3>4. PICK d \in 0..Len(entries) :
             /\ Len(entries') = Len(entries) + 1 - d
             /\ \A i \in 1..(Len(entries) + 1 - d) :
                   entries'[i] = IF d + i = Len(entries) + 1 THEN e ELSE entries[d + i]
      BY <3>1, <3>2, <1>13, PushedOne
    <3>5. ASSUME NEW i \in 1..Len(entries')
          PROVE  /\ d + i \in 1..(Len(entries) + 1)
                 /\ d + i = Len(entries) + 1 => entries'[i].id = r
                 /\ d + i # Len(entries) + 1 => d + i \in 1..Len(entries) /\ entries'[i].id = entries[d + i].id
      BY <3>1, <3>4, <1>13
    <3>6. \A i \in 1..Len(entries') : req'[entries'[i].id].at = "done"
      BY <3>5, <1>13, <1>8, <1>4
    <3>7. ASSUME NEW i \in 1..Len(entries'), NEW j \in 1..Len(entries'), entries'[i].id = entries'[j].id PROVE i = j
      <4>1. d + i = d + j
        <5>1. \A k, l \in 1..Len(entries) : entries[k].id = entries[l].id => k = l
          BY DEF Traffic!NetInv
        <5> QED BY <5>1, <3>5, <3>7, <1>13, ZenonT(60)
      <4> QED BY <4>1, <3>4, <1>13
    <3> QED BY <3>3, <3>6, <3>7
  <2> QED BY <2>1, <2>2, <1>6
<1>15. idleWith' = {}
  BY <1>3 DEF Traffic!NetInv
<1> QED BY <1>11, <1>12, <1>14, <1>15, CountsAlike DEF Traffic!NetInv, Traffic!Saves

LEMMA IdleStep ==
    ASSUME Traffic!NetworkAssumption, Traffic!NetInv, Traffic!NetworkIdle
    PROVE  Traffic!NetInv'
<1>1. UNCHANGED <<fn, saved, interceptor, req, entries, inflight>> /\ idleWith' = Traffic!Counted
  BY DEF Traffic!NetworkIdle, Traffic!toolVars, Traffic!Counted
<1>2. Traffic!Counted = {}
  BY NobodyCounted DEF Traffic!NetworkIdle
<1> QED BY <1>1, <1>2, OtherStep DEF Traffic!NetInv

LEMMA NetStep ==
    ASSUME Traffic!NetworkAssumption, Traffic!NetInv, [Traffic!Next]_(Traffic!vars)
    PROVE  Traffic!NetInv'
<1>1. ASSUME NEW p \in Patterns, Traffic!InterceptRequests(p) \/ Traffic!MockRequest(p) \/ Traffic!RemoveMock(p) PROVE Traffic!NetInv'
  <2>1. CASE Traffic!InterceptRequests(p)
    BY <2>1, InterceptStep
  <2>2. CASE Traffic!MockRequest(p)
    BY <2>2, MockStep DEF Traffic!MockRequest, Traffic!AddMock
  <2>3. CASE Traffic!RemoveMock(p)
    BY <2>3, MockStep DEF Traffic!RemoveMock, Traffic!waitVars
  <2> QED BY <1>1, <2>1, <2>2, <2>3
<1>2. ASSUME NEW on \in BOOLEAN, Traffic!NetworkThrottle(on) \/ Traffic!NetworkOffline(on) PROVE Traffic!NetInv'
  BY <1>2, ThrottleStep, OfflineStep
<1>3. CASE Traffic!DumpHar \/ Traffic!RouteFromHar \/ Traffic!WaitFor \/ Traffic!WaitTimesOut \/ Traffic!QuietPasses
  BY <1>3, OtherStep DEF Traffic!DumpHar, Traffic!RouteFromHar, Traffic!WaitFor, Traffic!WaitTimesOut, Traffic!QuietPasses, Traffic!toolVars, Traffic!waitVars
<1>4. CASE Traffic!RouteNext
  BY <1>4, MockStep DEF Traffic!RouteNext, Traffic!AddMock
<1>5. CASE Traffic!SetUp
  BY <1>5, SetUpStep
<1>6. CASE Traffic!NetworkIdle
  BY <1>6, IdleStep
<1>7. ASSUME NEW r \in PageRequests,
             (\E u \in PageUrls : Traffic!Fetch(r, u) \/ Traffic!Open(r, u)) \/ Traffic!Send(r) \/ Traffic!Delayed(r) \/ Traffic!Settle(r)
      PROVE  Traffic!NetInv'
  BY <1>7, FetchStep, OpenStep, SendStep, DelayedStep, SettleStep
<1>8. CASE Traffic!Navigate
  BY <1>8, NavigateStep
<1>9. CASE UNCHANGED Traffic!vars
  BY <1>9, OtherStep DEF Traffic!vars, Traffic!toolVars, Traffic!waitVars
<1> QED BY <1>1, <1>2, <1>3, <1>4, <1>5, <1>6, <1>7, <1>8, <1>9 DEF Traffic!Next

LEMMA TrafficTold == Traffic!NetInv => Traffic!TrafficAccounted
<1> SUFFICES ASSUME Traffic!NetInv PROVE Traffic!TrafficAccounted
  OBVIOUS
<1>1. DOMAIN entries = 1..Len(entries)
  BY LenProperties DEF Traffic!NetInv
<1> QED BY <1>1 DEF Traffic!NetInv, Traffic!TrafficAccounted

-----------------------------------------------------------------------------
\* Matching of URLs.
\* The one member of a set is its least.
LEMMA LeastOfOne ==
    ASSUME NEW x \in Nat
    PROVE  Matcher!Min({x}) = x
BY DEF Matcher!Min

LEMMA LeastIsMember ==
    ASSUME NEW T \in SUBSET Nat, T # {}
    PROVE  Matcher!Min(T) \in T
BY LeastMember DEF Matcher!Min

\* What one order has at k, the other has at f[k].
Reorders(f, L) ==
    /\ f \in [1..L -> 1..L]
    /\ \A i, j \in 1..L : f[i] = f[j] => i = j
    /\ \A j \in 1..L : \E i \in 1..L : f[i] = j

Before(f, L, T) == {k \in 1..L : f[k] \in T}

LEMMA BeforeProperties ==
    ASSUME NEW L \in Nat, NEW f, Reorders(f, L), NEW T \in SUBSET (1..L)
    PROVE  /\ Before(f, L, T) = {} <=> T = {}
           /\ Cardinality(Before(f, L, T)) = 1 <=> Cardinality(T) = 1
           /\ Cardinality(T) = 1 =>
                 /\ Matcher!Min(T) \in 1..L /\ Matcher!Min(Before(f, L, T)) \in 1..L
                 /\ f[Matcher!Min(Before(f, L, T))] = Matcher!Min(T)
<1> DEFINE B == Before(f, L, T)
<1>1. B \subseteq 1..L
  BY DEF Before
<1>2. IsFiniteSet(1..L)
  BY FS_Interval
<1>3. IsFiniteSet(T) /\ IsFiniteSet(B)
  BY <1>1, <1>2, FS_Subset
<1>4. B = {} <=> T = {}
  <2>1. ASSUME NEW t \in T PROVE B # {}
    <3>1. PICK s \in 1..L : f[s] = t
      BY DEF Reorders
    <3> QED BY <3>1 DEF Before
  <2>2. ASSUME NEW s \in B PROVE T # {}
    BY DEF Before
  <2> QED BY <2>1, <2>2
<1>5. ASSUME NEW s, B = {s} PROVE s \in 1..L /\ T = {f[s]}
  <2>1. s \in 1..L /\ f[s] \in T
    BY <1>5 DEF Before
  <2>2. \A t \in T : t = f[s]
    BY <1>5 DEF Before, Reorders
  <2> QED BY <2>1, <2>2
<1>6. ASSUME NEW t, T = {t} PROVE \E s \in 1..L : B = {s} /\ f[s] = t
  <2>1. PICK s \in 1..L : f[s] = t
    BY <1>6 DEF Reorders
  <2>2. B = {s}
    BY <2>1, <1>6 DEF Before, Reorders
  <2> QED BY <2>1, <2>2
<1> HIDE DEF B
<1>7. Cardinality(B) = 1 <=> Cardinality(T) = 1
  <2>1. Cardinality(B) = 1 <=> \E s : B = {s}
    BY <1>3, FS_Singleton
  <2>2. Cardinality(T) = 1 <=> \E t : T = {t}
    BY <1>3, FS_Singleton
  <2> QED BY <2>1, <2>2, <1>5, <1>6
<1>8. ASSUME Cardinality(T) = 1 PROVE Matcher!Min(T) \in 1..L /\ Matcher!Min(B) \in 1..L /\ f[Matcher!Min(B)] = Matcher!Min(T)
  <2>1. PICK t : T = {t}
    BY <1>3, <1>8, FS_Singleton
  <2>2. PICK s \in 1..L : B = {s} /\ f[s] = t
    BY <2>1, <1>6
  <2>3. t \in 1..L
    BY <2>1
  <2>4. Matcher!Min(T) = t /\ Matcher!Min(B) = s
    BY <2>1, <2>2, <2>3, LeastOfOne
  <2> QED BY <2>2, <2>3, <2>4
<1> QED BY <1>4, <1>7, <1>8 DEF B

Reordered(cs, ds, f, L) ==
    /\ L \in Nat /\ DOMAIN cs = 1..L /\ DOMAIN ds = 1..L
    /\ Reorders(f, L) /\ \A k \in 1..L : ds[k] = cs[f[k]]

\* The tiers do not see the order.
LEMMA TiersMove ==
    ASSUME NEW r, NEW cs, NEW ds, NEW f, NEW L, Reordered(cs, ds, f, L)
    PROVE  /\ Matcher!Exact(r, ds) = Before(f, L, Matcher!Exact(r, cs)) /\ Matcher!Exact(r, cs) \subseteq 1..L
           /\ Matcher!Normalized(r, ds) = Before(f, L, Matcher!Normalized(r, cs)) /\ Matcher!Normalized(r, cs) \subseteq 1..L
           /\ Matcher!Longest(ds, Matcher!Below(r, ds)) = Before(f, L, Matcher!Longest(cs, Matcher!Below(r, cs)))
           /\ Matcher!Longest(cs, Matcher!Below(r, cs)) \subseteq 1..L
<1>1. /\ DOMAIN cs = 1..L /\ DOMAIN ds = 1..L /\ Reorders(f, L)
      /\ \A k \in 1..L : f[k] \in 1..L /\ ds[k] = cs[f[k]]
  BY DEF Reorders, Reordered
<1>2. Matcher!Exact(r, ds) = Before(f, L, Matcher!Exact(r, cs)) /\ Matcher!Exact(r, cs) \subseteq 1..L
  BY <1>1 DEF Matcher!Exact, Before
<1>3. Matcher!Normalized(r, ds) = Before(f, L, Matcher!Normalized(r, cs)) /\ Matcher!Normalized(r, cs) \subseteq 1..L
  BY <1>1 DEF Matcher!Normalized, Before
<1>4. Matcher!Below(r, ds) = Before(f, L, Matcher!Below(r, cs)) /\ Matcher!Below(r, cs) \subseteq 1..L
  BY <1>1 DEF Matcher!Below, Before
<1> DEFINE T == Matcher!Below(r, cs)
           B == Matcher!Below(r, ds)
<1>5. Matcher!Longest(cs, T) \subseteq T
  BY DEF Matcher!Longest
<1>6. ASSUME NEW k \in 1..L PROVE k \in Matcher!Longest(ds, B) <=> f[k] \in Matcher!Longest(cs, T)
  <2>1. k \in B <=> f[k] \in T
    BY <1>1, <1>4 DEF Before
  <2>2. ASSUME k \in B
        PROVE  (\A j \in B : Matcher!PathLength(ds[k].path) >= Matcher!PathLength(ds[j].path))
               <=> (\A j \in T : Matcher!PathLength(cs[f[k]].path) >= Matcher!PathLength(cs[j].path))
    <3>1. ASSUME \A j \in B : Matcher!PathLength(ds[k].path) >= Matcher!PathLength(ds[j].path), NEW j \in T
          PROVE Matcher!PathLength(cs[f[k]].path) >= Matcher!PathLength(cs[j].path)
      <4>1. PICK i \in 1..L : f[i] = j
        BY <1>1, <1>4 DEF Reorders
      <4>2. i \in B
        BY <4>1, <1>4 DEF Before
      <4>3. ds[i] = cs[j] /\ ds[k] = cs[f[k]]
        BY <4>1, <1>1
      <4> QED BY <3>1, <4>2, <4>3
    <3>2. ASSUME \A j \in T : Matcher!PathLength(cs[f[k]].path) >= Matcher!PathLength(cs[j].path), NEW j \in B
          PROVE Matcher!PathLength(ds[k].path) >= Matcher!PathLength(ds[j].path)
      <4>1. j \in 1..L /\ f[j] \in T
        BY <1>1, <1>4 DEF Before
      <4>2. ds[j] = cs[f[j]] /\ ds[k] = cs[f[k]]
        BY <4>1, <1>1
      <4> QED BY <3>2, <4>1, <4>2
    <3> QED BY <3>1, <3>2
  <2> QED BY <2>1, <2>2 DEF Matcher!Longest
<1>7. Matcher!Longest(ds, B) \subseteq 1..L
  BY <1>4 DEF Matcher!Longest, Before
<1>8. Matcher!Longest(ds, B) = Before(f, L, Matcher!Longest(cs, T))
  BY <1>6, <1>7 DEF Before
<1> QED BY <1>2, <1>3, <1>4, <1>5, <1>8

LEMMA SameFound ==
    ASSUME NEW r, NEW cs, NEW ds, NEW f, NEW L, Reordered(cs, ds, f, L),
           Matcher!MatchTabUrl(r, cs) # 0
    PROVE  Matcher!MatchTabUrl(r, ds) # 0 /\ ds[Matcher!MatchTabUrl(r, ds)] = cs[Matcher!MatchTabUrl(r, cs)]
<1> DEFINE E == Matcher!Exact(r, cs)   E2 == Matcher!Exact(r, ds)
           N == Matcher!Normalized(r, cs)   N2 == Matcher!Normalized(r, ds)
           G == Matcher!Longest(cs, Matcher!Below(r, cs))   G2 == Matcher!Longest(ds, Matcher!Below(r, ds))
<1>1. /\ E2 = Before(f, L, E) /\ E \in SUBSET (1..L)
      /\ N2 = Before(f, L, N) /\ N \in SUBSET (1..L)
      /\ G2 = Before(f, L, G) /\ G \in SUBSET (1..L)
  <2>1. /\ Matcher!Exact(r, ds) = Before(f, L, Matcher!Exact(r, cs)) /\ Matcher!Exact(r, cs) \subseteq 1..L
        /\ Matcher!Normalized(r, ds) = Before(f, L, Matcher!Normalized(r, cs)) /\ Matcher!Normalized(r, cs) \subseteq 1..L
        /\ Matcher!Longest(ds, Matcher!Below(r, ds)) = Before(f, L, Matcher!Longest(cs, Matcher!Below(r, cs)))
        /\ Matcher!Longest(cs, Matcher!Below(r, cs)) \subseteq 1..L
    BY TiersMove
  <2> QED BY <2>1
<1>0. /\ L \in Nat /\ Reorders(f, L) /\ DOMAIN cs = 1..L /\ DOMAIN ds = 1..L
      /\ \A k \in 1..L : ds[k] = cs[f[k]]
  BY DEF Reordered
<1>2. E2 = {} <=> E = {}
  BY <1>0, <1>1, BeforeProperties
<1>3. /\ Cardinality(N2) = 1 <=> Cardinality(N) = 1
      /\ Cardinality(N) = 1 => Matcher!Min(N) \in 1..L /\ Matcher!Min(N2) \in 1..L /\ f[Matcher!Min(N2)] = Matcher!Min(N)
  BY <1>0, <1>1, BeforeProperties
<1>4. /\ Cardinality(G2) = 1 <=> Cardinality(G) = 1
      /\ Cardinality(G) = 1 => Matcher!Min(G) \in 1..L /\ Matcher!Min(G2) \in 1..L /\ f[Matcher!Min(G2)] = Matcher!Min(G)
  BY <1>0, <1>1, BeforeProperties
<1>5. E # {} => Matcher!Min(E) \in E /\ Matcher!Min(E2) \in E2
  <2>1. E \in SUBSET Nat /\ E2 \in SUBSET Nat
    BY <1>1 DEF Before
  <2> QED BY <2>1, <1>2, LeastIsMember
<1>6. /\ \A k \in E : cs[k] = r
      /\ \A k \in E2 : k \in 1..L /\ ds[k] = r
  BY <1>0 DEF Matcher!Exact
<1>7. /\ Matcher!MatchTabUrl(r, cs) = CASE E # {} -> Matcher!Min(E)
          [] E = {} /\ Cardinality(N) = 1 -> Matcher!Min(N)
          [] E = {} /\ Cardinality(N) # 1 /\ Cardinality(G) = 1 -> Matcher!Min(G)
          [] OTHER -> 0
      /\ Matcher!MatchTabUrl(r, ds) = CASE E2 # {} -> Matcher!Min(E2)
          [] E2 = {} /\ Cardinality(N2) = 1 -> Matcher!Min(N2)
          [] E2 = {} /\ Cardinality(N2) # 1 /\ Cardinality(G2) = 1 -> Matcher!Min(G2)
          [] OTHER -> 0
  BY DEF Matcher!MatchTabUrl
<1> HIDE DEF E, E2, N, N2, G, G2
<1>8. CASE E # {}
  <2>1. Matcher!MatchTabUrl(r, cs) = Matcher!Min(E) /\ Matcher!MatchTabUrl(r, ds) = Matcher!Min(E2)
    BY <1>2, <1>7, <1>8
  <2>2. Matcher!Min(E2) \in 1..L /\ cs[Matcher!Min(E)] = r /\ ds[Matcher!Min(E2)] = r
    BY <1>5, <1>6, <1>8
  <2> QED BY <2>1, <2>2
<1>9. CASE E = {} /\ Cardinality(N) = 1
  <2>1. Matcher!MatchTabUrl(r, cs) = Matcher!Min(N) /\ Matcher!MatchTabUrl(r, ds) = Matcher!Min(N2)
    BY <1>2, <1>3, <1>7, <1>9
  <2> QED BY <2>1, <1>0, <1>3, <1>9
<1>10. CASE E = {} /\ Cardinality(N) # 1 /\ Cardinality(G) = 1
  <2>1. Matcher!MatchTabUrl(r, cs) = Matcher!Min(G) /\ Matcher!MatchTabUrl(r, ds) = Matcher!Min(G2)
    BY <1>2, <1>3, <1>4, <1>7, <1>10
  <2> QED BY <2>1, <1>0, <1>4, <1>10
<1>11. CASE E = {} /\ Cardinality(N) # 1 /\ Cardinality(G) # 1
  BY <1>7, <1>11
<1> QED BY <1>8, <1>9, <1>10, <1>11

\* A match is a place among the tabs, or none.
LEMMA MatchIsPlace ==
    ASSUME NEW r, NEW cs, NEW L \in Nat, DOMAIN cs = 1..L
    PROVE  Matcher!MatchTabUrl(r, cs) \in 0..L
<1> DEFINE E == Matcher!Exact(r, cs)
           N == Matcher!Normalized(r, cs)
           G == Matcher!Longest(cs, Matcher!Below(r, cs))
<1>1. E \subseteq 1..L /\ N \subseteq 1..L /\ G \subseteq 1..L
  BY DEF Matcher!Exact, Matcher!Normalized, Matcher!Longest, Matcher!Below
<1>2. \A T \in SUBSET (1..L) : T # {} => Matcher!Min(T) \in 1..L
  <2> SUFFICES ASSUME NEW T \in SUBSET (1..L), T # {} PROVE Matcher!Min(T) \in 1..L
    OBVIOUS
  <2>1. T \in SUBSET Nat
    OBVIOUS
  <2> QED BY <2>1, LeastIsMember
<1>3. Cardinality({}) # 1
  BY FS_EmptySet
<1>4. Matcher!MatchTabUrl(r, cs) = CASE E # {} -> Matcher!Min(E)
          [] E = {} /\ Cardinality(N) = 1 -> Matcher!Min(N)
          [] E = {} /\ Cardinality(N) # 1 /\ Cardinality(G) = 1 -> Matcher!Min(G)
          [] OTHER -> 0
  BY DEF Matcher!MatchTabUrl
<1> HIDE DEF E, N, G
<1>5. CASE E # {}
  BY <1>1, <1>2, <1>4, <1>5
<1>6. CASE E = {} /\ Cardinality(N) = 1
  <2>1. N # {}
    BY <1>3, <1>6
  <2>2. Matcher!Min(N) \in 1..L
    BY <2>1, <1>1, <1>2
  <2> QED BY <2>2, <1>4, <1>6
<1>7. CASE E = {} /\ Cardinality(N) # 1 /\ Cardinality(G) = 1
  <2>1. G # {}
    BY <1>3, <1>7
  <2>2. Matcher!Min(G) \in 1..L
    BY <2>1, <1>1, <1>2
  <2> QED BY <2>2, <1>4, <1>7
<1>8. CASE E = {} /\ Cardinality(N) # 1 /\ Cardinality(G) # 1
  BY <1>4, <1>8
<1> QED BY <1>5, <1>6, <1>7, <1>8

LEMMA MatchInit == Matcher!Init => Matcher!MatchInv
BY DEF Matcher!Init, Matcher!MatchInv, Matcher!SeqOf

LEMMA FindStep ==
    ASSUME Matcher!MatchInv, Matcher!FindTargetTab
    PROVE  Matcher!MatchInv' /\ Matcher!FoundAgain
<1>1. matched' = Matcher!MatchTabUrl(requested, tabs) /\ tabs' = tabs /\ requested' = requested
  BY DEF Matcher!FindTargetTab
<1>2. Len(tabs) \in Nat /\ DOMAIN tabs = 1..Len(tabs)
  BY LenProperties DEF Matcher!MatchInv
<1>3. Matcher!MatchTabUrl(requested, tabs) \in 0..Len(tabs)
  BY <1>2, MatchIsPlace
<1>4. Matcher!MatchTabUrl(requested, tabs)' = Matcher!MatchTabUrl(requested, tabs)
  BY <1>1
<1> QED BY <1>1, <1>2, <1>3, <1>4 DEF Matcher!MatchInv, Matcher!FoundAgain

LEMMA ReorderStep ==
    ASSUME Matcher!MatchInv, Matcher!CacheReorders
    PROVE  Matcher!MatchInv' /\ Matcher!FoundAgain
<1> PICK i \in DOMAIN tabs :
        /\ tabs' = Append(Matcher!RemoveAt(tabs, i), tabs[i])
        /\ matched' = IF matched = i THEN Len(tabs) ELSE IF matched > i THEN matched - 1 ELSE matched
        /\ requested' = requested
  BY DEF Matcher!CacheReorders
<1> DEFINE L == Len(tabs)
<1>1. L \in Nat /\ DOMAIN tabs = 1..L /\ tabs \in Seq(Matcher!Urls) /\ i \in 1..L
  BY LenProperties DEF Matcher!MatchInv
<1> DEFINE f == [k \in 1..L |-> IF k < i THEN k ELSE IF k < L THEN k + 1 ELSE i]
<1>2. /\ Matcher!RemoveAt(tabs, i) \in Seq(Matcher!Urls) /\ Len(Matcher!RemoveAt(tabs, i)) = L - 1
      /\ \A k \in 1..(L - 1) : Matcher!RemoveAt(tabs, i)[k] = IF k < i THEN tabs[k] ELSE tabs[k + 1]
  <2>1. Matcher!RemoveAt(tabs, i) = Cut(tabs, i)
    BY DEF Matcher!RemoveAt, Cut
  <2>2. /\ Matcher!RemoveAt(tabs, i) \in Seq(Matcher!Urls) /\ DOMAIN Matcher!RemoveAt(tabs, i) = 1..(L - 1)
        /\ \A k \in DOMAIN Matcher!RemoveAt(tabs, i) : Matcher!RemoveAt(tabs, i)[k] = IF k < i THEN tabs[k] ELSE tabs[k + 1]
    BY <1>1, <2>1, WithoutOne
  <2> HIDE DEF L
  <2> PICK w : w = Matcher!RemoveAt(tabs, i)
    OBVIOUS
  <2>3. Len(w) = L - 1
    <3>1. Len(w) \in Nat /\ DOMAIN w = 1..Len(w)
      BY <2>2, LenProperties
    <3> QED BY <1>1, <2>2, <3>1
  <2> QED BY <2>2, <2>3
<1>3. tabs[i] \in Matcher!Urls
  BY <1>1, ElementOfSeq
<1> PICK w : w = Matcher!RemoveAt(tabs, i)
  OBVIOUS
<1>4. /\ tabs' \in Seq(Matcher!Urls) /\ Len(tabs') = L
      /\ \A k \in 1..(L - 1) : tabs'[k] = IF k < i THEN tabs[k] ELSE tabs[k + 1]
      /\ tabs'[L] = tabs[i]
  <2>1. /\ Append(w, tabs[i]) \in Seq(Matcher!Urls) /\ Len(Append(w, tabs[i])) = Len(w) + 1
        /\ \A k \in 1..Len(w) : Append(w, tabs[i])[k] = w[k]
        /\ Append(w, tabs[i])[Len(w) + 1] = tabs[i]
    BY <1>2, <1>3, AppendProperties
  <2>2. Len(w) = L - 1 /\ Len(w) + 1 = L
    BY <1>1, <1>2
  <2> HIDE DEF L
  <2> QED BY <2>1, <2>2, <1>2
<1> HIDE DEF L
<1>5. Reorders(f, L)
  <2>1. f \in [1..L -> 1..L]
    BY <1>1
  <2>2. ASSUME NEW k \in 1..L, NEW j \in 1..L, f[k] = f[j] PROVE k = j
    <3>1. /\ f[k] = IF k < i THEN k ELSE IF k < L THEN k + 1 ELSE i
          /\ f[j] = IF j < i THEN j ELSE IF j < L THEN j + 1 ELSE i
      OBVIOUS
    <3> HIDE DEF f
    <3> QED BY <3>1, <2>2, <1>1
  <2>3. ASSUME NEW j \in 1..L PROVE \E k \in 1..L : f[k] = j
    <3>1. CASE j < i
      BY <3>1, <1>1
    <3>2. CASE j = i
      <4>1. L \in 1..L /\ f[L] = j
        BY <3>2, <1>1
      <4> QED BY <4>1
    <3>3. CASE j > i
      <4>1. j - 1 \in 1..L /\ f[j - 1] = j
        BY <3>3, <1>1
      <4> QED BY <4>1
    <3> QED BY <3>1, <3>2, <3>3, <1>1
  <2> QED BY <2>1, <2>2, <2>3 DEF Reorders
<1>6. ASSUME NEW k \in 1..L PROVE tabs'[k] = tabs[f[k]]
  <2>1. f[k] = IF k < i THEN k ELSE IF k < L THEN k + 1 ELSE i
    OBVIOUS
  <2>2. CASE k < L
    <3>1. k \in 1..(L - 1)
      BY <2>2, <1>1
    <3>2. tabs'[k] = IF k < i THEN tabs[k] ELSE tabs[k + 1]
      BY <3>1, <1>4
    <3> HIDE DEF f
    <3> QED BY <2>1, <2>2, <3>2
  <2>3. CASE k = L
    <3>1. f[k] = i
      BY <2>1, <2>3, <1>1
    <3> HIDE DEF f
    <3> QED BY <3>1, <2>3, <1>4
  <2>4. k < L \/ k = L
    <3> HIDE DEF f
    <3> QED BY <1>1
  <2> QED BY <2>2, <2>3, <2>4
<1>7. DOMAIN tabs' = 1..L
  BY <1>4, LenProperties
<1>8. /\ matched # 0 => matched' \in 1..L /\ matched' # 0 /\ tabs'[matched'] = tabs[matched]
      /\ matched = 0 => matched' = 0
  <2> HIDE DEF f
  <2>1. CASE matched = 0
    BY <2>1, <1>1
  <2>2. CASE matched # 0
    <3>0. matched \in 1..L
      BY <2>2 DEF Matcher!MatchInv, L
    <3>3. CASE matched = i
      <4>1. matched' = L /\ L \in 1..L /\ L # 0
        BY <3>3, <1>1 DEF L
      <4> QED BY <2>2, <3>3, <4>1, <1>4
    <3>4. CASE matched > i
      <4>1. /\ matched' = matched - 1 /\ matched - 1 \in 1..(L - 1) /\ matched - 1 \in 1..L
            /\ ~(matched - 1 < i) /\ (matched - 1) + 1 = matched /\ matched - 1 # 0
        BY <3>0, <3>4, <1>1
      <4> QED BY <2>2, <4>1, <1>4
    <3>5. CASE matched < i
      <4>1. matched' = matched /\ matched \in 1..(L - 1)
        BY <3>0, <3>5, <1>1
      <4> QED BY <2>2, <3>0, <3>5, <4>1, <1>4
    <3>6. matched = i \/ matched > i \/ matched < i
      BY <3>0, <1>1
    <3> QED BY <3>3, <3>4, <3>5, <3>6
  <2> QED BY <2>1, <2>2
<1> PICK r, cs, ds, g : r = requested /\ cs = tabs /\ ds = tabs' /\ g = f
  OBVIOUS
<1> HIDE DEF f
<1>9. Reordered(cs, ds, g, L)
  BY <1>1, <1>5, <1>6, <1>7 DEF Reordered
<1>10. Matcher!MatchTabUrl(r, cs) # 0 => Matcher!MatchTabUrl(r, ds) # 0 /\ ds[Matcher!MatchTabUrl(r, ds)] = cs[Matcher!MatchTabUrl(r, cs)]
  BY <1>9, SameFound
<1>11. Matcher!MatchTabUrl(requested, tabs)' = Matcher!MatchTabUrl(r, ds) /\ Matcher!MatchTabUrl(requested, tabs) = Matcher!MatchTabUrl(r, cs)
  OBVIOUS
<1>12. matched' # 0 =>
          /\ matched' \in 1..Len(tabs')
          /\ Matcher!MatchTabUrl(requested, tabs)' # 0
          /\ tabs'[Matcher!MatchTabUrl(requested, tabs)'] = tabs'[matched']
  BY <1>4, <1>8, <1>10, <1>11 DEF Matcher!MatchInv
<1>13. Matcher!FoundAgain
  BY <1>8 DEF Matcher!FoundAgain
<1> QED BY <1>4, <1>12, <1>13 DEF Matcher!MatchInv

\* The invariant is kept, and the property holds of the step.
LEMMA MatchStep ==
    ASSUME Matcher!MatchInv, [Matcher!Next]_(Matcher!vars)
    PROVE  Matcher!MatchInv' /\ Matcher!FoundAgain
<1>1. CASE UNCHANGED Matcher!vars
  BY <1>1 DEF Matcher!vars, Matcher!MatchInv, Matcher!FoundAgain
<1> QED BY <1>1, FindStep, ReorderStep DEF Matcher!Next

-----------------------------------------------------------------------------
\* Batches and skills.
\* No tool of navigation is one that calls others.
LEMMA NavigationIsPlain == Box!Composite \cap DOMAIN Box!Navigation = {}
BY DEF Box!Navigation, Box!NavigationSteps, Box!Composite

\* A step of a skill that is found is one of navigation: the first module that
\* is asked throws at any other name.
LEMMA FoundIsNavigation ==
    ASSUME NEW tool, Box!Dispatched(tool)
    PROVE  tool \in DOMAIN Box!Navigation
<1> DEFINE finders == {i \in DOMAIN Box!Modules : Box!Modules[i].refuses \/ tool \in DOMAIN Box!Modules[i].tools}
<1>1. DOMAIN Box!Modules = 1..27 /\ Box!Modules[1] = Box!Asked(Box!Navigation)
  BY DEF Box!Modules
<1>2. Box!Modules[1].refuses /\ Box!Modules[1].tools = Box!Navigation
  BY <1>1 DEF Box!Asked
<1>3. 1 \in finders /\ finders \subseteq 1..27
  BY <1>1, <1>2
<1> HIDE DEF finders
<1>4. Box!Min(finders) = 1
  <2>1. Box!Min(finders) \in finders /\ \A y \in finders : Box!Min(finders) <= y
    <3>1. \A y \in finders : 1 <= y
      BY <1>3
    <3>2. \E x \in finders : \A y \in finders : x <= y
      BY <1>3, <3>1
    <3> QED BY <3>2, Zenon DEF Box!Min
  <2>2. PICK m : m = Box!Min(finders)
    OBVIOUS
  <2>3. m \in 1..27 /\ m <= 1
    BY <1>3, <2>1, <2>2
  <2> QED BY <2>2, <2>3
<1>5. tool \in DOMAIN Box!Modules[Box!Min(finders)].tools
  BY DEF Box!Dispatched, finders
<1> QED BY <1>2, <1>4, <1>5

\* Sequences of anything.

Listed(s) == s \in Seq(Box!ToSet(s))

LEMMA ListedLength ==
    ASSUME NEW s, Listed(s)
    PROVE  /\ Len(s) \in Nat /\ DOMAIN s = 1..Len(s)
           /\ (s = <<>> <=> Len(s) = 0)
<1>1. Len(s) \in Nat /\ DOMAIN s = 1..Len(s)
  BY LenProperties DEF Listed
<1>2. s # <<>> => Len(s) # 0
  BY EmptySeq DEF Listed
<1>3. s = <<>> => Len(s) = 0
  BY EmptySeq
<1> QED BY <1>1, <1>2, <1>3

LEMMA ListedByOwn ==
    ASSUME NEW S, NEW s \in Seq(S)
    PROVE  Listed(s)
<1>1. Len(s) \in Nat /\ s \in [1..Len(s) -> S] /\ DOMAIN s = 1..Len(s)
  BY LenProperties
<1>2. s \in [1..Len(s) -> Box!ToSet(s)]
  BY <1>1 DEF Box!ToSet
<1> QED BY <1>1, <1>2, SeqDef DEF Listed

LEMMA NoneListed == Listed(<<>>)
BY EmptySeq DEF Listed

LEMMA OneListed ==
    ASSUME NEW x
    PROVE  Listed(<<x>>) /\ Len(<<x>>) = 1 /\ <<x>>[1] = x
<1>1. <<x>> \in Seq({x})
  OBVIOUS
<1> QED BY <1>1, ListedByOwn

Put(x, s) == <<x>> \o s

LEMMA OnTop ==
    ASSUME NEW s, Listed(s), NEW x, NEW q, q = Put(x, s)
    PROVE  /\ Listed(q) /\ Len(q) = Len(s) + 1 /\ q[1] = x
           /\ \A k \in 1..Len(s) : q[k + 1] = s[k]
<1> DEFINE S == Box!ToSet(s) \cup {x}
<1>1. s \in Seq(S) /\ <<x>> \in Seq(S)
  <2>1. Len(s) \in Nat /\ s \in [1..Len(s) -> Box!ToSet(s)]
    BY LenProperties DEF Listed
  <2>2. s \in [1..Len(s) -> S]
    BY <2>1
  <2>3. s \in Seq(S)
    BY <2>1, <2>2, SeqDef
  <2> QED BY <2>3
<1>2. Len(s) \in Nat /\ Len(<<x>>) = 1 /\ <<x>>[1] = x
  BY ListedLength, OneListed
<1> HIDE DEF S
<1>3. /\ q \in Seq(S) /\ Len(q) = 1 + Len(s)
      /\ \A i \in 1..(1 + Len(s)) : q[i] = IF i <= 1 THEN <<x>>[i] ELSE s[i - 1]
  BY <1>1, <1>2, ConcatProperties DEF Put
<1>4. ASSUME NEW k \in 1..Len(s) PROVE q[k + 1] = s[k]
  <2>1. k + 1 \in 1..(1 + Len(s)) /\ ~(k + 1 <= 1) /\ (k + 1) - 1 = k
    BY <1>2
  <2> QED BY <1>3, <2>1
<1>5. q[1] = x
  <2>1. 1 \in 1..(1 + Len(s)) /\ 1 <= 1
    BY <1>2
  <2> QED BY <1>2, <1>3, <2>1
<1>6. Listed(q)
  BY <1>3, ListedByOwn
<1> QED BY <1>2, <1>3, <1>4, <1>5, <1>6

LEMMA Rested ==
    ASSUME NEW s, Listed(s), s # <<>>
    PROVE  /\ Listed(Tail(s)) /\ Len(Tail(s)) = Len(s) - 1 /\ Len(s) \in Nat \ {0}
           /\ \A k \in 1..(Len(s) - 1) : Tail(s)[k] = s[k + 1]
           /\ Head(s) = s[1] /\ Tail(s) \in Seq(Box!ToSet(s))
<1>1. Tail(s) \in Seq(Box!ToSet(s)) /\ Len(Tail(s)) = Len(s) - 1
      /\ \A k \in 1..Len(Tail(s)) : Tail(s)[k] = s[k + 1]
  BY HeadTailProperties DEF Listed
<1>2. Len(s) \in Nat \ {0}
  BY ListedLength
<1>3. Head(s) = s[1]
  BY SMT DEF Listed, Box!ToSet
<1> QED BY <1>1, <1>2, <1>3, ListedByOwn

\* The first one replaced.
LEMMA ToppedBy ==
    ASSUME NEW s, Listed(s), s # <<>>, NEW x, NEW q, q = Put(x, Tail(s))
    PROVE  /\ Listed(q) /\ Len(q) = Len(s) /\ q[1] = x /\ q # <<>>
           /\ \A k \in 2..Len(s) : q[k] = s[k]
<1>1. Listed(Tail(s)) /\ Len(Tail(s)) = Len(s) - 1 /\ Len(s) \in Nat \ {0}
      /\ \A k \in 1..(Len(s) - 1) : Tail(s)[k] = s[k + 1]
  BY Rested
<1>2. Listed(q) /\ Len(q) = Len(Tail(s)) + 1 /\ q[1] = x
      /\ \A k \in 1..Len(Tail(s)) : q[k + 1] = Tail(s)[k]
  <2>1. PICK t : t = Tail(s)
    OBVIOUS
  <2>2. Listed(t) /\ q = Put(x, t)
    BY <1>1, <2>1
  <2>3. Listed(q) /\ Len(q) = Len(t) + 1 /\ q[1] = x /\ \A k \in 1..Len(t) : q[k + 1] = t[k]
    BY <2>2, OnTop
  <2> QED BY <2>1, <2>3
<1>3. Len(q) = Len(s) /\ q # <<>>
  BY <1>1, <1>2, ListedLength
<1>4. ASSUME NEW k \in 2..Len(s) PROVE q[k] = s[k]
  <2>1. k - 1 \in 1..(Len(s) - 1) /\ (k - 1) + 1 = k
    BY <1>1
  <2>2. q[(k - 1) + 1] = Tail(s)[k - 1] /\ Tail(s)[k - 1] = s[(k - 1) + 1]
    BY <1>1, <1>2, <2>1
  <2> QED BY <2>1, <2>2
<1> QED BY <1>2, <1>3, <1>4

LEMMA Longer ==
    ASSUME NEW s, Listed(s), NEW x
    PROVE  /\ Listed(Append(s, x)) /\ Len(Append(s, x)) = Len(s) + 1 /\ Len(s) \in Nat
           /\ \A k \in 1..Len(s) : Append(s, x)[k] = s[k]
           /\ Append(s, x)[Len(s) + 1] = x
<1> DEFINE S == Box!ToSet(s) \cup {x}
<1>1. s \in Seq(S) /\ x \in S /\ Len(s) \in Nat
  <2>1. Len(s) \in Nat /\ s \in [1..Len(s) -> Box!ToSet(s)]
    BY LenProperties DEF Listed
  <2>2. s \in [1..Len(s) -> S]
    BY <2>1
  <2> QED BY <2>1, <2>2, SeqDef
<1> HIDE DEF S
<1>2. /\ Append(s, x) \in Seq(S) /\ Len(Append(s, x)) = Len(s) + 1
      /\ \A k \in 1..Len(s) : Append(s, x)[k] = s[k]
      /\ Append(s, x)[Len(s) + 1] = x
  BY <1>1, AppendProperties
<1> QED BY <1>1, <1>2, ListedByOwn

\* The inductive invariant. A call has what is left of its list after m of its
\* members, and a report for each one that is over.

Follows(f, m) ==
    /\ Listed(f.todo) /\ m \in Nat /\ Len(f.todo) + m = Len(f.call.parts)
    /\ \A k \in 1..Len(f.todo) : f.todo[k] = f.call.parts[m + k]

ReportsMatch(f) ==
    \A k \in 1..Len(f.done) : f.done[k].call = f.call.parts[k]

\* Only the last one failed, and only if none runs since.
FailedLast(f, busy) ==
    \A k \in 1..Len(f.done) : Box!Failed(f.done[k]) => k = Len(f.done) /\ busy = 0

Straight(parts) == \A i \in DOMAIN parts : parts[i].tool # "_loop"

BatchKept(f, busy) ==
    f.call.tool = "safari_batch" /\ Box!WellFormed(f.call.parts) =>
        /\ Follows(f, Len(f.done) + busy) /\ ReportsMatch(f)
        /\ f.call.stop => FailedLast(f, busy)

SkillKept(f, busy) ==
    f.call.tool = "safari_run_skill" /\ f.call.parts # None =>
        /\ FailedLast(f, busy)
        /\ \A k \in 1..Len(f.done) : Box!Failed(f.done[k]) \/ f.done[k].call.tool \in DOMAIN Box!Navigation
        /\ Straight(f.call.parts) => Follows(f, Len(f.done) + busy) /\ ReportsMatch(f)

\* What a call is made of is in order.
Sound(request) ==
    /\ request.tool \in Box!Composite => Box!WellMade(request)
    /\ request.tool = "safari_batch" =>
          /\ request.parts # None
          /\ \A i \in DOMAIN request.parts :
                 request.parts[i].tool = "safari_run_skill" => Box!WellMade(request.parts[i])

ToldRight(r) ==
    /\ r.call.tool = "safari_batch" => Box!BatchTold(r)
    /\ r.call.tool = "safari_run_skill" => Box!SkillTold(r)

FrameFields == {"call", "engine", "left", "todo", "done", "hollow", "missed", "faulted"}

FrameKept(f, busy) ==
    /\ DOMAIN f = FrameFields /\ Sound(f.call) /\ Listed(f.done)
    /\ \A k \in 1..Len(f.done) : ToldRight(f.done[k])
    /\ BatchKept(f, busy) /\ SkillKept(f, busy)

\* The call above is the one that f is at.
Awaits(f, request) ==
    /\ f.call.tool \in Box!Composite
    /\ f.call.tool = "safari_batch" =>
          Box!WellFormed(f.call.parts) /\ request = f.call.parts[Len(f.done) + 1]
    /\ f.call.tool = "safari_run_skill" =>
          /\ f.call.parts # None
          /\ Straight(f.call.parts) => request = f.call.parts[Len(f.done) + 1]

\* Only tools of navigation are found for a skill.
Finds(f, request) == f.call.tool = "safari_run_skill" => request.tool \in DOMAIN Box!Navigation

StackKept(s) ==
    /\ Listed(s)
    /\ s # <<>> => FrameKept(s[1], 0)
    /\ \A i \in 2..Len(s) : FrameKept(s[i], 1) /\ Awaits(s[i], s[i - 1].call) /\ Finds(s[i], s[i - 1].call)

BoxInv == StackKept(stack) /\ (toolAnswer # None => ToldRight(toolAnswer))

\* Frames.

LEMMA NewFrame ==
    ASSUME NEW request, Sound(request), NEW e, NEW l, NEW f, f = Box!Frame(request, e, l)
    PROVE  FrameKept(f, 0) /\ f.call = request
<1>1. DOMAIN f = FrameFields /\ f.call = request /\ f.todo = request.parts /\ f.done = <<>>
  BY DEF Box!Frame, FrameFields
<1>2. Listed(f.done) /\ Len(f.done) = 0
  BY <1>1, NoneListed, ListedLength
<1>3. ASSUME f.call.tool \in Box!Composite, f.call.parts # None PROVE Follows(f, Len(f.done) + 0)
  <2>1. Listed(f.todo)
    BY <1>1, <1>3 DEF Sound, Box!WellMade, Listed
  <2>2. Len(f.todo) \in Nat
    BY <2>1, ListedLength
  <2> QED BY <1>1, <1>2, <2>1, <2>2 DEF Follows
<1>4. BatchKept(f, 0)
  BY <1>1, <1>2, <1>3 DEF BatchKept, ReportsMatch, FailedLast, Box!Composite, Sound
<1>5. SkillKept(f, 0)
  BY <1>1, <1>2, <1>3 DEF SkillKept, ReportsMatch, FailedLast, Box!Composite
<1> QED BY <1>1, <1>2, <1>4, <1>5 DEF FrameKept

\* A tool that calls no other goes on.
LEMMA SameFrame ==
    ASSUME NEW f, FrameKept(f, 0), f.call.tool \notin Box!Composite,
           NEW g, DOMAIN g = FrameFields, g.call = f.call, g.done = f.done
    PROVE  FrameKept(g, 0)
BY DEF FrameKept, BatchKept, SkillKept, Box!Composite

\* The next member of the list is called.
LEMMA Started ==
    ASSUME NEW f, FrameKept(f, 0), f.todo # <<>>,
           \/ /\ f.call.tool = "safari_batch" /\ Box!WellFormed(f.call.parts)
              /\ ~(f.call.stop /\ Box!LastFailed(f))
           \/ f.call.tool = "safari_run_skill" /\ f.call.parts # None /\ ~Box!LastFailed(f),
           NEW g, g = [f EXCEPT !.todo = Tail(@)]
    PROVE  FrameKept(g, 1) /\ g.call = f.call /\ Awaits(g, Head(f.todo))
<1>1. DOMAIN g = FrameFields /\ g.call = f.call /\ g.done = f.done /\ g.todo = Tail(f.todo)
  BY DEF FrameKept, FrameFields
<1>2. Listed(f.done) /\ Len(f.done) \in Nat /\ (f.done = <<>> <=> Len(f.done) = 0)
  BY ListedLength DEF FrameKept
<1>3. ASSUME Follows(f, Len(f.done) + 0)
      PROVE  Follows(g, Len(g.done) + 1) /\ Head(f.todo) = f.call.parts[Len(f.done) + 1]
  <2>1. /\ Listed(f.todo) /\ Len(f.todo) + Len(f.done) = Len(f.call.parts)
        /\ \A k \in 1..Len(f.todo) : f.todo[k] = f.call.parts[Len(f.done) + k]
    <3>1. Len(f.done) + 0 = Len(f.done)
      BY <1>2
    <3> QED BY <1>3, <3>1, Zenon DEF Follows
  <2>2. /\ Listed(g.todo) /\ Len(g.todo) = Len(f.todo) - 1 /\ Len(f.todo) \in Nat \ {0}
        /\ \A k \in 1..(Len(f.todo) - 1) : g.todo[k] = f.todo[k + 1]
        /\ Head(f.todo) = f.todo[1]
    BY <1>1, <2>1, Rested
  <2>3. ASSUME NEW k \in 1..Len(g.todo) PROVE g.todo[k] = g.call.parts[Len(g.done) + 1 + k]
    <3>1. k + 1 \in 1..Len(f.todo) /\ k \in 1..(Len(f.todo) - 1)
          /\ Len(f.done) + (k + 1) = Len(f.done) + 1 + k
      BY <1>2, <2>2
    <3> QED BY <1>1, <2>1, <2>2, <3>1
  <2>4. Len(g.todo) + (Len(g.done) + 1) = Len(g.call.parts) /\ Len(g.done) + 1 \in Nat
    <3>1. \A a, b \in Nat : (a - 1) + (b + 1) = a + b /\ b + 1 \in Nat
      OBVIOUS
    <3>2. Len(f.todo) - 1 + (Len(f.done) + 1) = Len(f.todo) + Len(f.done) /\ Len(f.done) + 1 \in Nat
      BY <1>2, <2>2, <3>1
    <3> QED BY <1>1, <2>1, <2>2, <3>2, Zenon
  <2>5. Head(f.todo) = f.call.parts[Len(f.done) + 1]
    BY <2>1, <2>2
  <2> QED BY <2>2, <2>3, <2>4, <2>5 DEF Follows
<1>4. ASSUME FailedLast(f, 0), ~Box!LastFailed(f) PROVE FailedLast(g, 1)
  <2>1. \A k \in 1..Len(f.done) : ~Box!Failed(f.done[k])
    BY <1>2, <1>4 DEF FailedLast, Box!LastFailed, Box!Last
  <2> QED BY <1>1, <2>1 DEF FailedLast
<1>5. ReportsMatch(f) => ReportsMatch(g)
  BY <1>1 DEF ReportsMatch
<1>6. CASE f.call.tool = "safari_batch" /\ Box!WellFormed(f.call.parts) /\ ~(f.call.stop /\ Box!LastFailed(f))
  <2>1. Follows(f, Len(f.done) + 0) /\ ReportsMatch(f) /\ (f.call.stop => FailedLast(f, 0))
    BY <1>6 DEF FrameKept, BatchKept
  <2>2. BatchKept(g, 1)
    BY <1>1, <1>3, <1>4, <1>5, <1>6, <2>1 DEF BatchKept
  <2>3. SkillKept(g, 1) /\ Awaits(g, Head(f.todo))
    BY <1>1, <1>3, <1>6, <2>1 DEF SkillKept, Awaits, Box!Composite
  <2> QED BY <1>1, <2>2, <2>3 DEF FrameKept
<1>7. CASE f.call.tool = "safari_run_skill" /\ f.call.parts # None /\ ~Box!LastFailed(f)
  <2>1. /\ FailedLast(f, 0)
        /\ \A k \in 1..Len(f.done) : Box!Failed(f.done[k]) \/ f.done[k].call.tool \in DOMAIN Box!Navigation
        /\ Straight(f.call.parts) => Follows(f, Len(f.done) + 0) /\ ReportsMatch(f)
    BY <1>7 DEF FrameKept, SkillKept
  <2>2. SkillKept(g, 1)
    BY <1>1, <1>3, <1>4, <1>5, <1>7, <2>1 DEF SkillKept
  <2>3. BatchKept(g, 1) /\ Awaits(g, Head(f.todo))
    BY <1>1, <1>3, <1>7, <2>1 DEF BatchKept, Awaits, Box!Composite
  <2> QED BY <1>1, <2>2, <2>3 DEF FrameKept
<1> QED BY <1>6, <1>7

\* The call that f waits for is over.
LEMMA Reported ==
    ASSUME NEW f, FrameKept(f, 1), NEW r, Awaits(f, r.call), ToldRight(r),
           Box!Failed(r) \/ Finds(f, r.call),
           NEW g, g = [f EXCEPT !.done = Append(@, r)]
    PROVE  FrameKept(g, 0) /\ g.call = f.call
<1>1. DOMAIN g = FrameFields /\ g.call = f.call /\ g.todo = f.todo /\ g.done = Append(f.done, r)
  BY DEF FrameKept, FrameFields
<1>2. /\ Listed(g.done) /\ Len(f.done) \in Nat /\ Len(g.done) = Len(f.done) + 1
      /\ \A k \in 1..Len(f.done) : g.done[k] = f.done[k]
      /\ g.done[Len(g.done)] = r
  BY <1>1, Longer DEF FrameKept
<1>3. \A k \in 1..Len(g.done) : k = Len(g.done) \/ k \in 1..Len(f.done)
  BY <1>2
<1>4. \A k \in 1..Len(g.done) : ToldRight(g.done[k])
  BY <1>2, <1>3 DEF FrameKept
<1>5. Follows(f, Len(f.done) + 1) => Follows(g, Len(g.done) + 0)
  <2>1. Len(g.done) + 0 = Len(f.done) + 1
    BY <1>2
  <2> QED BY <1>1, <2>1 DEF Follows
<1>6. ASSUME ReportsMatch(f), r.call = f.call.parts[Len(f.done) + 1] PROVE ReportsMatch(g)
  BY <1>1, <1>2, <1>3, <1>6 DEF ReportsMatch
<1>7. FailedLast(f, 1) => FailedLast(g, 0)
  BY <1>2, <1>3 DEF FailedLast
<1>8. BatchKept(g, 0)
  BY <1>1, <1>5, <1>6, <1>7 DEF FrameKept, BatchKept, Awaits
<1>9. SkillKept(g, 0)
  <2> SUFFICES ASSUME f.call.tool = "safari_run_skill", f.call.parts # None PROVE SkillKept(g, 0)
    BY <1>1 DEF SkillKept
  <2>1. /\ FailedLast(f, 1)
        /\ \A k \in 1..Len(f.done) : Box!Failed(f.done[k]) \/ f.done[k].call.tool \in DOMAIN Box!Navigation
        /\ Straight(f.call.parts) => Follows(f, Len(f.done) + 1) /\ ReportsMatch(f)
    BY DEF FrameKept, SkillKept
  <2>2. \A k \in 1..Len(g.done) : Box!Failed(g.done[k]) \/ g.done[k].call.tool \in DOMAIN Box!Navigation
    BY <1>2, <1>3, <2>1 DEF Finds
  <2>3. Straight(g.call.parts) => Follows(g, Len(g.done) + 0) /\ ReportsMatch(g)
    BY <1>1, <1>5, <1>6, <2>1 DEF Awaits
  <2> QED BY <1>7, <2>1, <2>2, <2>3 DEF SkillKept
<1> QED BY <1>1, <1>2, <1>4, <1>8, <1>9 DEF FrameKept

\* The stack.

Held(s, i) == FrameKept(s[i], 1) /\ Awaits(s[i], s[i - 1].call) /\ Finds(s[i], s[i - 1].call)

\* These calls run, and the innermost of them is at call.
Waiting(s, request) ==
    /\ Listed(s)
    /\ s # <<>> => FrameKept(s[1], 1) /\ Awaits(s[1], request)
    /\ \A i \in 2..Len(s) : Held(s, i)

LEMMA Below ==
    ASSUME NEW s, StackKept(s), s # <<>>, NEW b, b = Tail(s)
    PROVE  Waiting(b, s[1].call) /\ (b # <<>> => Finds(b[1], s[1].call))
<1>1. /\ Listed(s) /\ Listed(b) /\ Len(b) = Len(s) - 1 /\ Len(s) \in Nat \ {0}
      /\ \A k \in 1..(Len(s) - 1) : b[k] = s[k + 1]
  BY Rested DEF StackKept
<1>2. \A i \in 2..Len(s) : Held(s, i)
  BY DEF StackKept, Held
<1>3. ASSUME b # <<>> PROVE FrameKept(b[1], 1) /\ Awaits(b[1], s[1].call) /\ Finds(b[1], s[1].call)
  <2>1. Len(b) \in Nat \ {0}
    BY <1>1, <1>3, ListedLength
  <2>2. 1 \in 1..(Len(s) - 1) /\ 2 \in 2..Len(s) /\ b[1] = s[2]
    BY <1>1, <2>1
  <2>3. Held(s, 2)
    BY <1>2, <2>2
  <2> QED BY <2>2, <2>3 DEF Held
<1>4. ASSUME NEW i \in 2..Len(b) PROVE Held(b, i)
  <2>1. /\ i \in 1..(Len(s) - 1) /\ i - 1 \in 1..(Len(s) - 1) /\ i + 1 \in 2..Len(s)
        /\ (i - 1) + 1 = (i + 1) - 1
    BY <1>1
  <2>2. Held(s, i + 1) /\ b[i] = s[i + 1] /\ b[i - 1] = s[(i - 1) + 1]
    BY <1>1, <1>2, <2>1
  <2> QED BY <2>1, <2>2 DEF Held
<1> QED BY <1>1, <1>3, <1>4 DEF Waiting

LEMMA Called ==
    ASSUME NEW b, NEW h, Waiting(b, h.call), b # <<>> => Finds(b[1], h.call),
           FrameKept(h, 0), NEW q, q = Put(h, b)
    PROVE  StackKept(q)
<1>1. /\ Listed(b) /\ Listed(q) /\ Len(q) = Len(b) + 1 /\ q[1] = h
      /\ \A k \in 1..Len(b) : q[k + 1] = b[k]
  BY OnTop DEF Waiting
<1>2. Len(b) \in Nat /\ (b = <<>> <=> Len(b) = 0)
  BY <1>1, ListedLength
<1>3. ASSUME NEW i \in 2..Len(q) PROVE Held(q, i)
  <2>1. CASE i = 2
    <3>1. b # <<>> /\ 1 \in 1..Len(b) /\ q[1 + 1] = b[1]
      BY <1>1, <1>2, <1>3, <2>1
    <3> QED BY <1>1, <2>1, <3>1 DEF Waiting, Held
  <2>2. CASE i # 2
    <3>1. i - 1 \in 2..Len(b) /\ i - 1 \in 1..Len(b) /\ (i - 1) - 1 \in 1..Len(b)
          /\ (i - 1) + 1 = i /\ ((i - 1) - 1) + 1 = i - 1
      BY <1>1, <1>2, <1>3, <2>2
    <3>2. Held(b, i - 1) /\ q[i] = b[i - 1] /\ q[i - 1] = b[(i - 1) - 1]
      BY <1>1, <3>1 DEF Waiting
    <3> QED BY <3>2 DEF Held
  <2> QED BY <2>1, <2>2
<1> QED BY <1>1, <1>3 DEF StackKept, Held

\* A frame in the place of the innermost one, with no call above it or with one.
LEMMA Replaced ==
    ASSUME NEW s, StackKept(s), s # <<>>, NEW g, g.call = s[1].call, NEW q, q = Put(g, Tail(s))
    PROVE  /\ FrameKept(g, 0) => StackKept(q)
           /\ \A request : FrameKept(g, 1) /\ Awaits(g, request) => Waiting(q, request)
           /\ q # <<>> /\ q[1] = g
<1>1. /\ Listed(s) /\ Listed(q) /\ Len(q) = Len(s) /\ q[1] = g /\ q # <<>>
      /\ \A k \in 2..Len(s) : q[k] = s[k]
  BY ToppedBy DEF StackKept
<1>2. Len(s) \in Nat
  BY <1>1, ListedLength
<1>3. ASSUME NEW i \in 2..Len(q) PROVE Held(q, i)
  <2>1. Held(s, i) /\ q[i] = s[i]
    BY <1>1 DEF StackKept, Held
  <2>2. q[i - 1].call = s[i - 1].call
    <3>1. CASE i = 2
      BY <1>1, <3>1
    <3>2. CASE i # 2
      <4>1. i - 1 \in 2..Len(s)
        BY <1>1, <1>2, <3>2
      <4> QED BY <1>1, <4>1
    <3> QED BY <3>1, <3>2
  <2> QED BY <2>1, <2>2 DEF Held
<1> QED BY <1>1, <1>3 DEF StackKept, Waiting, Held

\* A report comes to the call that waits for it, or to the client.
LEMMA Returned ==
    ASSUME NEW b, NEW r, Waiting(b, r.call), b # <<>> => Box!Failed(r) \/ Finds(b[1], r.call),
           ToldRight(r), toolAnswer # None => ToldRight(toolAnswer), Box!Return(r, b)
    PROVE  BoxInv'
<1>1. CASE b = <<>>
  <2>1. stack' = <<>> /\ toolAnswer' = r
    BY <1>1 DEF Box!Return
  <2>2. StackKept(<<>>)
    <3>1. Listed(<<>>) /\ Len(<<>>) = 0
      BY NoneListed, ListedLength
    <3> QED BY <3>1 DEF StackKept
  <2> QED BY <2>1, <2>2 DEF BoxInv
<1>2. CASE b # <<>>
  <2> DEFINE g == [Head(b) EXCEPT !.done = Append(@, r)]
  <2>1. stack' = Put(g, Tail(b)) /\ toolAnswer' = toolAnswer
    BY <1>2 DEF Box!Return, Put
  <2>2. /\ Listed(b) /\ Head(b) = b[1] /\ FrameKept(b[1], 1) /\ Awaits(b[1], r.call)
    BY <1>2, Rested DEF Waiting
  <2>3. FrameKept(g, 0) /\ g.call = b[1].call
    BY <1>2, <2>2, Reported
  <2> HIDE DEF g
  <2>4. PICK q : q = Put(g, Tail(b))
    OBVIOUS
  <2>5. /\ Listed(q) /\ Len(q) = Len(b) /\ q[1] = g /\ q # <<>>
        /\ \A k \in 2..Len(b) : q[k] = b[k]
    BY <1>2, <2>2, <2>4, ToppedBy
  <2>6. Len(b) \in Nat
    BY <2>2, ListedLength
  <2>7. ASSUME NEW i \in 2..Len(q) PROVE Held(q, i)
    <3>1. Held(b, i) /\ q[i] = b[i]
      BY <2>5 DEF Waiting
    <3>2. q[i - 1].call = b[i - 1].call
      <4>1. CASE i = 2
        BY <2>3, <2>5, <4>1
      <4>2. CASE i # 2
        <5>1. i - 1 \in 2..Len(b)
          BY <2>5, <2>6, <4>2
        <5> QED BY <2>5, <5>1
      <4> QED BY <4>1, <4>2
    <3> QED BY <3>1, <3>2 DEF Held
  <2>8. StackKept(q)
    BY <2>3, <2>5, <2>7 DEF StackKept, Held
  <2> QED BY <2>1, <2>4, <2>8 DEF BoxInv
<1> QED BY <1>1, <1>2

\* Steps.

LEMMA InnermostKept ==
    ASSUME BoxInv, stack # <<>>
    PROVE  Box!Innermost = stack[1] /\ FrameKept(Box!Innermost, 0) /\ StackKept(stack)
<1>1. StackKept(stack) /\ Listed(stack)
  BY DEF BoxInv, StackKept
<1>2. Head(stack) = stack[1]
  BY <1>1, Rested
<1> QED BY <1>1, <1>2 DEF StackKept, Box!Innermost

LEMMA Goes ==
    ASSUME BoxInv, stack # <<>>, NEW g, Box!GoOn(g), g.call = Box!Innermost.call, FrameKept(g, 0)
    PROVE  BoxInv'
<1>1. PICK q : q = Put(g, Tail(stack))
  OBVIOUS
<1>2. StackKept(q)
  BY <1>1, InnermostKept, Replaced
<1> QED BY <1>1, <1>2 DEF BoxInv, Box!GoOn, Put

LEMMA ReportsAndEnds ==
    ASSUME BoxInv, stack # <<>>, NEW f, NEW says, f.call = Box!Innermost.call,
           ToldRight(Box!Report(f, says)), Box!End(f, says)
    PROVE  BoxInv'
<1>1. PICK r : r = Box!Report(f, says)
  OBVIOUS
<1>2. r.call = stack[1].call
  BY <1>1, InnermostKept DEF Box!Report
<1>3. PICK b : b = Tail(stack)
  OBVIOUS
<1>4. Waiting(b, r.call) /\ (b # <<>> => Finds(b[1], r.call))
  BY <1>2, <1>3, InnermostKept, Below
<1>5. ToldRight(r) /\ Box!Return(r, b)
  BY <1>1, <1>3 DEF Box!End
<1> QED BY <1>4, <1>5, Returned DEF BoxInv

\* A report that says something else than "value" claims nothing.
LEMMA OtherwiseRight ==
    ASSUME NEW f, NEW says, says # "value"
    PROVE  ToldRight(Box!Report(f, says))
BY DEF ToldRight, Box!BatchTold, Box!SkillTold, Box!Report

LEMMA Executed ==
    ASSUME NEW request, NEW b, Waiting(b, request), b # <<>> => b[1].call.tool # "safari_run_skill",
           Sound(request), toolAnswer # None => ToldRight(toolAnswer), Box!Execute(request, b)
    PROVE  BoxInv'
<1>1. b # <<>> => Finds(b[1], request)
  BY DEF Finds
<1>2. ASSUME NEW says \in {"refused", "unavailable"}, Box!Return(Box!Report(Box!Unstarted(request), says), b)
      PROVE  BoxInv'
  <2>1. PICK r : r = Box!Report(Box!Unstarted(request), says)
    OBVIOUS
  <2>2. r.call = request
    BY <2>1 DEF Box!Report, Box!Unstarted, Box!Frame
  <2>3. ToldRight(r) /\ Box!Return(r, b)
    BY <1>2, <2>1, OtherwiseRight
  <2> QED BY <1>1, <2>2, <2>3, Returned
<1>3. ASSUME NEW e, NEW l, stack' = <<Box!Frame(request, e, l)>> \o b, UNCHANGED toolAnswer
      PROVE  BoxInv'
  <2>1. PICK h : h = Box!Frame(request, e, l)
    OBVIOUS
  <2>2. FrameKept(h, 0) /\ h.call = request
    BY <2>1, NewFrame
  <2>3. PICK q : q = Put(h, b)
    OBVIOUS
  <2>4. StackKept(q)
    BY <1>1, <2>2, <2>3, Called
  <2>5. stack' = q
    BY <1>3, <2>1, <2>3 DEF Put
  <2> QED BY <1>3, <2>4, <2>5 DEF BoxInv
<1> QED BY <1>2, <1>3 DEF Box!Execute

LEMMA StepDispatched ==
    ASSUME NEW request, NEW b, Waiting(b, request), toolAnswer # None => ToldRight(toolAnswer), Box!Dispatch(request, b)
    PROVE  BoxInv'
<1>1. CASE Box!Dispatched(request.tool)
  <2>1. request.tool \in DOMAIN Box!Navigation /\ request.tool \notin Box!Composite
    BY <1>1, FoundIsNavigation, NavigationIsPlain
  <2>2. Sound(request) /\ (b # <<>> => Finds(b[1], request))
    BY <2>1 DEF Sound, Finds, Box!Composite
  <2>3. PICK h : h = Box!Frame(request, "applescript", Box!Tools[request.tool].steps)
    OBVIOUS
  <2>4. FrameKept(h, 0) /\ h.call = request
    BY <2>2, <2>3, NewFrame
  <2>5. PICK q : q = Put(h, b)
    OBVIOUS
  <2>6. StackKept(q)
    BY <2>2, <2>4, <2>5, Called
  <2>7. stack' = q /\ toolAnswer' = toolAnswer
    BY <1>1, <2>3, <2>5 DEF Box!Dispatch, Put
  <2> QED BY <2>6, <2>7 DEF BoxInv
<1>2. CASE ~Box!Dispatched(request.tool)
  <2>1. PICK r : r = Box!Report(Box!Unstarted(request), "error")
    OBVIOUS
  <2>2. r.call = request /\ Box!Failed(r)
    BY <2>1 DEF Box!Report, Box!Unstarted, Box!Frame, Box!Failed
  <2>3. ToldRight(r) /\ Box!Return(r, b)
    BY <1>2, <2>1, OtherwiseRight DEF Box!Dispatch
  <2> QED BY <2>2, <2>3, Returned
<1> QED BY <1>1, <1>2

\* What a tool that calls no other does.
LEMMA ToolKeeps ==
    ASSUME BoxInv, Box!IsTool,
           \/ \E g : /\ Box!GoOn(g) /\ DOMAIN g = FrameFields
                     /\ g.call = Box!Innermost.call /\ g.done = Box!Innermost.done
           \/ \E g, says : Box!End(g, says) /\ g.call = Box!Innermost.call
    PROVE  BoxInv'
<1>1. FrameKept(Box!Innermost, 0) /\ Box!Innermost.call.tool \notin Box!Composite /\ stack # <<>>
  BY InnermostKept DEF Box!IsTool
<1>2. ASSUME NEW g, Box!GoOn(g), DOMAIN g = FrameFields, g.call = Box!Innermost.call, g.done = Box!Innermost.done
      PROVE  BoxInv'
  BY <1>1, <1>2, SameFrame, Goes
<1>3. ASSUME NEW g, NEW says, Box!End(g, says), g.call = Box!Innermost.call
      PROVE  BoxInv'
  <2>1. ToldRight(Box!Report(g, says))
    BY <1>1, <1>3 DEF ToldRight, Box!Report, Box!Composite
  <2> QED BY <1>1, <1>3, <2>1, ReportsAndEnds
<1> QED BY <1>2, <1>3

LEMMA Sums ==
    ASSUME NEW a \in Nat, NEW b \in Nat, NEW c, a + b = c
    PROVE  b <= c /\ (a # 0 => b + 1 \in 1..c) /\ (b < c => a # 0)
OBVIOUS

LEMMA BatchNextKeeps == BoxInv /\ Box!BatchNext => BoxInv'
<1> SUFFICES ASSUME BoxInv, Box!BatchNext PROVE BoxInv'
  OBVIOUS
<1>1. PICK f : f = Box!Innermost
  OBVIOUS
<1>2. /\ stack # <<>> /\ f = stack[1] /\ StackKept(stack) /\ FrameKept(f, 0)
      /\ f.call.tool = "safari_batch" /\ Box!WellFormed(f.call.parts) /\ f.todo # <<>>
      /\ ~(f.call.stop /\ Box!LastFailed(f))
  BY <1>1, InnermostKept DEF Box!BatchNext, Box!Runs, Box!Stops
<1>3. PICK g : g = [f EXCEPT !.todo = Tail(@)]
  OBVIOUS
<1>4. FrameKept(g, 1) /\ g.call = f.call /\ Awaits(g, Head(f.todo))
  BY <1>2, <1>3, Started
<1>5. PICK b : b = Put(g, Tail(stack))
  OBVIOUS
<1>6. Waiting(b, Head(f.todo)) /\ b[1] = g
  BY <1>2, <1>4, <1>5, Replaced
<1>7. Sound(Head(f.todo))
  <2>1. PICK n : n = Len(f.done) + 1
    OBVIOUS
  <2>2. /\ Head(f.todo) = f.call.parts[n] /\ Sound(f.call)
        /\ Follows(f, Len(f.done) + 0) /\ Len(f.done) \in Nat
    <3>1. g.done = f.done
      BY <1>2, <1>3 DEF FrameKept, FrameFields
    <3> QED BY <1>2, <1>4, <2>1, <3>1, ListedLength DEF Awaits, Box!Composite, FrameKept, BatchKept
  <2>3. n \in 1..Len(f.call.parts)
    <3>1. Len(f.done) + 0 = Len(f.done)
      BY <2>2
    <3>2. Listed(f.todo) /\ Len(f.todo) + Len(f.done) = Len(f.call.parts)
      BY <2>2, <3>1, Zenon DEF Follows
    <3>3. Len(f.todo) \in Nat /\ Len(f.todo) # 0
      BY <1>2, <3>2, ListedLength
    <3> QED BY <2>1, <2>2, <3>2, <3>3, Sums, Zenon
  <2>4. DOMAIN f.call.parts = 1..Len(f.call.parts)
    <3>1. Listed(f.call.parts)
      BY <1>2, <2>2 DEF Sound, Box!WellMade, Box!Composite, Listed
    <3> QED BY <3>1, ListedLength
  <2>5. f.call.parts[n].tool # "safari_batch"
    BY <1>2, <2>3, <2>4 DEF Box!WellFormed
  <2> QED BY <1>2, <2>2, <2>3, <2>4, <2>5 DEF Sound, Box!Composite
<1>8. Box!Execute(Head(f.todo), b)
  BY <1>1, <1>3, <1>5 DEF Box!BatchNext, Box!Rest, Put
<1>9. b[1].call.tool # "safari_run_skill" /\ (toolAnswer # None => ToldRight(toolAnswer))
  BY <1>2, <1>4, <1>6 DEF BoxInv
<1> QED BY <1>6, <1>7, <1>8, <1>9, Executed

LEMMA SkillNextKeeps == BoxInv /\ Box!SkillNext => BoxInv'
<1> SUFFICES ASSUME BoxInv, Box!SkillNext PROVE BoxInv'
  OBVIOUS
<1>1. PICK f : f = Box!Innermost
  OBVIOUS
<1>2. /\ stack # <<>> /\ f = stack[1] /\ StackKept(stack) /\ FrameKept(f, 0)
      /\ f.call.tool = "safari_run_skill" /\ f.call.parts # None /\ ~Box!LastFailed(f) /\ f.todo # <<>>
  BY <1>1, InnermostKept DEF Box!SkillNext, Box!SkillRuns, Box!Runs
<1>3. PICK g : g = [f EXCEPT !.todo = Tail(@)]
  OBVIOUS
<1>4. FrameKept(g, 1) /\ g.call = f.call /\ Awaits(g, Head(f.todo))
  BY <1>2, <1>3, Started
<1>5. PICK b : b = Put(g, Tail(stack))
  OBVIOUS
<1>6. Waiting(b, Head(f.todo))
  BY <1>2, <1>4, <1>5, Replaced
<1>7. Box!Dispatch(Head(f.todo), b)
  BY <1>1, <1>3, <1>5 DEF Box!SkillNext, Box!Rest, Put
<1> QED BY <1>6, <1>7, StepDispatched DEF BoxInv

LEMMA BatchEndsKeeps == BoxInv /\ Box!BatchEnds => BoxInv'
<1> SUFFICES ASSUME BoxInv, Box!BatchEnds PROVE BoxInv'
  OBVIOUS
<1>1. PICK f : f = Box!Innermost
  OBVIOUS
<1>2. /\ stack # <<>> /\ FrameKept(f, 0) /\ Box!End(f, "value")
      /\ f.call.tool = "safari_batch" /\ Box!WellFormed(f.call.parts)
      /\ f.todo = <<>> \/ (f.call.stop /\ Box!LastFailed(f))
  BY <1>1, InnermostKept DEF Box!BatchEnds, Box!Runs, Box!Stops
<1>3. PICK r : r = Box!Report(f, "value")
  OBVIOUS
<1>4. r.call = f.call /\ r.done = f.done
  BY <1>3 DEF Box!Report
<1>5. Box!BatchTold(r)
  <2>1. /\ Listed(f.done) /\ Follows(f, Len(f.done) + 0) /\ ReportsMatch(f)
        /\ f.call.stop => FailedLast(f, 0)
    BY <1>2 DEF FrameKept, BatchKept
  <2>2. Len(f.done) \in Nat /\ (f.done = <<>> <=> Len(f.done) = 0)
    BY <2>1, ListedLength
  <2>3. Listed(f.todo) /\ Len(f.todo) + Len(f.done) = Len(f.call.parts)
    <3>1. Len(f.done) + 0 = Len(f.done)
      BY <2>2
    <3> QED BY <2>1, <3>1, Zenon DEF Follows
  <2>4. Len(f.todo) \in Nat /\ (f.todo = <<>> <=> Len(f.todo) = 0)
    BY <2>3, ListedLength
  <2>5. /\ Len(f.done) <= Len(f.call.parts)
        /\ Len(f.done) < Len(f.call.parts) => Len(f.todo) # 0
    BY <2>2, <2>3, <2>4, Sums, Zenon
  <2>6. \A i \in 1..Len(f.done) : f.done[i].call = f.call.parts[i]
    BY <2>1 DEF ReportsMatch
  <2>7. ASSUME Len(f.done) < Len(f.call.parts)
        PROVE  f.call.stop /\ Len(f.done) > 0 /\ Box!Failed(f.done[Len(f.done)])
    <3>1. f.todo # <<>>
      BY <2>4, <2>5, <2>7
    <3>2. f.call.stop /\ Box!LastFailed(f)
      BY <1>2, <3>1
    <3> QED BY <2>2, <3>2 DEF Box!LastFailed, Box!Last
  <2>8. ASSUME f.call.stop, NEW i \in 1..(Len(f.done) - 1) PROVE ~Box!Failed(f.done[i])
    <3>1. i \in 1..Len(f.done) /\ i # Len(f.done)
      BY <2>2, <2>8
    <3> QED BY <2>1, <2>8, <3>1 DEF FailedLast
  <2> QED BY <1>4, <2>5, <2>6, <2>7, <2>8 DEF Box!BatchTold
<1>6. ToldRight(Box!Report(f, "value"))
  BY <1>2, <1>3, <1>4, <1>5 DEF ToldRight
<1> QED BY <1>1, <1>2, <1>6, ReportsAndEnds

LEMMA SkillEndsKeeps == BoxInv /\ Box!SkillEnds => BoxInv'
<1> SUFFICES ASSUME BoxInv, Box!SkillEnds PROVE BoxInv'
  OBVIOUS
<1>1. PICK f : f = Box!Innermost
  OBVIOUS
<1>2. /\ stack # <<>> /\ FrameKept(f, 0) /\ Box!End(f, "value") /\ ~Box!LastFailed(f)
      /\ f.call.tool = "safari_run_skill" /\ f.call.parts # None /\ f.todo = <<>>
  BY <1>1, InnermostKept DEF Box!SkillEnds, Box!SkillRuns, Box!Runs
<1>3. PICK r : r = Box!Report(f, "value")
  OBVIOUS
<1>4. r.call = f.call /\ r.done = f.done
  BY <1>3 DEF Box!Report
<1>5. Box!SkillTold(r)
  <2>1. /\ Listed(f.done) /\ FailedLast(f, 0)
        /\ \A k \in 1..Len(f.done) : Box!Failed(f.done[k]) \/ f.done[k].call.tool \in DOMAIN Box!Navigation
        /\ Straight(f.call.parts) => Follows(f, Len(f.done) + 0) /\ ReportsMatch(f)
    BY <1>2 DEF FrameKept, SkillKept
  <2>2. /\ Len(f.done) \in Nat /\ (f.done = <<>> <=> Len(f.done) = 0)
        /\ DOMAIN f.done = 1..Len(f.done)
    BY <2>1, ListedLength
  <2>3. \A k \in 1..Len(f.done) : ~Box!Failed(f.done[k])
    BY <1>2, <2>1, <2>2 DEF FailedLast, Box!LastFailed, Box!Last
  <2>4. ASSUME Straight(f.call.parts) PROVE Len(f.done) = Len(f.call.parts)
    <3>1. Len(f.done) + 0 = Len(f.done) /\ Len(f.todo) = 0
      BY <1>2, <2>2, EmptySeq
    <3>2. Len(f.todo) + Len(f.done) = Len(f.call.parts)
      BY <2>1, <2>4, <3>1, Zenon DEF Follows
    <3> QED BY <2>2, <3>1, <3>2
  <2>5. \A i \in DOMAIN r.done : ~Box!Failed(r.done[i]) /\ r.done[i].call.tool \in DOMAIN Box!Navigation
    BY <1>4, <2>1, <2>2, <2>3
  <2>6. Straight(r.call.parts) =>
            Len(r.done) = Len(r.call.parts) /\ \A i \in DOMAIN r.done : r.done[i].call = r.call.parts[i]
    BY <1>4, <2>1, <2>2, <2>4 DEF ReportsMatch
  <2> QED BY <2>5, <2>6 DEF Box!SkillTold, Straight
<1>6. ToldRight(Box!Report(f, "value"))
  BY <1>2, <1>3, <1>4, <1>5 DEF ToldRight
<1> QED BY <1>1, <1>2, <1>6, ReportsAndEnds

\* A list with a loop is not straight, so the others remain to be kept.
LEMMA SkillLoopsKeeps == BoxInv /\ Box!SkillLoops => BoxInv'
<1> SUFFICES ASSUME BoxInv, Box!SkillLoops PROVE BoxInv'
  OBVIOUS
<1>1. PICK f : f = Box!Innermost
  OBVIOUS
<1>2. /\ stack # <<>> /\ FrameKept(f, 0) /\ ~Box!LastFailed(f) /\ f.todo # <<>>
      /\ f.call.tool = "safari_run_skill" /\ f.call.parts # None /\ Head(f.todo).tool = "_loop"
  BY <1>1, InnermostKept DEF Box!SkillLoops, Box!SkillRuns, Box!Runs
<1>3. ~Straight(f.call.parts)
  <2> SUFFICES ASSUME Straight(f.call.parts) PROVE FALSE
    OBVIOUS
  <2>1. Follows(f, Len(f.done) + 0) /\ Len(f.done) \in Nat
    BY <1>2, ListedLength DEF FrameKept, SkillKept
  <2>2. /\ Listed(f.todo) /\ Len(f.todo) + Len(f.done) = Len(f.call.parts)
        /\ \A k \in 1..Len(f.todo) : f.todo[k] = f.call.parts[Len(f.done) + k]
    <3>1. Len(f.done) + 0 = Len(f.done)
      BY <2>1
    <3> QED BY <2>1, <3>1, Zenon DEF Follows
  <2>3. Len(f.todo) \in Nat \ {0} /\ Head(f.todo) = f.todo[1]
    BY <1>2, <2>2, Rested
  <2>4. Listed(f.call.parts)
    BY <1>2 DEF FrameKept, Sound, Box!WellMade, Box!Composite, Listed
  <2>5. DOMAIN f.call.parts = 1..Len(f.call.parts)
    BY <2>4, ListedLength
  <2>6. Len(f.done) + 1 \in DOMAIN f.call.parts /\ 1 \in 1..Len(f.todo)
    <3>1. Len(f.todo) \in Nat /\ Len(f.todo) # 0 /\ 1 \in 1..Len(f.todo)
      BY <2>3
    <3> QED BY <2>1, <2>2, <2>5, <3>1, Sums, Zenon
  <2>7. f.call.parts[Len(f.done) + 1].tool = "_loop"
    BY <1>2, <2>2, <2>3, <2>6
  <2> QED BY <2>6, <2>7 DEF Straight
<1>4. ASSUME NEW todo, Box!GoOn([f EXCEPT !.todo = todo]) PROVE BoxInv'
  <2>1. PICK g : g = [f EXCEPT !.todo = todo]
    OBVIOUS
  <2>2. DOMAIN g = FrameFields /\ g.call = f.call /\ g.done = f.done
    BY <1>2, <2>1 DEF FrameKept, FrameFields
  <2>3. BatchKept(g, 0) /\ SkillKept(g, 0)
    BY <1>2, <1>3, <2>2 DEF FrameKept, BatchKept, SkillKept, FailedLast
  <2>4. FrameKept(g, 0)
    BY <1>2, <2>2, <2>3 DEF FrameKept
  <2> QED BY <1>1, <1>2, <1>4, <2>1, <2>2, <2>4, Goes
<1>5. ASSUME NEW g, g.call = f.call, Box!End(g, "error") PROVE BoxInv'
  BY <1>1, <1>2, <1>5, OtherwiseRight, ReportsAndEnds
<1>6. [f EXCEPT !.faulted = TRUE].call = f.call
  BY <1>2 DEF FrameKept, FrameFields
<1> QED BY <1>1, <1>4, <1>5, <1>6 DEF Box!SkillLoops

LEMMA RunScriptKeeps == BoxInv /\ (\E fails \in BOOLEAN : Box!RunScript(fails)) => BoxInv'
<1> SUFFICES ASSUME BoxInv, NEW fails \in BOOLEAN, Box!RunScript(fails) PROVE BoxInv'
  OBVIOUS
<1>1. PICK f : f = Box!Innermost
  OBVIOUS
<1>2. DOMAIN f = FrameFields /\ Box!IsTool
  BY <1>1, InnermostKept DEF Box!RunScript, Box!IsTool, FrameKept
<1> DEFINE now == [f EXCEPT !.faulted = @ \/ fails]
           next == [now EXCEPT !.left = Tail(@)]
<1>3. DOMAIN now = FrameFields /\ now.call = f.call /\ now.done = f.done
  BY <1>2 DEF FrameFields
<1>4. DOMAIN next = FrameFields /\ next.call = f.call /\ next.done = f.done
  BY <1>3 DEF FrameFields
<1> HIDE DEF now
<1>5. /\ \A v : [next EXCEPT !.missed = v].call = f.call /\ [next EXCEPT !.missed = v].done = f.done
      /\ \A v : DOMAIN [next EXCEPT !.missed = v] = FrameFields
      /\ \A v : [next EXCEPT !.hollow = v].call = f.call /\ [next EXCEPT !.hollow = v].done = f.done
      /\ \A v : DOMAIN [next EXCEPT !.hollow = v] = FrameFields
  BY <1>4 DEF FrameFields
<1> HIDE DEF next
<1>6. \/ Box!GoOn(next) \/ \E v : Box!GoOn([next EXCEPT !.missed = v]) \/ Box!GoOn([next EXCEPT !.hollow = v])
      \/ \E says : Box!End(now, says)
  BY <1>1 DEF Box!RunScript, now, next
<1>7. CASE \E g : Box!GoOn(g) /\ DOMAIN g = FrameFields /\ g.call = Box!Innermost.call /\ g.done = Box!Innermost.done
  BY <1>2, <1>7, ToolKeeps
<1>8. CASE \E says : Box!End(now, says)
  BY <1>1, <1>2, <1>3, <1>8, ToolKeeps
<1>9. CASE \E v : Box!GoOn([next EXCEPT !.missed = v]) \/ Box!GoOn([next EXCEPT !.hollow = v])
  BY <1>1, <1>5, <1>7, <1>9
<1>10. CASE Box!GoOn(next)
  BY <1>1, <1>4, <1>7, <1>10
<1> QED BY <1>6, <1>8, <1>9, <1>10

LEMMA ToolActionsKeep == BoxInv /\ (Box!Skip \/ Box!Control \/ Box!ToolAnswers \/ Box!ToolThrows) => BoxInv'
<1> SUFFICES ASSUME BoxInv, Box!Skip \/ Box!Control \/ Box!ToolAnswers \/ Box!ToolThrows PROVE BoxInv'
  OBVIOUS
<1>1. PICK f : f = Box!Innermost
  OBVIOUS
<1>2. DOMAIN f = FrameFields /\ Box!IsTool
  BY <1>1, InnermostKept DEF Box!Skip, Box!Control, Box!ToolAnswers, Box!ToolThrows, Box!IsTool, FrameKept
<1>3. \A v : /\ DOMAIN [f EXCEPT !.left = v] = FrameFields
             /\ [f EXCEPT !.left = v].call = f.call /\ [f EXCEPT !.left = v].done = f.done
             /\ [f EXCEPT !.faulted = v].call = f.call
  BY <1>2 DEF FrameFields
<1>4. ASSUME NEW v, Box!GoOn([f EXCEPT !.left = v]) PROVE BoxInv'
  BY <1>1, <1>2, <1>3, <1>4, ToolKeeps
<1>5. ASSUME NEW says, Box!End(f, says) PROVE BoxInv'
  BY <1>1, <1>2, <1>5, ToolKeeps
<1>6. CASE Box!Skip
  BY <1>1, <1>4, <1>6 DEF Box!Skip
<1>7. CASE Box!Control
  BY <1>1, <1>4, <1>5, <1>7 DEF Box!Control
<1>8. CASE Box!ToolAnswers
  BY <1>1, <1>5, <1>8 DEF Box!ToolAnswers
<1>9. CASE Box!ToolThrows
  BY <1>1, <1>2, <1>3, <1>9, ToolKeeps DEF Box!ToolThrows
<1> QED BY <1>6, <1>7, <1>8, <1>9

LEMMA BoxInit == Box!Init => BoxInv
<1>1. Listed(<<>>) /\ Len(<<>>) = 0
  BY NoneListed, ListedLength
<1> QED BY <1>1 DEF Box!Init, BoxInv, StackKept

LEMMA BoxStep == Box!ToolboxAssumption /\ BoxInv /\ [Box!Next]_(Box!vars) => BoxInv'
<1> SUFFICES ASSUME Box!ToolboxAssumption, BoxInv, [Box!Next]_(Box!vars) PROVE BoxInv'
  OBVIOUS
<1>1. CASE UNCHANGED <<stack, toolAnswer>>
  BY <1>1 DEF BoxInv
<1>2. CASE Box!Told
  BY <1>2 DEF Box!Told, BoxInv
<1>3. CASE \E request \in Box!Plain \cup Composed : Box!CallTool(request)
  <2>1. PICK request \in Box!Plain \cup Composed : Box!CallTool(request)
    BY <1>3
  <2>2. Sound(request)
    <3>1. CASE request \in Box!Plain
      BY <3>1 DEF Box!Plain, Box!Call, Sound, Box!Composite
    <3>2. CASE request \in Composed
      BY <3>2 DEF Box!ToolboxAssumption, Sound
    <3> QED BY <3>1, <3>2
  <2>3. PICK b : b = <<>>
    OBVIOUS
  <2>4. Waiting(b, request)
    <3>1. Listed(b) /\ Len(b) = 0
      BY <2>3, NoneListed, ListedLength
    <3> QED BY <2>3, <3>1 DEF Waiting
  <2>5. Box!Execute(request, b)
    BY <2>1, <2>3 DEF Box!CallTool
  <2> QED BY <2>2, <2>3, <2>4, <2>5, Executed DEF BoxInv
<1>4. CASE Box!BatchRejected \/ Box!SkillThrows
  <2>1. stack # <<>> /\ Box!End(Box!Innermost, "error")
    BY <1>4 DEF Box!BatchRejected, Box!SkillThrows, Box!Runs
  <2> QED BY <2>1, OtherwiseRight, ReportsAndEnds
<1>5. CASE Box!ExtensionShifts \/ UNCHANGED Box!vars
  BY <1>1, <1>5 DEF Box!ExtensionShifts, Box!vars
<1> QED
  BY <1>2, <1>3, <1>4, <1>5, RunScriptKeeps, ToolActionsKeep, BatchNextKeeps, BatchEndsKeeps,
     SkillLoopsKeeps, SkillNextKeeps, SkillEndsKeeps
  DEF Box!Next

LEMMA RightlyTold == BoxInv => Box!ReportsMatchRuns
<1> SUFFICES ASSUME BoxInv, NEW r \in Box!Reports PROVE ToldRight(r)
  BY DEF Box!ReportsMatchRuns, ToldRight
<1>1. CASE r = toolAnswer /\ toolAnswer # None
  BY <1>1 DEF BoxInv
<1>2. CASE \E i \in DOMAIN stack : r \in Box!ToSet(stack[i].done)
  <2>1. PICK i \in DOMAIN stack : r \in Box!ToSet(stack[i].done)
    BY <1>2
  <2>2. Listed(stack)
    BY DEF BoxInv, StackKept
  <2>3. i \in 1..Len(stack) /\ Len(stack) \in Nat /\ stack # <<>>
    BY <2>1, <2>2, ListedLength
  <2>4. FrameKept(stack[i], 0) \/ FrameKept(stack[i], 1)
    <3>1. i = 1 \/ i \in 2..Len(stack)
      BY <2>3
    <3> QED BY <2>3, <3>1 DEF BoxInv, StackKept
  <2>5. /\ Listed(stack[i].done)
        /\ \A k \in 1..Len(stack[i].done) : ToldRight(stack[i].done[k])
    BY <2>4 DEF FrameKept
  <2>6. DOMAIN stack[i].done = 1..Len(stack[i].done)
    BY <2>5, ListedLength
  <2>7. PICK k \in DOMAIN stack[i].done : r = stack[i].done[k]
    BY <2>1, Zenon DEF Box!ToSet
  <2> QED BY <2>5, <2>6, <2>7
<1> QED BY <1>1, <1>2 DEF Box!Reports
=============================================================================
