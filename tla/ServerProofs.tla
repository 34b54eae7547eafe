---------------------------- MODULE ServerProofs ----------------------------
(***************************************************************************)
(* Theorems about what the server keeps for all its requests: the          *)
(* settlement ledger, for any instances, rows and caps; the rate limiter,  *)
(* for any clients, window and limit; and the tool registry with the       *)
(* script that anchors in it, for any slugs, accounts, manifests and       *)
(* number of transactions.                                                 *)
(***************************************************************************)
EXTENDS LedgerStore, RateLimit, ToolRegistry, FiniteSetTheorems, SequenceTheorems, TLAPS

-----------------------------------------------------------------------------
(***************************************************************************)
(* LedgerStore.                                                            *)
(***************************************************************************)
\* A list of rows of one lane, each once, whose appends are at certain stages.
Recorded(rows, lane, ap, stages) ==
  /\ rows \in Seq(Rows)
  /\ \A n \in 1 .. Len(rows) : laneOf(rows[n]) = lane /\ ap[rows[n]] \in stages
  /\ \A m, n \in 1 .. Len(rows) : rows[m] = rows[n] => m = n

Begun == {"connect", "push", "trim", "done"}
Taken == {"trim", "done"}

\* Redis holds the newest of what it took, and trims no further than the cap.
NewestKept(rows, all, cap) ==
  /\ rows \in Seq(Rows)
  /\ Len(rows) <= Len(all)
  /\ \A n \in 1 .. Len(rows) : rows[n] = all[n]
  /\ Len(rows) >= cap \/ rows = all

\* What a process holds was recorded; what Redis took was being pushed.
MemoryOK(m, ap) ==
  /\ m \in [Instances -> [Lanes -> Seq(Rows)]]
  /\ \A i \in Instances, lane \in Lanes :
       Recorded(m[i][lane], lane, ap, Begun) /\ Len(m[i][lane]) <= CAPS[lane]

StoreOK(r, p, ap) ==
  /\ r \in [Lanes -> Seq(Rows)] /\ p \in [Lanes -> Seq(Rows)]
  /\ \A lane \in Lanes :
       Recorded(p[lane], lane, ap, Taken) /\ NewestKept(r[lane], p[lane], CAPS[lane])

JobsOK ==
  /\ reachable \in BOOLEAN
  /\ client \in [Instances -> {"none", "live"}]
  /\ append \in [Rows -> {"new", "connect", "push", "trim", "done"}]
  /\ writer \in [Rows -> Instances]
  /\ reading \in [at : {"idle", "connect", "read", "fallback"}, by : Instances]

\* The inductive invariant: what the lists in memory and in Redis hold.
LedgerIInv == MemoryOK(memory, append) /\ StoreOK(redis, pushed, append) /\ JobsOK

LEMMA CapsArePositive ==
  /\ \A lane \in Lanes : CAPS[lane] \in Nat \ {0}
  /\ \A s \in Rows : laneOf(s) \in Lanes
BY LedgerAssumption DEF CAPS, Lanes, laneOf

\* Two ways a list changes.
LEMMA AddedInFront ==
  ASSUME NEW s \in Rows, NEW rows \in Seq(Rows)
  PROVE  /\ <<s>> \o rows \in Seq(Rows) /\ Len(<<s>> \o rows) = Len(rows) + 1 /\ Len(rows) \in Nat
         /\ (<<s>> \o rows)[1] = s
         /\ \A n \in 2 .. Len(rows) + 1 : (<<s>> \o rows)[n] = rows[n - 1]
<1>1. <<s>> \in Seq(Rows) /\ Len(<<s>>) = 1 /\ <<s>>[1] = s /\ Len(rows) \in Nat
  OBVIOUS
<1>2. /\ <<s>> \o rows \in Seq(Rows) /\ Len(<<s>> \o rows) = Len(<<s>>) + Len(rows)
      /\ \A n \in 1 .. Len(<<s>>) + Len(rows) :
           (<<s>> \o rows)[n] = IF n <= Len(<<s>>) THEN <<s>>[n] ELSE rows[n - Len(<<s>>)]
  BY <1>1, ConcatProperties
<1>. QED BY <1>1, <1>2

\* A list that is cut at its cap keeps its front.
LEMMA CappedRows ==
  ASSUME NEW rows \in Seq(Rows), NEW k \in Nat
  PROVE  /\ capped(rows, k) \in Seq(Rows)
         /\ Len(capped(rows, k)) = IF Len(rows) < k THEN Len(rows) ELSE k
         /\ \A n \in 1 .. Len(capped(rows, k)) : capped(rows, k)[n] = rows[n]
         /\ Len(rows) \in Nat
<1>1. PICK e \in Nat : e = (IF Len(rows) < k THEN Len(rows) ELSE k) /\ e <= Len(rows)
  BY LenProperties
<1>2. \A n \in 1 .. e : rows[n] \in Rows
  BY <1>1, ElementOfSeq
<1>3. /\ SubSeq(rows, 1, e) \in Seq(Rows)
      /\ Len(SubSeq(rows, 1, e)) = IF 1 <= e THEN e - 1 + 1 ELSE 0
      /\ \A n \in 1 .. e - 1 + 1 : SubSeq(rows, 1, e)[n] = rows[1 + n - 1]
  BY <1>1, <1>2, SubSeqProperties
<1>4. /\ SubSeq(rows, 1, e) \in Seq(Rows) /\ Len(SubSeq(rows, 1, e)) = e
      /\ \A n \in 1 .. e : SubSeq(rows, 1, e)[n] = rows[n]
  BY <1>1, <1>3
<1>5. capped(rows, k) = SubSeq(rows, 1, e)
  BY <1>1 DEF capped
<1>6. Len(rows) \in Nat
  BY LenProperties
<1>. QED BY <1>1, <1>4, <1>5, <1>6

\* Rows stay recorded when their appends go on ...
LEMMA RecordedStays ==
  ASSUME NEW rows, NEW lane, NEW ap, NEW ap2, NEW stages, Recorded(rows, lane, ap, stages),
         \A s \in Rows : ap[s] \in stages => ap2[s] \in stages
  PROVE  Recorded(rows, lane, ap2, stages)
<1>1. \A n \in 1 .. Len(rows) : rows[n] \in Rows
  BY ElementOfSeq DEF Recorded
<1>. QED BY <1>1 DEF Recorded

\* ... and another that is recorded now is recorded once.
LEMMA RecordedAdds ==
  ASSUME NEW rows, NEW lane, NEW ap, NEW ap2, NEW stages, Recorded(rows, lane, ap, stages),
         \A s \in Rows : ap[s] \in stages => ap2[s] \in stages,
         NEW s \in Rows, laneOf(s) = lane, ap[s] \notin stages, ap2[s] \in stages
  PROVE  Recorded(<<s>> \o rows, lane, ap2, stages)
<1>1. /\ Recorded(rows, lane, ap2, stages) /\ rows \in Seq(Rows)
      /\ \A n \in 1 .. Len(rows) : rows[n] # s
  BY RecordedStays DEF Recorded
<1>2. PICK new \in Seq(Rows) :
         /\ new = <<s>> \o rows /\ Len(new) = Len(rows) + 1 /\ Len(rows) \in Nat /\ new[1] = s
         /\ \A n \in 2 .. Len(rows) + 1 : new[n] = rows[n - 1]
  <2>1. s \in Rows /\ rows \in Seq(Rows)
    BY <1>1
  <2>2. /\ <<s>> \o rows \in Seq(Rows) /\ Len(<<s>> \o rows) = Len(rows) + 1 /\ Len(rows) \in Nat
        /\ (<<s>> \o rows)[1] = s
        /\ \A n \in 2 .. Len(rows) + 1 : (<<s>> \o rows)[n] = rows[n - 1]
    <3>. HIDE DEF Rows
    <3>. QED BY <2>1, AddedInFront, ZenonT(30)
  <2>3. PICK new : new = <<s>> \o rows
    OBVIOUS
  <2>. QED BY <2>2, <2>3, ZenonT(30)
<1>3. \A n \in 1 .. Len(new) : n = 1 \/ (n \in 2 .. Len(rows) + 1 /\ n - 1 \in 1 .. Len(rows))
  BY <1>2
<1>4. \A n \in 1 .. Len(new) : laneOf(new[n]) = lane /\ ap2[new[n]] \in stages
  BY <1>1, <1>2, <1>3 DEF Recorded
<1>5. ASSUME NEW m \in 1 .. Len(new), NEW n \in 1 .. Len(new), new[m] = new[n] PROVE m = n
  <2>1. m = 1 \/ (m - 1 \in 1 .. Len(rows) /\ new[m] = rows[m - 1])
    BY <1>2, <1>3
  <2>2. n = 1 \/ (n - 1 \in 1 .. Len(rows) /\ new[n] = rows[n - 1])
    BY <1>2, <1>3
  <2>3. (m = 1) = (n = 1)
    BY <2>1, <2>2, <1>1, <1>2, <1>5
  <2>4. ASSUME m # 1, n # 1 PROVE m - 1 = n - 1
    BY <2>1, <2>2, <2>4, <1>1, <1>5 DEF Recorded
  <2>. QED BY <2>3, <2>4
<1>6. Recorded(new, lane, ap2, stages)
  BY <1>4, <1>5 DEF Recorded
<1>. QED BY <1>2, <1>6

\* ... nor does cutting a list record anything.
LEMMA RecordedCapped ==
  ASSUME NEW rows, NEW lane, NEW ap, NEW stages, Recorded(rows, lane, ap, stages), NEW k \in Nat
  PROVE  Recorded(capped(rows, k), lane, ap, stages) /\ Len(capped(rows, k)) <= k
<1>1. PICK new \in Seq(Rows) :
        /\ new = capped(rows, k) /\ Len(new) = (IF Len(rows) < k THEN Len(rows) ELSE k)
        /\ Len(rows) \in Nat /\ \A n \in 1 .. Len(new) : new[n] = rows[n]
  <2>1. rows \in Seq(Rows)
    BY DEF Recorded
  <2>2. PICK new : new = capped(rows, k)
    OBVIOUS
  <2>. QED BY <2>1, <2>2, CappedRows
<1>2. \A n \in 1 .. Len(new) : n \in 1 .. Len(rows)
  BY <1>1
<1>3. Recorded(new, lane, ap, stages)
  BY <1>1, <1>2 DEF Recorded
<1>. QED BY <1>1, <1>3

\* An empty list records nothing.
LEMMA NoneRecorded ==
  ASSUME NEW lane, NEW ap, NEW stages
  PROVE  Recorded(<<>>, lane, ap, stages)
BY DEF Recorded

\* A push puts a row in front of both; a trim drops the oldest at most.
LEMMA NewestPushed ==
  ASSUME NEW rows, NEW all \in Seq(Rows), NEW cap \in Nat, NewestKept(rows, all, cap), NEW s \in Rows
  PROVE  NewestKept(<<s>> \o rows, <<s>> \o all, cap)
<1>0. rows \in Seq(Rows)
  BY DEF NewestKept
<1>1. PICK new \in Seq(Rows) :
         /\ new = <<s>> \o rows /\ Len(new) = Len(rows) + 1 /\ Len(rows) \in Nat /\ new[1] = s
         /\ \A n \in 2 .. Len(rows) + 1 : new[n] = rows[n - 1]
  <2>1. s \in Rows /\ rows \in Seq(Rows)
    BY <1>0
  <2>2. /\ <<s>> \o rows \in Seq(Rows) /\ Len(<<s>> \o rows) = Len(rows) + 1 /\ Len(rows) \in Nat
        /\ (<<s>> \o rows)[1] = s
        /\ \A n \in 2 .. Len(rows) + 1 : (<<s>> \o rows)[n] = rows[n - 1]
    <3>. HIDE DEF Rows
    <3>. QED BY <2>1, AddedInFront, ZenonT(30)
  <2>3. PICK new : new = <<s>> \o rows
    OBVIOUS
  <2>. QED BY <2>2, <2>3, ZenonT(30)
<1>2. PICK whole \in Seq(Rows) :
         /\ whole = <<s>> \o all /\ Len(whole) = Len(all) + 1 /\ Len(all) \in Nat /\ whole[1] = s
         /\ \A n \in 2 .. Len(all) + 1 : whole[n] = all[n - 1]
  <2>1. s \in Rows /\ all \in Seq(Rows)
    OBVIOUS
  <2>2. /\ <<s>> \o all \in Seq(Rows) /\ Len(<<s>> \o all) = Len(all) + 1 /\ Len(all) \in Nat
        /\ (<<s>> \o all)[1] = s
        /\ \A n \in 2 .. Len(all) + 1 : (<<s>> \o all)[n] = all[n - 1]
    <3>. HIDE DEF Rows
    <3>. QED BY <2>1, AddedInFront, ZenonT(30)
  <2>3. PICK whole : whole = <<s>> \o all
    OBVIOUS
  <2>. QED BY <2>2, <2>3, ZenonT(30)
<1>3. Len(rows) <= Len(all) /\ \A n \in 1 .. Len(rows) : rows[n] = all[n]
  BY DEF NewestKept
<1>4. ASSUME NEW n \in 1 .. Len(new) PROVE new[n] = whole[n]
  <2>1. CASE n = 1
    BY <2>1, <1>1, <1>2
  <2>2. CASE n # 1
    <3>1. n - 1 \in 1 .. Len(rows) /\ n \in 2 .. Len(rows) + 1 /\ n \in 2 .. Len(all) + 1
      BY <2>2, <1>1, <1>2, <1>3
    <3>. QED BY <3>1, <1>1, <1>2, <1>3
  <2>. QED BY <2>1, <2>2
<1>5. Len(new) >= cap \/ new = whole
  BY <1>1, <1>2 DEF NewestKept
<1>6. NewestKept(new, whole, cap)
  BY <1>1, <1>2, <1>3, <1>4, <1>5 DEF NewestKept
<1>. QED BY <1>1, <1>2, <1>6

LEMMA NewestTrimmed ==
  ASSUME NEW rows, NEW all \in Seq(Rows), NEW cap \in Nat, NewestKept(rows, all, cap)
  PROVE  NewestKept(capped(rows, cap), all, cap)
<1>0. rows \in Seq(Rows) /\ Len(all) \in Nat
  BY LenProperties DEF NewestKept
<1>1. PICK new \in Seq(Rows) :
        /\ new = capped(rows, cap) /\ Len(new) = (IF Len(rows) < cap THEN Len(rows) ELSE cap)
        /\ Len(rows) \in Nat /\ \A n \in 1 .. Len(new) : new[n] = rows[n]
  BY <1>0, CappedRows
<1>2. CASE Len(rows) < cap
  <2>1. new = rows
    BY <1>0, <1>1, <1>2, SeqEqual
  <2>. QED BY <2>1, <1>1
<1>3. CASE ~ (Len(rows) < cap)
  <2>1. Len(new) = cap /\ Len(new) <= Len(all) /\ \A n \in 1 .. Len(new) : new[n] = all[n]
    BY <1>0, <1>1, <1>3 DEF NewestKept
  <2>2. NewestKept(new, all, cap)
    BY <2>1 DEF NewestKept
  <2>. QED BY <2>2, <1>1
<1>. QED BY <1>2, <1>3

-----------------------------------------------------------------------------
\* Appends go on: none that began is new again, none that was taken is open.
GoesOn(ap, ap2) ==
  \A s \in Rows : /\ ap[s] \in Begun => ap2[s] \in Begun
                  /\ ap[s] \in Taken => ap2[s] \in Taken

LEMMA MemoryStays ==
  ASSUME NEW m, NEW ap, NEW ap2, MemoryOK(m, ap), GoesOn(ap, ap2) PROVE MemoryOK(m, ap2)
BY RecordedStays DEF MemoryOK, GoesOn

LEMMA StoreStays ==
  ASSUME NEW r, NEW p, NEW ap, NEW ap2, StoreOK(r, p, ap), GoesOn(ap, ap2) PROVE StoreOK(r, p, ap2)
BY RecordedStays DEF StoreOK, GoesOn

\* A row is put in front of the list in memory.
LEMMA MemoryAdds ==
  ASSUME NEW m, NEW ap, NEW ap2, MemoryOK(m, ap), GoesOn(ap, ap2), NEW i \in Instances,
         NEW s \in Rows, ap[s] = "new", ap2[s] = "connect"
  PROVE  MemoryOK([m EXCEPT ![i][laneOf(s)] = capped(<<s>> \o @, CAPS[laneOf(s)])], ap2)
<1>. PICK lane \in Lanes, k \in Nat : lane = laneOf(s) /\ k = CAPS[lane]
  BY CapsArePositive
<1>. DEFINE new == capped(<<s>> \o m[i][lane], k)
<1>1. m \in [Instances -> [Lanes -> Seq(Rows)]] /\ Recorded(m[i][lane], lane, ap, Begun)
  BY DEF MemoryOK
<1>2. Recorded(<<s>> \o m[i][lane], lane, ap2, Begun)
  <2>1. ap[s] \notin Begun /\ ap2[s] \in Begun
    BY DEF Begun
  <2>2. \A q \in Rows : ap[q] \in Begun => ap2[q] \in Begun
    BY DEF GoesOn
  <2>. QED BY <1>1, <2>1, <2>2, RecordedAdds
<1>3. Recorded(new, lane, ap2, Begun) /\ Len(new) <= k
  BY <1>2, RecordedCapped
<1>4. new \in Seq(Rows)
  BY <1>3 DEF Recorded
<1>. HIDE DEF new
<1>5. PICK m2 : m2 = [m EXCEPT ![i] = [m[i] EXCEPT ![lane] = new]]
  OBVIOUS
<1>6. /\ m2 \in [Instances -> [Lanes -> Seq(Rows)]] /\ m2[i][lane] = new
      /\ \A j \in Instances, l \in Lanes : j # i \/ l # lane => m2[j][l] = m[j][l]
  BY <1>1, <1>4, <1>5
<1>7. ASSUME NEW j \in Instances, NEW l \in Lanes
      PROVE  Recorded(m2[j][l], l, ap2, Begun) /\ Len(m2[j][l]) <= CAPS[l]
  <2>1. CASE j = i /\ l = lane
    BY <2>1, <1>3, <1>6
  <2>2. CASE j # i \/ l # lane
    <3>1. MemoryOK(m, ap2)
      BY MemoryStays
    <3>. QED BY <2>2, <3>1, <1>6 DEF MemoryOK
  <2>. QED BY <2>1, <2>2
<1>8. MemoryOK(m2, ap2)
  BY <1>6, <1>7 DEF MemoryOK
<1>9. [m EXCEPT ![i][laneOf(s)] = capped(<<s>> \o @, CAPS[laneOf(s)])] = m2
  BY <1>5 DEF new
<1>. QED BY <1>8, <1>9

\* A process that starts has nothing.
LEMMA MemoryEmptied ==
  ASSUME NEW m, NEW ap, MemoryOK(m, ap), NEW i \in Instances
  PROVE  MemoryOK([m EXCEPT ![i] = [lane \in Lanes |-> <<>>]], ap)
<1>1. PICK m2 : m2 = [m EXCEPT ![i] = [lane \in Lanes |-> <<>>]]
  OBVIOUS
<1>2. /\ m2 \in [Instances -> [Lanes -> Seq(Rows)]]
      /\ \A lane \in Lanes : m2[i][lane] = <<>>
      /\ \A j \in Instances : j # i => m2[j] = m[j]
  BY <1>1 DEF MemoryOK
<1>3. ASSUME NEW j \in Instances, NEW l \in Lanes
      PROVE  Recorded(m2[j][l], l, ap, Begun) /\ Len(m2[j][l]) <= CAPS[l]
  <2>1. CASE j = i
    <3>1. m2[j][l] = <<>> /\ Len(<<>>) <= CAPS[l]
      BY <2>1, <1>2, CapsArePositive
    <3>2. Recorded(<<>>, l, ap, Begun)
      BY NoneRecorded
    <3>. QED BY <3>1, <3>2
  <2>2. CASE j # i
    BY <2>2, <1>2 DEF MemoryOK
  <2>. QED BY <2>1, <2>2
<1>. QED BY <1>1, <1>2, <1>3 DEF MemoryOK

\* Redis takes a row.
LEMMA StorePushes ==
  ASSUME NEW r, NEW p, NEW ap, NEW ap2, StoreOK(r, p, ap), GoesOn(ap, ap2),
         NEW s \in Rows, ap[s] = "push", ap2[s] \in Taken
  PROVE  StoreOK([r EXCEPT ![laneOf(s)] = <<s>> \o @], [p EXCEPT ![laneOf(s)] = <<s>> \o @], ap2)
<1>. PICK lane \in Lanes : lane = laneOf(s) /\ CAPS[lane] \in Nat
  BY CapsArePositive
<1>1. PICK r2, p2 : /\ r2 = [r EXCEPT ![lane] = <<s>> \o r[lane]]
                    /\ p2 = [p EXCEPT ![lane] = <<s>> \o p[lane]]
  OBVIOUS
<1>2. /\ r \in [Lanes -> Seq(Rows)] /\ p \in [Lanes -> Seq(Rows)]
      /\ Recorded(p[lane], lane, ap, Taken) /\ NewestKept(r[lane], p[lane], CAPS[lane])
  BY DEF StoreOK
<1>3. <<s>> \o r[lane] \in Seq(Rows) /\ <<s>> \o p[lane] \in Seq(Rows)
  BY <1>2, AddedInFront
<1>4. Recorded(<<s>> \o p[lane], lane, ap2, Taken)
  <2>1. ap[s] \notin Taken
    BY DEF Taken
  <2>2. \A q \in Rows : ap[q] \in Taken => ap2[q] \in Taken
    BY DEF GoesOn
  <2>. QED BY <1>2, <2>1, <2>2, RecordedAdds
<1>5. NewestKept(<<s>> \o r[lane], <<s>> \o p[lane], CAPS[lane])
  BY <1>2, NewestPushed
<1>6. /\ r2 \in [Lanes -> Seq(Rows)] /\ p2 \in [Lanes -> Seq(Rows)]
      /\ r2[lane] = <<s>> \o r[lane] /\ p2[lane] = <<s>> \o p[lane]
      /\ \A l \in Lanes : l # lane => r2[l] = r[l] /\ p2[l] = p[l]
  BY <1>1, <1>2, <1>3
<1>7. StoreOK(r, p, ap2)
  BY StoreStays
<1>8. StoreOK(r2, p2, ap2)
  <2>1. ASSUME NEW l \in Lanes
        PROVE  Recorded(p2[l], l, ap2, Taken) /\ NewestKept(r2[l], p2[l], CAPS[l])
    <3>1. CASE l = lane
      BY <3>1, <1>4, <1>5, <1>6
    <3>2. CASE l # lane
      BY <3>2, <1>6, <1>7 DEF StoreOK
    <3>. QED BY <3>1, <3>2
  <2>. QED BY <2>1, <1>6 DEF StoreOK
<1>. QED BY <1>1, <1>8

\* Redis trims a list.
LEMMA StoreTrims ==
  ASSUME NEW r, NEW p, NEW ap, StoreOK(r, p, ap), NEW lane \in Lanes
  PROVE  StoreOK([r EXCEPT ![lane] = capped(@, CAPS[lane])], p, ap)
<1>0. CAPS[lane] \in Nat
  BY CapsArePositive
<1>1. PICK r2 : r2 = [r EXCEPT ![lane] = capped(r[lane], CAPS[lane])]
  OBVIOUS
<1>2. /\ r \in [Lanes -> Seq(Rows)] /\ p \in [Lanes -> Seq(Rows)]
      /\ NewestKept(r[lane], p[lane], CAPS[lane])
  BY DEF StoreOK
<1>3. NewestKept(capped(r[lane], CAPS[lane]), p[lane], CAPS[lane])
  BY <1>0, <1>2, NewestTrimmed
<1>4. capped(r[lane], CAPS[lane]) \in Seq(Rows)
  BY <1>3 DEF NewestKept
<1>5. /\ r2 \in [Lanes -> Seq(Rows)] /\ r2[lane] = capped(r[lane], CAPS[lane])
      /\ \A l \in Lanes : l # lane => r2[l] = r[l]
  BY <1>1, <1>2, <1>4
<1>6. StoreOK(r2, p, ap)
  BY <1>3, <1>5 DEF StoreOK
<1>. QED BY <1>1, <1>6

\* The operator empties Redis.
LEMMA StoreEmptied ==
  ASSUME NEW ap PROVE StoreOK([lane \in Lanes |-> <<>>], [lane \in Lanes |-> <<>>], ap)
<1>1. \A lane \in Lanes : Recorded(<<>>, lane, ap, Taken)
  BY NoneRecorded
<1>2. \A lane \in Lanes : NewestKept(<<>>, <<>>, CAPS[lane])
  BY DEF NewestKept
<1>. QED BY <1>1, <1>2 DEF StoreOK
-----------------------------------------------------------------------------
\* The lists stay, and the jobs go on.
LEMMA ListsStay ==
  ASSUME LedgerIInv, UNCHANGED <<memory, redis, pushed>>, GoesOn(append, append'), JobsOK'
  PROVE  LedgerIInv'
<1>. PICK m, r, p, ap, ap2 : /\ m = memory /\ r = redis /\ p = pushed /\ ap = append /\ ap2 = append'
                             /\ memory' = m /\ redis' = r /\ pushed' = p
  OBVIOUS
<1>1. MemoryOK(m, ap) /\ StoreOK(r, p, ap) /\ GoesOn(ap, ap2)
  BY DEF LedgerIInv
<1>2. MemoryOK(m, ap2) /\ StoreOK(r, p, ap2)
  BY <1>1, MemoryStays, StoreStays
<1>. QED BY <1>2 DEF LedgerIInv

LEMMA SameGoesOn == \A ap : GoesOn(ap, ap)
BY DEF GoesOn

LEMMA ResumedStep ==
  ASSUME LedgerIInv, NEW i \in Instances, NEW ok \in BOOLEAN, resumed(i, ok),
         UNCHANGED <<memory, storeVars, reachable, writer>>,
         client' \in [Instances -> {"none", "live"}]
  PROVE  LedgerIInv'
<1>1. /\ append' = [s \in Rows |->
           IF writer[s] = i /\ append[s] = "connect"
           THEN IF ok THEN "push" ELSE "done" ELSE append[s]]
      /\ reading' = IF reading = [at |-> "connect", by |-> i]
                     THEN [reading EXCEPT !.at = IF ok THEN "read" ELSE "fallback"]
                     ELSE reading
      /\ UNCHANGED <<memory, redis, pushed, reachable, writer>>
  BY DEF resumed, storeVars
<1>2. JobsOK
  BY DEF LedgerIInv
<1>3. reading' \in [at : {"idle", "connect", "read", "fallback"}, by : Instances]
  BY <1>1, <1>2 DEF JobsOK
<1>4. append' \in [Rows -> {"new", "connect", "push", "trim", "done"}]
  BY <1>1, <1>2 DEF JobsOK
<1>5. GoesOn(append, append')
  <2>1. ASSUME NEW s \in Rows PROVE append'[s] = append[s] \/ (append[s] = "connect" /\ append'[s] \in {"push", "done"})
    BY <1>1
  <2>. QED BY <2>1 DEF GoesOn, Begun, Taken
<1>6. JobsOK'
  BY <1>1, <1>2, <1>3, <1>4 DEF JobsOK
<1>. QED BY <1>1, <1>5, <1>6, ListsStay

LEMMA RecordStep ==
  ASSUME LedgerIInv, NEW i \in Instances, NEW s \in Rows, RecordSettlement(i, s) PROVE LedgerIInv'
<1>1. JobsOK
  BY DEF LedgerIInv
<1>2. /\ append[s] = "new" /\ append' = [append EXCEPT ![s] = "connect"]
      /\ writer' = [writer EXCEPT ![s] = i]
      /\ memory' = [memory EXCEPT ![i][laneOf(s)] = capped(<<s>> \o @, CAPS[laneOf(s)])]
      /\ UNCHANGED <<redis, pushed, reachable, client, reading>>
  BY DEF RecordSettlement, storeVars
<1>3. JobsOK'
  BY <1>1, <1>2 DEF JobsOK
<1>. PICK m, r, p, ap, ap2 : m = memory /\ r = redis /\ p = pushed /\ ap = append /\ ap2 = append'
  OBVIOUS
<1>4. ap[s] = "new" /\ ap2[s] = "connect" /\ \A q \in Rows : q # s => ap2[q] = ap[q]
  BY <1>1, <1>2 DEF JobsOK
<1>5. GoesOn(ap, ap2)
  BY <1>4 DEF GoesOn, Begun, Taken
<1>6. MemoryOK(m, ap) /\ StoreOK(r, p, ap)
  BY DEF LedgerIInv
<1>7. MemoryOK([m EXCEPT ![i][laneOf(s)] = capped(<<s>> \o @, CAPS[laneOf(s)])], ap2)
  BY <1>4, <1>5, <1>6, MemoryAdds
<1>8. StoreOK(r, p, ap2)
  BY <1>5, <1>6, StoreStays
<1>9. memory' = [m EXCEPT ![i][laneOf(s)] = capped(<<s>> \o @, CAPS[laneOf(s)])]
      /\ redis' = r /\ pushed' = p /\ append' = ap2
  BY <1>2
<1>. QED BY <1>3, <1>7, <1>8, <1>9 DEF LedgerIInv

LEMMA PushStep ==
  ASSUME LedgerIInv, NEW s \in Rows, Push(s) PROVE LedgerIInv'
<1>1. JobsOK
  BY DEF LedgerIInv
<1>2. PICK stage \in {"trim", "done"} : append' = [append EXCEPT ![s] = stage]
  BY DEF Push
<1>3. append[s] = "push" /\ UNCHANGED <<memory, reachable, client, writer, reading>>
  BY DEF Push
<1>4. JobsOK'
  BY <1>1, <1>2, <1>3 DEF JobsOK
<1>. PICK r, p, ap, ap2 : r = redis /\ p = pushed /\ ap = append /\ ap2 = append'
  OBVIOUS
<1>5. ap[s] = "push" /\ ap2[s] = stage /\ \A q \in Rows : q # s => ap2[q] = ap[q]
  BY <1>1, <1>2, <1>3 DEF JobsOK
<1>6. GoesOn(ap, ap2) /\ ap2[s] \in Taken
  BY <1>5 DEF GoesOn, Begun, Taken
<1>7. CASE UNCHANGED storeVars
  BY <1>3, <1>4, <1>6, <1>7, ListsStay DEF storeVars
<1>8. CASE pushTo(laneOf(s), s)
  <2>1. StoreOK(r, p, ap)
    BY DEF LedgerIInv
  <2>2. StoreOK([r EXCEPT ![laneOf(s)] = <<s>> \o @], [p EXCEPT ![laneOf(s)] = <<s>> \o @], ap2)
    BY <2>1, <1>5, <1>6, StorePushes
  <2>3. /\ redis' = [r EXCEPT ![laneOf(s)] = <<s>> \o @]
        /\ pushed' = [p EXCEPT ![laneOf(s)] = <<s>> \o @]
    BY <1>8 DEF pushTo
  <2>4. StoreOK(redis', pushed', append')
    BY <2>2, <2>3
  <2>5. MemoryOK(memory', append')
    <3>1. PICK m : m = memory
      OBVIOUS
    <3>2. MemoryOK(m, ap)
      BY <3>1 DEF LedgerIInv
    <3>3. MemoryOK(m, ap2)
      BY <3>2, <1>6, MemoryStays
    <3>. QED BY <3>1, <3>3, <1>3
  <2>. QED BY <2>4, <2>5, <1>4 DEF LedgerIInv
<1>. QED BY <1>7, <1>8 DEF Push

LEMMA TrimStep ==
  ASSUME LedgerIInv, NEW s \in Rows, Trim(s) PROVE LedgerIInv'
<1>1. JobsOK
  BY DEF LedgerIInv
<1>2. /\ append[s] = "trim" /\ append' = [append EXCEPT ![s] = "done"]
      /\ UNCHANGED <<memory, reachable, client, writer, reading, pushed>>
  BY DEF Trim
<1>3. JobsOK'
  BY <1>1, <1>2 DEF JobsOK
<1>. PICK m, r, p, ap, ap2 : m = memory /\ r = redis /\ p = pushed /\ ap = append /\ ap2 = append'
  OBVIOUS
<1>4. ap[s] = "trim" /\ ap2[s] = "done" /\ \A q \in Rows : q # s => ap2[q] = ap[q]
  BY <1>1, <1>2 DEF JobsOK
<1>5. GoesOn(ap, ap2)
  BY <1>4 DEF GoesOn, Begun, Taken
<1>6. CASE UNCHANGED redis
  BY <1>2, <1>3, <1>5, <1>6, ListsStay
<1>7. CASE redis' = [redis EXCEPT ![laneOf(s)] = capped(@, kept(laneOf(s)))]
  <2>1. MemoryOK(m, ap) /\ StoreOK(r, p, ap) /\ laneOf(s) \in Lanes
    BY CapsArePositive DEF LedgerIInv
  <2>2. MemoryOK(m, ap2) /\ StoreOK(r, p, ap2)
    BY <2>1, <1>5, MemoryStays, StoreStays
  <2>3. StoreOK([r EXCEPT ![laneOf(s)] = capped(@, CAPS[laneOf(s)])], p, ap2)
    BY <2>1, <2>2, StoreTrims
  <2>4. redis' = [r EXCEPT ![laneOf(s)] = capped(@, CAPS[laneOf(s)])] /\ pushed' = p /\ memory' = m
        /\ append' = ap2
    BY <1>2, <1>7 DEF kept
  <2>. QED BY <2>2, <2>3, <2>4, <1>3 DEF LedgerIInv
<1>. QED BY <1>6, <1>7 DEF Trim

LEMMA ClearStep ==
  ASSUME LedgerIInv, NEW i \in Instances, Clear(i) PROVE LedgerIInv'
<1>. PICK m, r, p, ap : m = memory /\ r = redis /\ p = pushed /\ ap = append
  OBVIOUS
<1>1. MemoryOK(m, ap) /\ StoreOK(r, p, ap) /\ JobsOK
  BY DEF LedgerIInv
<1>2. memory' = [m EXCEPT ![i] = [lane \in Lanes |-> <<>>]] /\ append' = ap /\ JobsOK'
  BY <1>1 DEF Clear, jobVars, JobsOK
<1>3. MemoryOK(memory', append')
  BY <1>1, <1>2, MemoryEmptied
<1>4. StoreOK(redis', pushed', append')
  <2>1. StoreOK([lane \in Lanes |-> <<>>], [lane \in Lanes |-> <<>>], ap)
    BY StoreEmptied
  <2>2. CASE client[i] = "live"
    <3>1. redis' = [lane \in Lanes |-> <<>>] /\ pushed' = [lane \in Lanes |-> <<>>]
      BY <2>2 DEF Clear
    <3>. QED BY <2>1, <3>1, <1>2
  <2>3. CASE client[i] # "live"
    <3>1. redis' = r /\ pushed' = p
      BY <2>3 DEF Clear, storeVars
    <3>. QED BY <3>1, <1>1, <1>2
  <2>. QED BY <2>2, <2>3
<1>. QED BY <1>2, <1>3, <1>4 DEF LedgerIInv

LEMMA IdleReads == idle \in [at : {"idle", "connect", "read", "fallback"}, by : Instances]
BY LedgerAssumption DEF idle

LEMMA RestartInstanceStep ==
  ASSUME LedgerIInv, NEW i \in Instances, RestartInstance(i) PROVE LedgerIInv'
<1>. PICK m, r, p, ap, ap2 : m = memory /\ r = redis /\ p = pushed /\ ap = append /\ ap2 = append'
  OBVIOUS
<1>1. MemoryOK(m, ap) /\ StoreOK(r, p, ap) /\ JobsOK
  BY DEF LedgerIInv
<1>2. /\ memory' = [m EXCEPT ![i] = [lane \in Lanes |-> <<>>]] /\ redis' = r /\ pushed' = p
      /\ client' = [client EXCEPT ![i] = "none"]
      /\ append' = [s \in Rows |-> IF writer[s] = i /\ append[s] # "new" THEN "done" ELSE append[s]]
      /\ reading' = IF reading.by = i THEN idle ELSE reading
      /\ UNCHANGED <<reachable, writer>>
  BY DEF RestartInstance, storeVars
<1>3. JobsOK'
  BY <1>1, <1>2, IdleReads DEF JobsOK
<1>4. GoesOn(ap, ap2)
  <2>1. ASSUME NEW s \in Rows PROVE ap2[s] = ap[s] \/ ap2[s] = "done"
    BY <1>2
  <2>. QED BY <2>1 DEF GoesOn, Begun, Taken
<1>5. MemoryOK(m, ap2) /\ StoreOK(r, p, ap2)
  BY <1>1, <1>4, MemoryStays, StoreStays
<1>6. MemoryOK(memory', append')
  BY <1>2, <1>5, MemoryEmptied
<1>. QED BY <1>2, <1>3, <1>5, <1>6 DEF LedgerIInv

LEMMA LedgerStep == LedgerIInv /\ [LedgerNext]_ledgerVars => LedgerIInv'
<1>. SUFFICES ASSUME LedgerIInv, [LedgerNext]_ledgerVars PROVE LedgerIInv'
  OBVIOUS
<1>0. JobsOK
  BY DEF LedgerIInv
<1>1. ASSUME NEW i \in Instances, Connect(i) PROVE LedgerIInv'
  <2>1. PICK ok \in BOOLEAN : client' = [client EXCEPT ![i] = afterConnect(ok)] /\ resumed(i, ok)
    BY <1>1 DEF Connect
  <2>2. client' \in [Instances -> {"none", "live"}]
    BY <2>1, <1>0 DEF JobsOK, afterConnect
  <2>. QED BY <2>1, <2>2, <1>1, ResumedStep DEF Connect
<1>2. ASSUME NEW i \in Instances, UseClient(i) PROVE LedgerIInv'
  <2>1. PICK ok \in BOOLEAN : ok = (client[i] = "live")
    OBVIOUS
  <2>2. resumed(i, ok) /\ UNCHANGED <<memory, storeVars, reachable, client, writer>>
    BY <2>1, <1>2 DEF UseClient
  <2>3. client' \in [Instances -> {"none", "live"}]
    BY <2>2, <1>0 DEF JobsOK
  <2>. QED BY <2>2, <2>3, ResumedStep
<1>3. ASSUME UNCHANGED <<memory, redis, pushed, client, append, writer>>, reachable' \in BOOLEAN,
             reading' \in [at : {"idle", "connect", "read", "fallback"}, by : Instances]
      PROVE  LedgerIInv'
  <2>1. JobsOK'
    BY <1>0, <1>3 DEF JobsOK
  <2>2. GoesOn(append, append')
    BY <1>3 DEF GoesOn
  <2>. QED BY <2>1, <2>2, <1>3, ListsStay
<1>4. ASSUME NEW i \in Instances, OpenDashboard(i) PROVE LedgerIInv'
  BY <1>0, <1>3, <1>4 DEF OpenDashboard, storeVars, JobsOK
<1>5. CASE ReadDashboard
  BY <1>0, <1>3, <1>5, IdleReads DEF ReadDashboard, storeVars, JobsOK
<1>6. CASE Outage
  BY <1>0, <1>3, <1>6 DEF Outage, storeVars, jobVars, JobsOK
<1>7. CASE UNCHANGED ledgerVars
  BY <1>0, <1>3, <1>7 DEF ledgerVars, JobsOK
<1>. QED BY <1>1, <1>2, <1>4, <1>5, <1>6, <1>7, RecordStep, PushStep, TrimStep,
    ClearStep,
            RestartInstanceStep DEF LedgerNext, connectionStep

LEMMA LedgerInitially == LedgerInit => LedgerIInv
<1>. SUFFICES ASSUME LedgerInit PROVE LedgerIInv
  OBVIOUS
<1>. PICK ap, e : ap = append /\ e = [lane \in Lanes |-> <<>>]
  OBVIOUS
<1>1. StoreOK(e, e, ap)
  BY StoreEmptied
<1>2. MemoryOK([i \in Instances |-> e], ap)
  <2>1. \A lane \in Lanes : Recorded(<<>>, lane, ap, Begun) /\ Len(<<>>) <= CAPS[lane]
    BY NoneRecorded, CapsArePositive
  <2>. QED BY <2>1 DEF MemoryOK
<1>3. JobsOK
  BY IdleReads, LedgerAssumption DEF LedgerInit, JobsOK
<1>. QED BY <1>1, <1>2, <1>3 DEF LedgerInit, LedgerIInv

\* The ledger at any size: a dashboard shows rows that were recorded, each
\* once, in their own lane and no more than the lane's cap, and Redis holds the
\* newest of what it took (ledger.ts).
THEOREM LedgerHolds == LedgerSpec => []LedgerInv
<1>1. LedgerIInv => LedgerInv
  <2>. SUFFICES ASSUME LedgerIInv PROVE LedgerInv
    OBVIOUS
  <2>1. /\ \A i \in Instances, lane \in Lanes :
             Recorded(memory[i][lane], lane, append, Begun) /\ Len(memory[i][lane]) <= CAPS[lane]
        /\ \A lane \in Lanes :
             Recorded(pushed[lane], lane, append, Taken) /\ NewestKept(redis[lane], pushed[lane], CAPS[lane])
    BY DEF LedgerIInv, MemoryOK, StoreOK
  <2>2. LedgerTypeOK
    BY <2>1 DEF LedgerTypeOK, LedgerIInv, JobsOK, Recorded, NewestKept
  \* What Redis holds is recorded as what it took is.
  <2>3. ASSUME NEW lane \in Lanes PROVE Recorded(redis[lane], lane, append, Begun)
    <3>1. /\ Len(redis[lane]) \in Nat /\ Len(pushed[lane]) \in Nat
          /\ Len(redis[lane]) <= Len(pushed[lane]) /\ redis[lane] \in Seq(Rows)
          /\ \A n \in 1 .. Len(redis[lane]) : redis[lane][n] = pushed[lane][n]
      BY <2>1, LenProperties DEF NewestKept, Recorded
    <3>2. \A n \in 1 .. Len(redis[lane]) : n \in 1 .. Len(pushed[lane])
      BY <3>1
    <3>. QED BY <2>1, <3>1, <3>2 DEF Recorded, Begun, Taken
  <2>4. LanesKeepNewest
    <3>1. ASSUME NEW lane \in Lanes
          PROVE  /\ IsPrefix(redis[lane], pushed[lane])
                 /\ Len(redis[lane]) >= CAPS[lane] \/ redis[lane] = pushed[lane]
                 /\ ToSet(redis[lane]) \subseteq {s \in Rows : (s \in RealRows) = (lane = "real")}
      <4>. PICK r, p : r = redis[lane] /\ p = pushed[lane]
        OBVIOUS
      <4>1. /\ r \in Seq(Rows) /\ p \in Seq(Rows) /\ Len(r) \in Nat /\ Len(p) \in Nat
            /\ Len(r) <= Len(p) /\ \A n \in 1 .. Len(r) : r[n] = p[n]
        BY <2>1, LenProperties DEF NewestKept, Recorded
      <4>2. SubSeq(r, 1, Len(r)) = SubSeq(p, 1, Len(r))
        <5>1. SubSeq(r, 1, Len(r)) = r
          BY <4>1, SubSeqFull
        <5>2. \A n \in 1 .. Len(r) : p[n] \in Rows
          BY <4>1, ElementOfSeq
        <5>3. /\ SubSeq(p, 1, Len(r)) \in Seq(Rows)
              /\ Len(SubSeq(p, 1, Len(r))) = IF 1 <= Len(r) THEN Len(r) - 1 + 1 ELSE 0
              /\ \A n \in 1 .. Len(r) - 1 + 1 : SubSeq(p, 1, Len(r))[n] = p[1 + n - 1]
          BY <4>1, <5>2, SubSeqProperties
        <5>4. /\ Len(SubSeq(p, 1, Len(r))) = Len(r)
              /\ \A n \in 1 .. Len(r) : SubSeq(p, 1, Len(r))[n] = r[n]
          BY <4>1, <5>3
        <5>. QED BY <4>1, <5>1, <5>3, <5>4, SeqEqual
      <4>3. IsPrefix(r, p)
        BY <4>1, <4>2 DEF IsPrefix
      <4>4. ToSet(r) \subseteq {s \in Rows : (s \in RealRows) = (lane = "real")}
        <5>1. \A n \in DOMAIN r : r[n] \in Rows /\ laneOf(r[n]) = lane
          BY <2>3, <4>1, ElementOfSeq, LenProperties DEF Recorded
        <5>2. \A s \in Rows : laneOf(s) = lane => (s \in RealRows) = (lane = "real")
          BY DEF laneOf
        <5>. QED BY <5>1, <5>2 DEF ToSet
      <4>. QED BY <2>1, <4>3, <4>4 DEF NewestKept
    <3>. QED BY <3>1 DEF LanesKeepNewest
  <2>5. DashboardIsHonest
    <3>1. ASSUME NEW rows, Recorded(rows, "real", append, Begun)
          PROVE  /\ IsInjective(settled(rows))
                 /\ Range(settled(rows)) \subseteq {s \in RealRows \cap SettledRows : append[s] # "new"}
      <4>1. /\ DOMAIN rows = 1 .. Len(rows) /\ \A n \in 1 .. Len(rows) : rows[n] \in Rows
        BY <3>1, ElementOfSeq, LenProperties DEF Recorded
      <4>2. \A n \in DOMAIN settled(rows) :
              n \in 1 .. Len(rows) /\ settled(rows)[n] = rows[n] /\ rows[n] \in SettledRows
        BY <4>1 DEF settled
      <4>3. IsInjective(settled(rows))
        BY <3>1, <4>2 DEF Recorded, IsInjective
      <4>4. \A n \in DOMAIN settled(rows) :
              settled(rows)[n] \in {s \in RealRows \cap SettledRows : append[s] # "new"}
        BY <3>1, <4>1, <4>2 DEF Recorded, laneOf, Begun
      <4>. QED BY <4>3, <4>4 DEF Range
    <3>2. ASSUME NEW i \in Instances
          PROVE  Recorded(readLane(i, "real"), "real", append, Begun)
                 /\ Recorded(memory[i]["real"], "real", append, Begun)
      BY <2>1, <2>3 DEF readLane, Lanes
    <3>. QED BY <3>1, <3>2 DEF DashboardIsHonest, readRealSettlements
  <2>. QED BY <2>2, <2>4, <2>5 DEF LedgerInv
<1>. QED BY <1>1, LedgerInitially, LedgerStep, PTL DEF LedgerSpec

-----------------------------------------------------------------------------
(***************************************************************************)
(* RateLimit.                                                              *)
(*                                                                         *)
(* Beside the promises the invariant counts, per client, what passed in    *)
(* the window that is open and in any stretch of a window's length before  *)
(* it.                                                                     *)
(***************************************************************************)
\* The entries of a sequence of times that lie in a stretch.
within(s, lo, hi) == {n \in 1 .. Len(s) : lo <= s[n] /\ s[n] < hi}

\* No window is open at t: what passed less than a window ago is one window's.
Quiet(s, t) ==
  /\ \A n \in 1 .. Len(s) : s[n] < t
  /\ \A from \in 0 .. MaxTime : from > t - Window => Cardinality(within(s, from, t)) <= Limit

\* A window began at b; k requests have passed in it, and what passed less than
\* a window before it is one window's.
Opened(s, b, k) ==
  /\ \A n \in 1 .. Len(s) : s[n] < b + Window
  /\ Cardinality(within(s, b, b + Window)) = k
  /\ \A from \in 0 .. MaxTime : from > b - Window => Cardinality(within(s, from, b)) <= Limit

Calm(s) ==
  \A from \in 0 .. MaxTime : Cardinality(within(s, from, from + Window)) <= 2 * Limit

begun(c) == buckets[c].resetAt - Window

WindowsAreCounted ==
  \A c \in Clients :
    /\ c \in DOMAIN buckets => /\ begun(c) \in 0 .. clock
                               /\ Opened(admissions[c], begun(c), buckets[c].count)
    /\ c \notin DOMAIN buckets => Quiet(admissions[c], clock)
    /\ Calm(admissions[c])

HintsHold ==
  \A c \in Clients : retryAt[c] # 0 /\ c \in DOMAIN buckets => buckets[c].resetAt <= retryAt[c]

\* The inductive invariant.
LimitIInv == LimitTypeOK /\ OnlyLiveWindowsPastTheCap /\ WindowsAreCounted /\ HintsHold

\* Whatever addresses a client forges, the hop the limiter trusts is its own.
LEMMA HeaderTells ==
  ASSUME NEW c \in Clients, NEW forged \in BoundedSeq(Clients, MaxForged)
  PROVE  clientIp(forged \o <<c>> \o Proxies) = c
<1>1. /\ forged \in Seq(Clients) /\ Proxies \in Seq(Clients) /\ <<c>> \in Seq(Clients)
      /\ TRUSTED_PROXY_HOPS = Len(Proxies) + 1
  BY RateLimitAssumption DEF BoundedSeq, SeqOf
<1>2. /\ Len(forged \o <<c>> \o Proxies) = Len(forged) + 1 + Len(Proxies)
      /\ (forged \o <<c>> \o Proxies)[Len(forged) + 1] = c
  BY <1>1
<1>3. Len(forged) \in Nat /\ Len(Proxies) \in Nat
  BY <1>1
<1>4. Len(forged \o <<c>> \o Proxies) - TRUSTED_PROXY_HOPS + 1 = Len(forged) + 1 /\ Len(forged) + 1 >= 1
  BY <1>1, <1>2, <1>3
<1>. QED BY <1>2, <1>4 DEF clientIp

\* The seconds of Retry-After cover the rest of the window.
LEMMA HintCovers ==
  ASSUME NEW d \in Nat, d > 0, NEW n \in Nat \ {0}
  PROVE  LET secs == (d + n - 1) \div n
             w == IF secs < 1 THEN 1 ELSE secs
         IN  w \in Nat \ {0} /\ d <= w * n /\ w * n <= d + n
<1>1. PICK q \in Int : q = (d + n - 1) \div n
  OBVIOUS
<1>2. q * n <= d + n - 1 /\ d + n - 1 < q * n + n
  BY <1>1, SMTT(30)
<1>3. q >= 1
  BY <1>2, SMTT(30)
<1>4. d <= q * n /\ q * n <= d + n
  BY <1>2, <1>3, SMTT(30)
<1>. QED BY <1>1, <1>3, <1>4

\* Counting entries.
LEMMA WithinCounts ==
  ASSUME NEW s \in Seq(Nat), NEW lo \in Int, NEW hi \in Int
  PROVE  IsFiniteSet(within(s, lo, hi)) /\ Cardinality(within(s, lo, hi)) \in Nat
<1>1. IsFiniteSet(1 .. Len(s))
  BY FS_Interval, LenProperties
<1>2. within(s, lo, hi) \in SUBSET (1 .. Len(s))
  BY DEF within
<1>3. IsFiniteSet(within(s, lo, hi))
  BY <1>1, <1>2, FS_Subset
<1>. QED BY <1>3, FS_CardinalityType

\* A shorter stretch counts no more ...
LEMMA WithinLess ==
  ASSUME NEW s \in Seq(Nat), NEW lo \in Int, NEW hi \in Int, NEW lo2 \in Int, NEW hi2 \in Int,
         within(s, lo, hi) \subseteq within(s, lo2, hi2)
  PROVE  Cardinality(within(s, lo, hi)) <= Cardinality(within(s, lo2, hi2))
<1>1. IsFiniteSet(within(s, lo2, hi2)) /\ within(s, lo, hi) \in SUBSET within(s, lo2, hi2)
  BY WithinCounts
<1>. QED BY <1>1, FS_Subset

\* ... a stretch is its two parts ...
LEMMA WithinSplit ==
  ASSUME NEW s \in Seq(Nat), NEW lo \in Int, NEW mid \in Int, NEW hi \in Int
  PROVE  Cardinality(within(s, lo, hi))
           <= Cardinality(within(s, lo, mid)) + Cardinality(within(s, mid, hi))
<1>. DEFINE A == within(s, lo, mid)
            B == within(s, mid, hi)
<1>1. /\ IsFiniteSet(A) /\ IsFiniteSet(B)
      /\ Cardinality(A) \in Nat /\ Cardinality(B) \in Nat
  BY WithinCounts
<1>2. within(s, lo, hi) \in SUBSET (A \cup B)
  <2>1. \A n \in 1 .. Len(s) : s[n] \in Nat
    BY ElementOfSeq
  <2>. QED BY <2>1 DEF within
<1>. HIDE DEF A, B
<1>3. /\ IsFiniteSet(A \cup B)
      /\ Cardinality(A \cup B) = Cardinality(A) + Cardinality(B) - Cardinality(A \cap B)
  BY <1>1, FS_Union
<1>4. Cardinality(A \cap B) \in Nat
  <2>1. IsFiniteSet(A \cap B)
    BY <1>1, FS_Subset
  <2>. QED BY <2>1, FS_CardinalityType
<1>5. Cardinality(within(s, lo, hi)) <= Cardinality(A \cup B)
  BY <1>2, <1>3, FS_Subset
<1>6. Cardinality(within(s, lo, hi)) \in Nat
  BY WithinCounts
<1>7. Cardinality(within(s, lo, hi)) <= Cardinality(A) + Cardinality(B)
  BY <1>1, <1>3, <1>4, <1>5, <1>6
<1>. QED BY <1>7 DEF A, B

\* ... and a later entry counts where it lies.
LEMMA WithinAppend ==
  ASSUME NEW s \in Seq(Nat), NEW x \in Nat, NEW lo \in Int, NEW hi \in Int
  PROVE  /\ ~ (lo <= x /\ x < hi) => within(Append(s, x), lo, hi) = within(s, lo, hi)
         /\ lo <= x /\ x < hi => Cardinality(within(Append(s, x), lo, hi))
                                   = Cardinality(within(s, lo, hi)) + 1
<1>1. /\ Len(Append(s, x)) = Len(s) + 1 /\ Len(s) \in Nat
      /\ \A n \in 1 .. Len(s) : Append(s, x)[n] = s[n]
      /\ Append(s, x)[Len(s) + 1] = x
  BY AppendProperties, LenProperties
<1>2. within(Append(s, x), lo, hi)
        = within(s, lo, hi) \cup IF lo <= x /\ x < hi THEN {Len(s) + 1} ELSE {}
  BY <1>1 DEF within
<1>3. Len(s) + 1 \notin within(s, lo, hi)
  BY <1>1 DEF within
<1>. QED BY <1>2, <1>3, WithinCounts, FS_AddElement

LEMMA SmallBounds == Limit \in Nat \ {0} /\ Window \in Nat \ {0} /\ MaxTime \in Nat
                     /\ TicksPerSec \in Nat \ {0} /\ MaxBuckets \in Nat \ {0}
BY RateLimitAssumption

\* Time passes.
LEMMA QuietLater ==
  ASSUME NEW s \in Seq(Nat), NEW t \in Nat, NEW u \in Nat, u = t + 1, Quiet(s, t)
  PROVE  Quiet(s, u)
<1>0. \A n \in 1 .. Len(s) : s[n] \in Nat
  BY ElementOfSeq
<1>1. ASSUME NEW from \in 0 .. MaxTime, from > u - Window
      PROVE  Cardinality(within(s, from, u)) <= Limit
  <2>1. within(s, from, u) = within(s, from, t)
    BY <1>0 DEF within, Quiet
  <2>2. from > t - Window
    BY <1>1, SmallBounds
  <2>. QED BY <2>1, <2>2 DEF Quiet
<1>2. \A n \in 1 .. Len(s) : s[n] < u
  BY <1>0 DEF Quiet
<1>. QED BY <1>1, <1>2 DEF Quiet

\* A window ends.
LEMMA BegunEnds ==
  ASSUME NEW s \in Seq(Nat), NEW b \in Nat, NEW k \in 1 .. Limit, NEW t \in Nat,
         t >= b + Window, Opened(s, b, k)
  PROVE  Quiet(s, t)
<1>0. \A n \in 1 .. Len(s) : s[n] \in Nat
  BY ElementOfSeq
<1>1. \A n \in 1 .. Len(s) : s[n] < t
  BY <1>0, SmallBounds DEF Opened
<1>2. ASSUME NEW from \in 0 .. MaxTime, from > t - Window
      PROVE  Cardinality(within(s, from, t)) <= Limit
  <2>1. within(s, from, t) \subseteq within(s, b, b + Window)
    BY <1>0, <1>2, SmallBounds DEF within, Opened
  <2>2. Cardinality(within(s, from, t)) <= Cardinality(within(s, b, b + Window))
    BY <2>1, WithinLess, SmallBounds
  <2>3. Cardinality(within(s, from, t)) \in Nat
    BY WithinCounts
  <2>. QED BY <2>2, <2>3, SmallBounds DEF Opened
<1>. QED BY <1>1, <1>2 DEF Quiet

\* What passed in a window and just before it are two windows' at most.
LEMMA BegunIsCalm ==
  ASSUME NEW s \in Seq(Nat), NEW b \in Nat, NEW k \in 1 .. Limit, Opened(s, b, k),
         \A from \in 0 .. MaxTime : from <= b - Window =>
           Cardinality(within(s, from, from + Window)) <= 2 * Limit
  PROVE  Calm(s)
<1>0. /\ \A n \in 1 .. Len(s) : s[n] \in Nat /\ s[n] < b + Window
      /\ Cardinality(within(s, b, b + Window)) \in Nat
      /\ Cardinality(within(s, b, b + Window)) <= Limit
  BY ElementOfSeq, WithinCounts, SmallBounds DEF Opened
<1>1. ASSUME NEW from \in 0 .. MaxTime, from > b - Window
      PROVE  Cardinality(within(s, from, from + Window)) <= 2 * Limit
  <2>0. PICK n1 \in Nat : n1 = Cardinality(within(s, from, from + Window))
    BY WithinCounts, SmallBounds
  <2>1. CASE from <= b
    <3>1. PICK n2 \in Nat : n2 = Cardinality(within(s, from, b))
      BY WithinCounts
    <3>2. PICK n3 \in Nat : n3 = Cardinality(within(s, b, from + Window))
      BY WithinCounts, SmallBounds
    <3>3. n1 <= n2 + n3
      BY <2>0, <3>1, <3>2, WithinSplit, SmallBounds
    <3>4. n2 <= Limit
      BY <3>1, <1>1 DEF Opened
    <3>5. n3 <= Limit
      <4>1. within(s, b, from + Window) \subseteq within(s, b, b + Window)
        BY <2>1, <1>0, SmallBounds DEF within
      <4>2. n3 <= Cardinality(within(s, b, b + Window))
        BY <4>1, <3>2, WithinLess, SmallBounds
      <4>. QED BY <4>2, <1>0, SmallBounds
    <3>. QED BY <2>0, <3>3, <3>4, <3>5, SmallBounds
  <2>2. CASE from > b
    <3>1. within(s, from, from + Window) \subseteq within(s, b, b + Window)
      BY <2>2, <1>0, SmallBounds DEF within
    <3>2. n1 <= Cardinality(within(s, b, b + Window))
      BY <3>1, <2>0, WithinLess, SmallBounds
    <3>. QED BY <3>2, <2>0, <1>0, SmallBounds
  <2>. QED BY <2>1, <2>2
<1>2. \A from \in 0 .. MaxTime : from > b - Window \/ from <= b - Window
  BY SmallBounds
<1>. QED BY <1>1, <1>2 DEF Calm

\* A window begins with a request.
LEMMA QuietBegins ==
  ASSUME NEW s \in Seq(Nat), NEW t \in Nat, Quiet(s, t), Calm(s)
  PROVE  Opened(Append(s, t), t, 1) /\ Calm(Append(s, t))
<1>0. /\ \A n \in 1 .. Len(s) : s[n] \in Nat /\ s[n] < t
      /\ Len(Append(s, t)) = Len(s) + 1 /\ Len(s) \in Nat /\ Append(s, t) \in Seq(Nat)
      /\ \A n \in 1 .. Len(s) : Append(s, t)[n] = s[n]
      /\ Append(s, t)[Len(s) + 1] = t
  BY ElementOfSeq, AppendProperties, LenProperties DEF Quiet
<1>1. \A n \in 1 .. Len(Append(s, t)) : Append(s, t)[n] < t + Window
  BY <1>0, SmallBounds
<1>2. Cardinality(within(Append(s, t), t, t + Window)) = 1
  <2>1. within(s, t, t + Window) = {}
    BY <1>0 DEF within
  <2>2. Cardinality(within(Append(s, t), t, t + Window)) = Cardinality(within(s, t, t + Window)) + 1
    BY WithinAppend, SmallBounds
  <2>3. Cardinality(within(s, t, t + Window)) = 0
    BY <2>1, FS_EmptySet
  <2>. QED BY <2>2, <2>3
<1>3. ASSUME NEW from \in 0 .. MaxTime, from > t - Window
      PROVE  Cardinality(within(Append(s, t), from, t)) <= Limit
  <2>1. within(Append(s, t), from, t) = within(s, from, t)
    BY WithinAppend
  <2>. QED BY <2>1, <1>3 DEF Quiet
<1>4. Opened(Append(s, t), t, 1)
  BY <1>1, <1>2, <1>3 DEF Opened
<1>5. ASSUME NEW from \in 0 .. MaxTime, from <= t - Window
      PROVE  Cardinality(within(Append(s, t), from, from + Window)) <= 2 * Limit
  <2>1. within(Append(s, t), from, from + Window) = within(s, from, from + Window)
    BY <1>5, WithinAppend, SmallBounds
  <2>. QED BY <2>1 DEF Calm
<1>6. 1 \in 1 .. Limit
  BY SmallBounds
<1>. QED BY <1>0, <1>4, <1>5, <1>6, BegunIsCalm

\* A request passes in an open window.
LEMMA BegunCounts ==
  ASSUME NEW s \in Seq(Nat), NEW b \in Nat, NEW k \in 1 .. Limit, NEW t \in Nat,
         k < Limit, b <= t, t < b + Window, Opened(s, b, k), Calm(s)
  PROVE  Opened(Append(s, t), b, k + 1) /\ Calm(Append(s, t))
<1>0. /\ \A n \in 1 .. Len(s) : s[n] \in Nat /\ s[n] < b + Window
      /\ Len(Append(s, t)) = Len(s) + 1 /\ Len(s) \in Nat /\ Append(s, t) \in Seq(Nat)
      /\ \A n \in 1 .. Len(s) : Append(s, t)[n] = s[n]
      /\ Append(s, t)[Len(s) + 1] = t
  BY ElementOfSeq, AppendProperties, LenProperties DEF Opened
<1>1. \A n \in 1 .. Len(Append(s, t)) : Append(s, t)[n] < b + Window
  BY <1>0
<1>2. Cardinality(within(Append(s, t), b, b + Window)) = k + 1
  BY WithinAppend, SmallBounds DEF Opened
<1>3. ASSUME NEW from \in 0 .. MaxTime, from > b - Window
      PROVE  Cardinality(within(Append(s, t), from, b)) <= Limit
  <2>1. within(Append(s, t), from, b) = within(s, from, b)
    BY WithinAppend
  <2>. QED BY <2>1, <1>3 DEF Opened
<1>4. Opened(Append(s, t), b, k + 1)
  BY <1>1, <1>2, <1>3 DEF Opened
<1>5. ASSUME NEW from \in 0 .. MaxTime, from <= b - Window
      PROVE  Cardinality(within(Append(s, t), from, from + Window)) <= 2 * Limit
  <2>1. within(Append(s, t), from, from + Window) = within(s, from, from + Window)
    BY <1>5, WithinAppend, SmallBounds
  <2>. QED BY <2>1 DEF Calm
<1>6. k + 1 \in 1 .. Limit
  BY SmallBounds
<1>. QED BY <1>0, <1>4, <1>5, <1>6, BegunIsCalm

-----------------------------------------------------------------------------
\* The parts of the invariant, by client.
LEMMA LimitParts ==
  ASSUME LimitIInv
  PROVE  /\ clock \in 0 .. MaxTime /\ DOMAIN buckets \subseteq Clients
         /\ \A c \in Clients : admissions[c] \in Seq(Nat)
         /\ \A c \in DOMAIN buckets :
              /\ buckets[c].count \in 1 .. Limit /\ begun(c) \in 0 .. clock
              /\ buckets[c].resetAt \in Nat /\ buckets[c].resetAt = begun(c) + Window
              /\ buckets[c] = [count |-> buckets[c].count, resetAt |-> buckets[c].resetAt]
<1>1. clock \in 0 .. MaxTime /\ DOMAIN buckets \subseteq Clients
  BY DEF LimitIInv, LimitTypeOK
<1>2. ASSUME NEW c \in Clients PROVE admissions[c] \in Seq(Nat)
  <2>1. admissions[c] \in Seq(0 .. clock)
    BY DEF LimitIInv, LimitTypeOK
  <2>. QED BY <2>1, <1>1
<1>3. ASSUME NEW c \in DOMAIN buckets
      PROVE  /\ buckets[c].count \in 1 .. Limit /\ begun(c) \in 0 .. clock
             /\ buckets[c].resetAt \in Nat /\ buckets[c].resetAt = begun(c) + Window
             /\ buckets[c] = [count |-> buckets[c].count, resetAt |-> buckets[c].resetAt]
  <2>1. buckets[c] \in [count : 1 .. Limit, resetAt : 1 .. clock + Window]
    BY DEF LimitIInv, LimitTypeOK
  <2>2. begun(c) \in 0 .. clock
    BY <1>1 DEF LimitIInv, WindowsAreCounted
  <2>. QED BY <2>1, <2>2, SmallBounds DEF begun
<1>. QED BY <1>1, <1>2, <1>3

\* A client whose window is over is quiet.
LEMMA OverIsQuiet ==
  ASSUME LimitIInv, NEW c \in Clients, over(c)
  PROVE  Quiet(admissions[c], clock)
<1>1. CASE c \notin DOMAIN buckets
  BY <1>1 DEF LimitIInv, WindowsAreCounted
<1>2. CASE c \in DOMAIN buckets /\ buckets[c].resetAt <= clock
  <2>1. PICK s \in Seq(Nat), b \in Nat, k \in 1 .. Limit, t \in Nat :
          s = admissions[c] /\ b = begun(c) /\ k = buckets[c].count /\ t = clock
    BY <1>2, LimitParts
  <2>2. Opened(s, b, k)
    BY <1>2, <2>1 DEF LimitIInv, WindowsAreCounted
  <2>3. t >= b + Window
    BY <1>2, <2>1, LimitParts
  <2>4. Quiet(s, t)
    BY <2>2, <2>3, BegunEnds
  <2>. QED BY <2>1, <2>4
<1>. QED BY <1>1, <1>2 DEF over

\* A sequence of past times with the present one appended.
LEMMA LaterTimes ==
  ASSUME NEW t \in Nat, NEW s \in Seq(0 .. t)
  PROVE  Append(s, t) \in Seq(0 .. t) /\ s \in Seq(0 .. t + 1)
<1>1. t \in 0 .. t /\ 0 .. t \subseteq 0 .. t + 1
  OBVIOUS
<1>2. Append(s, t) \in Seq(0 .. t)
  BY <1>1, AppendProperties
<1>. QED BY <1>1, <1>2

\* What the map holds after a window began: the new one, and of the others those
\* that were there, the ended ones perhaps dropped.
LEMMA Begins ==
  ASSUME LimitIInv, NEW c \in Clients, over(c), NEW map, map = swept(withWindow(c))
  PROVE  /\ DOMAIN map \subseteq Clients /\ c \in DOMAIN map
         /\ map[c] = [count |-> 1, resetAt |-> clock + Window]
         /\ \A d \in Clients : d # c => /\ d \in DOMAIN map => d \in DOMAIN buckets /\ map[d] = buckets[d]
                                        /\ d \notin DOMAIN map => over(d)
         /\ Cardinality(DOMAIN map) > MaxBuckets => \A d \in DOMAIN map : map[d].resetAt > clock
<1>. PICK all : all = withWindow(c)
  OBVIOUS
<1>1. /\ DOMAIN all = DOMAIN buckets \cup {c} /\ all[c] = [count |-> 1, resetAt |-> clock + Window]
      /\ \A d \in DOMAIN buckets : d # c => all[d] = buckets[d]
  BY DEF withWindow
<1>2. /\ clock \in Nat /\ DOMAIN buckets \subseteq Clients /\ Window \in Nat \ {0}
      /\ all[c].resetAt > clock
  BY <1>1, LimitParts, SmallBounds
<1>3. CASE Cardinality(DOMAIN all) > MaxBuckets
  <2>1. map = [k \in {k \in DOMAIN all : all[k].resetAt > clock} |-> all[k]]
    BY <1>3 DEF swept
  <2>2. \A d \in DOMAIN map : d \in DOMAIN all /\ map[d] = all[d] /\ all[d].resetAt > clock
    BY <2>1
  <2>3. \A d \in DOMAIN all : d \notin DOMAIN map => ~ (all[d].resetAt > clock)
    BY <2>1
  <2>4. \A d \in Clients : d # c /\ d \notin DOMAIN map => over(d)
    <3>1. ASSUME NEW d \in Clients, d # c, d \notin DOMAIN map, d \in DOMAIN buckets
          PROVE  buckets[d].resetAt <= clock
      <4>1. ~ (buckets[d].resetAt > clock) /\ buckets[d].resetAt \in Nat
        BY <3>1, <2>3, <1>1, LimitParts
      <4>. QED BY <4>1, <1>2
    <3>. QED BY <3>1 DEF over
  <2>. QED BY <2>1, <2>2, <2>4, <1>1, <1>2
<1>4. CASE ~ (Cardinality(DOMAIN all) > MaxBuckets)
  <2>1. map = all
    BY <1>4 DEF swept
  <2>. QED BY <2>1, <1>1, <1>2, <1>4 DEF over
<1>. QED BY <1>3, <1>4

\* A request begins a window.
LEMMA BeginStep ==
  ASSUME LimitIInv, NEW c \in Clients, over(c), buckets' = swept(withWindow(c)),
         admissions' = [admissions EXCEPT ![c] = Append(@, clock)],
         retryAt' = [retryAt EXCEPT ![c] = 0], clock' = clock
  PROVE  LimitIInv'
<1>. PICK map : map = buckets'
  OBVIOUS
<1>1. /\ DOMAIN map \subseteq Clients /\ c \in DOMAIN map
      /\ map[c] = [count |-> 1, resetAt |-> clock + Window]
      /\ \A d \in Clients : d # c => /\ d \in DOMAIN map => d \in DOMAIN buckets /\ map[d] = buckets[d]
                                     /\ d \notin DOMAIN map => over(d)
      /\ Cardinality(DOMAIN map) > MaxBuckets => \A d \in DOMAIN map : map[d].resetAt > clock
  BY Begins
<1>2. /\ clock \in 0 .. MaxTime /\ clock \in Nat
      /\ \A d \in Clients : admissions[d] \in Seq(Nat)
      /\ admissions \in [Clients -> Seq(0 .. clock)]
      /\ retryAt \in [Clients -> 0 .. MaxTime + Window + TicksPerSec]
  BY LimitParts DEF LimitIInv, LimitTypeOK
<1>3. /\ admissions' \in [Clients -> Seq(0 .. clock)]
      /\ admissions'[c] = Append(admissions[c], clock)
      /\ \A d \in Clients : d # c => admissions'[d] = admissions[d]
  <2>1. Append(admissions[c], clock) \in Seq(0 .. clock)
    BY <1>2, LaterTimes
  <2>. QED BY <2>1, <1>2
<1>4. /\ retryAt' \in [Clients -> 0 .. MaxTime + Window + TicksPerSec]
      /\ retryAt'[c] = 0 /\ \A d \in Clients : d # c => retryAt'[d] = retryAt[d]
  <2>1. 0 \in 0 .. MaxTime + Window + TicksPerSec
    BY SmallBounds
  <2>. QED BY <2>1, <1>2
<1>5. \A d \in DOMAIN map :
        /\ map[d] \in [count : 1 .. Limit, resetAt : 1 .. clock + Window]
        /\ map[d].resetAt - Window \in 0 .. clock
  <2>1. 1 \in 1 .. Limit /\ clock + Window \in 1 .. clock + Window /\ clock + Window - Window = clock
    BY <1>2, SmallBounds
  <2>2. map[c] \in [count : 1 .. Limit, resetAt : 1 .. clock + Window]
        /\ map[c].resetAt - Window \in 0 .. clock
    <3>1. map[c] \in [count : 1 .. Limit, resetAt : 1 .. clock + Window]
      BY <1>1, <2>1
    <3>2. map[c].resetAt = clock + Window
      BY <1>1
    <3>3. PICK r \in Int : r = map[c].resetAt /\ r = clock + Window
      BY <3>2, <1>2, SmallBounds
    <3>4. r - Window = clock /\ clock \in 0 .. clock
      BY <3>3, <1>2, SmallBounds
    <3>. QED BY <3>1, <3>3, <3>4
  <2>3. ASSUME NEW d \in DOMAIN map, d # c
        PROVE  /\ map[d] \in [count : 1 .. Limit, resetAt : 1 .. clock + Window]
               /\ map[d].resetAt - Window \in 0 .. clock
    <3>1. d \in DOMAIN buckets /\ map[d] = buckets[d]
      BY <1>1, <2>3
    <3>. QED BY <3>1, LimitParts DEF LimitIInv, LimitTypeOK, begun
  <2>. QED BY <2>2, <2>3
<1>6. LimitTypeOK'
  BY <1>1, <1>2, <1>3, <1>4, <1>5 DEF LimitTypeOK
<1>7. OnlyLiveWindowsPastTheCap'
  <2>1. ASSUME Cardinality(DOMAIN map) > MaxBuckets, NEW k \in DOMAIN map, NEW last \in DOMAIN map
        PROVE  map[k].resetAt > map[last].resetAt - Window
    <3>1. map[k].resetAt > clock /\ map[last].resetAt - Window \in 0 .. clock
      BY <2>1, <1>1, <1>5
    <3>2. map[k].resetAt \in Nat
      BY <1>5, <1>2, SmallBounds
    <3>. QED BY <3>1, <3>2, <1>2
  <2>. QED BY <2>1 DEF OnlyLiveWindowsPastTheCap
<1>8. ASSUME NEW d \in Clients
      PROVE  /\ d \in DOMAIN map => /\ map[d].resetAt - Window \in 0 .. clock
                                    /\ Opened(admissions'[d], map[d].resetAt - Window, map[d].count)
             /\ d \notin DOMAIN map => Quiet(admissions'[d], clock)
             /\ Calm(admissions'[d])
  <2>1. CASE d = c
    <3>1. Quiet(admissions[c], clock) /\ Calm(admissions[c]) /\ admissions[c] \in Seq(Nat)
      BY <1>2, OverIsQuiet DEF LimitIInv, WindowsAreCounted
    <3>2. Opened(admissions'[c], clock, 1) /\ Calm(admissions'[c])
      BY <3>1, <1>2, <1>3, QuietBegins
    <3>3. map[c].resetAt - Window = clock /\ map[c].count = 1
      <4>1. PICK r \in Int : r = map[c].resetAt /\ r = clock + Window
        BY <1>1, <1>2, SmallBounds
      <4>2. r - Window = clock /\ map[c].count = 1
        BY <4>1, <1>1, <1>2, SmallBounds
      <4>. QED BY <4>1, <4>2
    <3>. QED BY <2>1, <3>2, <3>3, <1>1, <1>2
  <2>2. CASE d # c
    <3>1. Calm(admissions[d]) /\ admissions'[d] = admissions[d]
      BY <2>2, <1>3 DEF LimitIInv, WindowsAreCounted
    <3>2. CASE d \in DOMAIN map
      <4>1. d \in DOMAIN buckets /\ map[d] = buckets[d]
        BY <2>2, <3>2, <1>1
      <4>2. Opened(admissions[d], buckets[d].resetAt - Window, buckets[d].count)
        BY <4>1 DEF LimitIInv, WindowsAreCounted, begun
      <4>. QED BY <3>1, <3>2, <4>1, <4>2, <1>5
    <3>3. CASE d \notin DOMAIN map
      <4>1. over(d)
        BY <2>2, <3>3, <1>1
      <4>. QED BY <3>1, <3>3, <4>1, OverIsQuiet
    <3>. QED BY <3>2, <3>3
  <2>. QED BY <2>1, <2>2
<1>9. WindowsAreCounted'
  <2>1. map = buckets' /\ clock' = clock
    OBVIOUS
  <2>. QED BY <1>8, <2>1 DEF WindowsAreCounted, begun
<1>10. HintsHold'
  <2>1. ASSUME NEW d \in Clients, retryAt'[d] # 0, d \in DOMAIN map
        PROVE  map[d].resetAt <= retryAt'[d]
    <3>1. d # c
      BY <2>1, <1>4
    <3>2. d \in DOMAIN buckets /\ map[d] = buckets[d] /\ retryAt'[d] = retryAt[d]
      BY <3>1, <2>1, <1>1, <1>4
    <3>. QED BY <2>1, <3>2 DEF LimitIInv, HintsHold
  <2>. QED BY <2>1 DEF HintsHold
<1>. QED BY <1>6, <1>7, <1>9, <1>10 DEF LimitIInv

\* A request passes in an open window.
LEMMA CountStep ==
  ASSUME LimitIInv, NEW c \in Clients, ~ over(c), ~ exhausted(c),
         buckets' = [buckets EXCEPT ![c].count = @ + 1],
         admissions' = [admissions EXCEPT ![c] = Append(@, clock)],
         retryAt' = [retryAt EXCEPT ![c] = 0], clock' = clock
  PROVE  LimitIInv'
<1>1. c \in DOMAIN buckets /\ ~ (buckets[c].resetAt <= clock)
  BY DEF over
<1>2. PICK b \in Nat, k \in 1 .. Limit, t \in Nat :
        /\ b = begun(c) /\ k = buckets[c].count /\ t = clock /\ t \in 0 .. MaxTime
        /\ k < Limit /\ b <= t /\ t < b + Window /\ buckets[c].resetAt = b + Window
  <2>1. /\ buckets[c].count \in 1 .. Limit /\ begun(c) \in 0 .. clock /\ clock \in 0 .. MaxTime
        /\ buckets[c].resetAt = begun(c) + Window
    BY <1>1, LimitParts
  <2>2. begun(c) \in Nat /\ clock \in Nat /\ begun(c) <= clock /\ clock < begun(c) + Window
    BY <1>1, <2>1, SmallBounds
  <2>3. buckets[c].count < Limit
    BY <2>1, SmallBounds DEF exhausted
  <2>. QED BY <2>1, <2>2, <2>3
<1>3. /\ \A d \in Clients : admissions[d] \in Seq(Nat)
      /\ admissions \in [Clients -> Seq(0 .. t)]
      /\ retryAt \in [Clients -> 0 .. MaxTime + Window + TicksPerSec]
      /\ DOMAIN buckets \subseteq Clients
  BY <1>2, LimitParts DEF LimitIInv, LimitTypeOK
<1>4. /\ DOMAIN buckets' = DOMAIN buckets
      /\ buckets'[c] = [count |-> k + 1, resetAt |-> b + Window]
      /\ \A d \in DOMAIN buckets : d # c => buckets'[d] = buckets[d]
  <2>1. buckets[c] = [count |-> k, resetAt |-> b + Window]
    BY <1>1, <1>2, LimitParts
  <2>2. buckets' = [d \in DOMAIN buckets |-> IF d = c THEN [buckets[c] EXCEPT !.count = k + 1] ELSE buckets[d]]
    BY <1>1, <1>2
  <2>3. [buckets[c] EXCEPT !.count = k + 1] = [count |-> k + 1, resetAt |-> b + Window]
    BY <2>1
  <2>. QED BY <2>2, <2>3, <1>1
<1>5. /\ admissions' \in [Clients -> Seq(0 .. t)]
      /\ admissions'[c] = Append(admissions[c], t)
      /\ \A d \in Clients : d # c => admissions'[d] = admissions[d]
  <2>1. Append(admissions[c], t) \in Seq(0 .. t)
    BY <1>3, LaterTimes
  <2>. QED BY <2>1, <1>2, <1>3
<1>6. /\ retryAt' \in [Clients -> 0 .. MaxTime + Window + TicksPerSec]
      /\ retryAt'[c] = 0 /\ \A d \in Clients : d # c => retryAt'[d] = retryAt[d]
  <2>1. 0 \in 0 .. MaxTime + Window + TicksPerSec
    BY SmallBounds
  <2>. QED BY <2>1, <1>3
<1>7. /\ k + 1 \in 1 .. Limit /\ b + Window \in 1 .. t + Window /\ b + Window - Window = b
      /\ b \in 0 .. t
  BY SMTT(30), <1>2, SmallBounds
<1>8. \A d \in DOMAIN buckets : buckets'[d].resetAt = buckets[d].resetAt
  BY <1>2, <1>4
<1>9. LimitTypeOK'
  <2>1. \A d \in DOMAIN buckets : buckets'[d] \in [count : 1 .. Limit, resetAt : 1 .. t + Window]
    BY <1>2, <1>4, <1>7 DEF LimitIInv, LimitTypeOK
  <2>. QED BY <1>2, <1>3, <1>4, <1>5, <1>6, <2>1 DEF LimitTypeOK
<1>10. OnlyLiveWindowsPastTheCap'
  BY <1>4, <1>8 DEF LimitIInv, OnlyLiveWindowsPastTheCap
<1>11. ASSUME NEW d \in Clients
       PROVE  /\ d \in DOMAIN buckets' => /\ buckets'[d].resetAt - Window \in 0 .. t
                                          /\ Opened(admissions'[d], buckets'[d].resetAt - Window, buckets'[d].count)
              /\ d \notin DOMAIN buckets' => Quiet(admissions'[d], t)
              /\ Calm(admissions'[d])
  <2>1. CASE d = c
    <3>1. Opened(admissions[c], b, k) /\ Calm(admissions[c])
      BY <1>1, <1>2, <1>3 DEF LimitIInv, WindowsAreCounted
    <3>2. Opened(admissions'[c], b, k + 1) /\ Calm(admissions'[c])
      BY <3>1, <1>2, <1>3, <1>5, BegunCounts
    <3>3. buckets'[c].resetAt - Window = b /\ buckets'[c].count = k + 1
      <4>1. buckets'[c].resetAt = b + Window
        BY <1>4
      <4>2. buckets'[c].count = k + 1
        BY <1>4
      <4>3. PICK r \in Int : r = buckets'[c].resetAt /\ r = b + Window
        BY <4>1, SmallBounds
      <4>4. r - Window = b
        BY <4>3, SmallBounds
      <4>. QED BY <4>2, <4>3, <4>4
    <3>. QED BY <2>1, <3>2, <3>3, <1>1, <1>4, <1>7
  <2>2. CASE d # c
    BY <2>2, <1>2, <1>4, <1>5 DEF LimitIInv, WindowsAreCounted, begun
  <2>. QED BY <2>1, <2>2
<1>12. WindowsAreCounted'
  <2>1. clock' = t
    BY <1>2
  <2>. QED BY <1>11, <2>1 DEF WindowsAreCounted, begun
<1>13. HintsHold'
  <2>1. ASSUME NEW d \in Clients, retryAt'[d] # 0, d \in DOMAIN buckets'
        PROVE  buckets'[d].resetAt <= retryAt'[d]
    BY <2>1, <1>4, <1>6 DEF LimitIInv, HintsHold
  <2>. QED BY <2>1 DEF HintsHold
<1>. QED BY <1>9, <1>10, <1>12, <1>13 DEF LimitIInv

\* A request is refused, with a hint.
LEMMA RefuseStep ==
  ASSUME LimitIInv, NEW c \in Clients, ~ over(c),
         retryAt' = [retryAt EXCEPT ![c] = clock + retryAfterSec(c) * TicksPerSec],
         UNCHANGED <<clock, buckets, admissions>>
  PROVE  LimitIInv'
<1>1. /\ c \in DOMAIN buckets /\ ~ (buckets[c].resetAt <= clock) /\ clock \in 0 .. MaxTime
      /\ buckets[c].resetAt \in Nat /\ buckets[c].resetAt <= clock + Window
      /\ retryAt \in [Clients -> 0 .. MaxTime + Window + TicksPerSec]
  <2>1. c \in DOMAIN buckets /\ ~ (buckets[c].resetAt <= clock)
    BY DEF over
  <2>2. buckets[c].resetAt = begun(c) + Window /\ begun(c) \in 0 .. clock
        /\ clock \in 0 .. MaxTime /\ buckets[c].resetAt \in Nat
    BY <2>1, LimitParts
  <2>. QED BY <2>1, <2>2, SmallBounds DEF LimitIInv, LimitTypeOK
<1>2. PICK d \in Nat : d = buckets[c].resetAt - clock /\ d > 0 /\ d <= Window
  <2>1. buckets[c].resetAt - clock \in Nat /\ buckets[c].resetAt - clock > 0
        /\ buckets[c].resetAt - clock <= Window
    BY <1>1, SmallBounds
  <2>. QED BY <2>1
<1>3. PICK w : w = retryAfterSec(c)
  OBVIOUS
<1>4. w \in Nat \ {0} /\ d <= w * TicksPerSec /\ w * TicksPerSec <= d + TicksPerSec
  BY <1>2, <1>3, SmallBounds, HintCovers DEF retryAfterSec
<1>5. PICK h \in Nat : h = w * TicksPerSec
  BY <1>4, SmallBounds
<1>6. /\ clock + h \in 0 .. MaxTime + Window + TicksPerSec /\ buckets[c].resetAt <= clock + h
  BY <1>1, <1>2, <1>4, <1>5, SmallBounds
<1>7. /\ retryAt' \in [Clients -> 0 .. MaxTime + Window + TicksPerSec]
      /\ retryAt'[c] = clock + h /\ \A e \in Clients : e # c => retryAt'[e] = retryAt[e]
  BY <1>1, <1>3, <1>5, <1>6
<1>8. LimitTypeOK' /\ OnlyLiveWindowsPastTheCap'
  BY <1>7 DEF LimitIInv, LimitTypeOK, OnlyLiveWindowsPastTheCap
<1>9. WindowsAreCounted'
  BY DEF LimitIInv, WindowsAreCounted, begun
<1>10. HintsHold'
  BY <1>6, <1>7 DEF LimitIInv, HintsHold
<1>. QED BY <1>8, <1>9, <1>10 DEF LimitIInv

LEMMA RequestLimited ==
  ASSUME LimitIInv, NEW c \in Clients, NEW forged \in BoundedSeq(Clients, MaxForged),
         Request(c, forged)
  PROVE  LimitIInv'
<1>1. clientIp(forged \o <<c>> \o Proxies) = c
  BY HeaderTells
<1>2. CASE over(c)
  BY <1>1, <1>2, BeginStep DEF Request
<1>3. CASE ~ over(c) /\ exhausted(c)
  BY <1>1, <1>3, RefuseStep DEF Request
<1>4. CASE ~ over(c) /\ ~ exhausted(c)
  BY <1>1, <1>4, CountStep DEF Request
<1>. QED BY <1>2, <1>3, <1>4

LEMMA TimeStep == ASSUME LimitIInv, PassTime PROVE LimitIInv'
<1>1. PICK t \in Nat, u \in Nat : t = clock /\ u = t + 1 /\ clock' = u /\ u \in 0 .. MaxTime /\ t \in 0 .. MaxTime
  <2>1. clock \in 0 .. MaxTime /\ clock < MaxTime /\ clock' = clock + 1
    BY LimitParts DEF PassTime
  <2>2. clock \in Nat /\ clock + 1 \in Nat /\ clock + 1 \in 0 .. MaxTime
    BY <2>1, SmallBounds
  <2>. QED BY <2>1, <2>2
<1>2. UNCHANGED <<buckets, admissions, retryAt>>
  BY DEF PassTime
<1>3. LimitTypeOK'
  <2>1. admissions \in [Clients -> Seq(0 .. u)]
    <3>1. admissions \in [Clients -> Seq(0 .. t)]
      BY <1>1 DEF LimitIInv, LimitTypeOK
    <3>2. \A d \in Clients : admissions[d] \in Seq(0 .. u)
      BY <3>1, <1>1, LaterTimes
    <3>. QED BY <3>1, <3>2
  <2>2. \A key \in DOMAIN buckets : buckets[key] \in [count : 1 .. Limit, resetAt : 1 .. u + Window]
    <3>1. 1 .. t + Window \subseteq 1 .. u + Window
      BY <1>1, SmallBounds
    <3>. QED BY <3>1, <1>1 DEF LimitIInv, LimitTypeOK
  <2>. QED BY <2>1, <2>2, <1>1, <1>2 DEF LimitIInv, LimitTypeOK
<1>4. OnlyLiveWindowsPastTheCap' /\ HintsHold'
  BY <1>2 DEF LimitIInv, OnlyLiveWindowsPastTheCap, HintsHold
<1>5. ASSUME NEW c \in Clients
      PROVE  /\ c \in DOMAIN buckets => begun(c) \in 0 .. u
             /\ c \notin DOMAIN buckets => Quiet(admissions[c], u)
  <2>1. ASSUME c \in DOMAIN buckets PROVE begun(c) \in 0 .. u
    BY <2>1, <1>1, LimitParts
  <2>2. ASSUME c \notin DOMAIN buckets PROVE Quiet(admissions[c], u)
    <3>1. Quiet(admissions[c], t) /\ admissions[c] \in Seq(Nat)
      BY <2>2, <1>1, LimitParts DEF LimitIInv, WindowsAreCounted
    <3>. QED BY <3>1, <1>1, QuietLater
  <2>. QED BY <2>1, <2>2
<1>6. WindowsAreCounted'
  <2>1. clock' = u
    BY <1>1
  <2>2. \A c \in Clients : begun(c)' = begun(c)
    BY <1>2 DEF begun
  <2>. QED BY <1>2, <1>5, <2>1, <2>2 DEF LimitIInv, WindowsAreCounted
<1>. QED BY <1>3, <1>4, <1>6 DEF LimitIInv

\* Nothing has passed yet.
LEMMA EmptyIsCalm ==
  ASSUME NEW t
  PROVE  Quiet(<<>>, t) /\ Calm(<<>>)
<1>1. \A lo, hi : within(<<>>, lo, hi) = {}
  BY DEF within
<1>2. Cardinality({}) = 0
  BY FS_EmptySet
<1>3. \A lo, hi : Cardinality(within(<<>>, lo, hi)) = 0
  BY <1>1, <1>2
<1>4. 0 <= Limit /\ 0 <= 2 * Limit
  BY SmallBounds
<1>5. \A n \in 1 .. Len(<<>>) : FALSE
  OBVIOUS
<1>6. Calm(<<>>)
  BY <1>3, <1>4 DEF Calm
<1>7. Quiet(<<>>, t)
  BY <1>3, <1>4, <1>5 DEF Quiet
<1>. QED BY <1>6, <1>7

LEMMA NothingPassed ==
  ASSUME NEW t \in 0 .. MaxTime, clock = t, buckets = empty,
         admissions = [c \in Clients |-> <<>>], retryAt = [c \in Clients |-> 0]
  PROVE  LimitIInv
<1>1. DOMAIN buckets = {}
  BY DEF empty
<1>2. LimitTypeOK
  <2>1. <<>> \in Seq(0 .. clock) /\ 0 \in 0 .. MaxTime + Window + TicksPerSec
    BY SmallBounds
  <2>. QED BY <1>1, <2>1 DEF LimitTypeOK
<1>5. Quiet(<<>>, t) /\ Calm(<<>>)
  BY EmptyIsCalm
<1>6. OnlyLiveWindowsPastTheCap /\ HintsHold
  BY <1>1 DEF OnlyLiveWindowsPastTheCap, HintsHold
<1>7. WindowsAreCounted
  BY <1>1, <1>5 DEF WindowsAreCounted
<1>. QED BY <1>2, <1>6, <1>7 DEF LimitIInv

LEMMA LimitInitially == LimitInit => LimitIInv
<1>1. 0 \in 0 .. MaxTime
  BY SmallBounds
<1>. QED BY <1>1, NothingPassed DEF LimitInit

LEMMA RestartStep == ASSUME LimitIInv, RestartLimiter PROVE LimitIInv'
<1>1. /\ clock' \in 0 .. MaxTime /\ buckets' = empty
      /\ admissions' = [c \in Clients |-> <<>>] /\ retryAt' = [c \in Clients |-> 0]
  BY LimitParts DEF RestartLimiter
<1>2. DOMAIN buckets' = {}
  BY <1>1 DEF empty
<1>3. LimitTypeOK'
  <2>1. <<>> \in Seq(0 .. clock') /\ 0 \in 0 .. MaxTime + Window + TicksPerSec
    BY SmallBounds
  <2>. QED BY <1>1, <1>2, <2>1 DEF LimitTypeOK
<1>4. PICK t : t = clock'
  OBVIOUS
<1>6. Quiet(<<>>, clock') /\ Calm(<<>>)
  BY <1>4, EmptyIsCalm
<1>7. OnlyLiveWindowsPastTheCap' /\ HintsHold'
  BY <1>2 DEF OnlyLiveWindowsPastTheCap, HintsHold
<1>8. WindowsAreCounted'
  BY <1>1, <1>2, <1>6 DEF WindowsAreCounted
<1>. QED BY <1>3, <1>7, <1>8 DEF LimitIInv

LEMMA LimitStep == LimitIInv /\ [LimitNext]_limitVars => LimitIInv'
<1>. SUFFICES ASSUME LimitIInv, [LimitNext]_limitVars PROVE LimitIInv'
  OBVIOUS
<1>1. CASE UNCHANGED limitVars
  <2>1. UNCHANGED <<clock, buckets, admissions, retryAt>>
    BY <1>1 DEF limitVars
  <2>. QED BY <2>1 DEF LimitIInv, LimitTypeOK, OnlyLiveWindowsPastTheCap,
      WindowsAreCounted, HintsHold, begun
<1>. QED BY <1>1, RequestLimited, RestartStep, TimeStep DEF LimitNext

\* The limiter at any size: within a window at most the limit passes, in any
\* stretch of a window's length twice that, the buckets of the past are dropped
\* once there are many, and whoever waits as told is let in (rate-limit.ts).
THEOREM LimiterHolds == LimitSpec => []LimitInv
<1>1. LimitIInv => LimitInv
  <2>. SUFFICES ASSUME LimitIInv PROVE LimitInv
    OBVIOUS
  <2>1. ASSUME NEW c \in Clients, NEW lo \in Int
        PROVE  {n \in 1 .. Len(admissions[c]) : admissions[c][n] \in lo .. lo + Window - 1}
                 = within(admissions[c], lo, lo + Window)
    <3>1. \A n \in 1 .. Len(admissions[c]) : admissions[c][n] \in Nat
      BY LimitParts
    <3>. QED BY <3>1, SmallBounds DEF within
  <2>2. TwiceTheLimitAtMost
    <3>1. \A from \in 0 .. clock : from \in 0 .. MaxTime
      BY LimitParts, SmallBounds
    <3>2. ASSUME NEW c \in Clients, NEW from \in 0 .. clock PROVE passed(c, from) <= 2 * Limit
      <4>1. from \in 0 .. MaxTime /\ from \in Int /\ Calm(admissions[c])
        BY <3>1 DEF LimitIInv, WindowsAreCounted
      <4>2. passed(c, from) = Cardinality(within(admissions[c], from, from + Window))
        BY <4>1, <2>1 DEF passed
      <4>. QED BY <4>1, <4>2 DEF Calm
    <3>. QED BY <3>2 DEF TwiceTheLimitAtMost
  <2>3. ChargedForOwnRequests
    <3>1. ASSUME NEW key \in DOMAIN buckets
          PROVE  buckets[key].count = passed(key, buckets[key].resetAt - Window)
      <4>1. key \in Clients /\ begun(key) \in Int /\ Opened(admissions[key], begun(key), buckets[key].count)
        BY <3>1, LimitParts DEF LimitIInv, WindowsAreCounted
      <4>2. passed(key, begun(key)) = Cardinality(within(admissions[key], begun(key), begun(key) + Window))
        BY <2>1, <4>1 DEF passed
      <4>. QED BY <4>1, <4>2 DEF Opened, begun
    <3>. QED BY <3>1 DEF ChargedForOwnRequests
  <2>4. WaitingIsEnough
    <3>1. ASSUME NEW c \in Clients, retryAt[c] # 0, clock >= retryAt[c], c \in DOMAIN buckets
          PROVE  buckets[c].resetAt <= clock
      <4>1. buckets[c].resetAt <= retryAt[c]
        BY <3>1 DEF LimitIInv, HintsHold
      <4>2. buckets[c].resetAt \in Nat /\ clock \in Nat /\ retryAt[c] \in Nat
        BY <3>1, LimitParts, SmallBounds DEF LimitIInv, LimitTypeOK
      <4>. QED BY <3>1, <4>1, <4>2
    <3>. QED BY <3>1 DEF WaitingIsEnough, over
  <2>. QED BY <2>2, <2>3, <2>4 DEF LimitInv, LimitIInv
<1>. QED BY <1>1, LimitInitially, LimitStep, PTL DEF LimitSpec

-----------------------------------------------------------------------------
(***************************************************************************)
(* ToolRegistry.                                                           *)
(***************************************************************************)
\* The dictionary of owners keeps what was decided: an executed transaction
\* has its sender as owner of its slug for good, and its hash in the history.
ExecutedIsOwned ==
  \A t \in DOMAIN txs : txs[t].at = "executed" =>
    /\ owners[txs[t].slug] = txs[t].by
    /\ [slug |-> txs[t].slug, hash |-> txs[t].hash] \in anchored

\* A script waits for a transaction of the publisher's.
ScriptsAreThePublishers ==
  \A t \in TxIds : script[t] # "none" =>
    t \in DOMAIN txs /\ txs[t].by = Publisher

RegistryIInv ==
  /\ RegistryTypeOK
  /\ HashIsTheOwners
  /\ PrintedIsAnchored
  /\ ExecutedIsOwned
  /\ ScriptsAreThePublishers

-----------------------------------------------------------------------------
LEMMA RegistryInitially == RegistryInit => RegistryIInv
BY RegistryAssumption DEF RegistryInit, RegistryIInv, RegistryTypeOK,
   HashIsTheOwners,
   PrintedIsAnchored, ExecutedIsOwned, ScriptsAreThePublishers, Accounts, TxIds, callsFor

\* Where no call lands, and those that landed ask for what they asked for, what
\* stands under a slug goes on being its owner's last word.
LEMMA StandsAsItWas ==
  ASSUME RegistryTypeOK, HashIsTheOwners, UNCHANGED <<owners, manifests, landed>>,
         \A u \in DOMAIN txs : /\ txs'[u].slug = txs[u].slug
                              /\ txs'[u].hash = txs[u].hash
                              /\ txs'[u].by = txs[u].by
  PROVE  HashIsTheOwners'
<1>1. \A i \in DOMAIN landed : landed[i] \in DOMAIN txs
  BY DEF RegistryTypeOK
<1>2. \A q \in Slugs : callsFor(q)' = callsFor(q)
  BY <1>1 DEF callsFor
<1>3. \A q \in Slugs : \A i \in callsFor(q) :
        /\ txs'[landed'[i]].by = txs[landed[i]].by
        /\ txs'[landed'[i]].hash = txs[landed[i]].hash
  BY <1>1 DEF callsFor
<1> QED
  BY <1>2, <1>3 DEF HashIsTheOwners

\* One more call has landed: on a slug of nobody's it is the first and the last,
\* of the owner's it is the last, and a stranger's changes nothing.
LEMMA LandedStands ==
  ASSUME RegistryTypeOK, HashIsTheOwners, NEW t \in DOMAIN txs,
         landed' = Append(landed, t),
         \A u \in DOMAIN txs : /\ txs'[u].slug = txs[u].slug
                              /\ txs'[u].hash = txs[u].hash
                              /\ txs'[u].by = txs[u].by,
         \/ /\ owners[txs[t].slug] \in {absent, txs[t].by}
            /\ owners' = [owners EXCEPT ![txs[t].slug] = txs[t].by]
            /\ manifests' = [manifests EXCEPT ![txs[t].slug] = txs[t].hash]
         \/ /\ owners[txs[t].slug] \notin {absent, txs[t].by}
            /\ UNCHANGED <<owners, manifests>>
  PROVE  HashIsTheOwners'
<1> DEFINE s == txs[t].slug
           n == Len(landed) + 1
<1> USE RegistryAssumption
<1>1. /\ s \in Slugs /\ txs[t].by \in Accounts /\ txs[t].by # absent
      /\ n \in Nat /\ DOMAIN landed = 1 .. n - 1
  BY DEF RegistryTypeOK, Accounts
<1>2. /\ DOMAIN landed' = 1 .. n /\ landed'[n] = t
      /\ \A i \in DOMAIN landed : landed'[i] = landed[i] /\ landed[i] \in DOMAIN txs
  BY <1>1 DEF RegistryTypeOK
<1>3. \A q \in Slugs : callsFor(q)' = callsFor(q) \cup (IF q = s THEN {n} ELSE {})
  BY <1>1, <1>2 DEF callsFor
<1>4. \A q \in Slugs : \A i \in callsFor(q) :
        /\ i \in Nat /\ i < n
        /\ txs'[landed'[i]].by = txs[landed[i]].by
        /\ txs'[landed'[i]].hash = txs[landed[i]].hash
  BY <1>1, <1>2 DEF callsFor
<1>5. txs'[landed'[n]].by = txs[t].by /\ txs'[landed'[n]].hash = txs[t].hash
  BY <1>2
<1> SUFFICES ASSUME NEW q \in Slugs
             PROVE  IF owners'[q] = absent THEN callsFor(q)' = {}
                    ELSE \E first, last \in callsFor(q)' :
                      /\ txs'[landed'[first]].by = owners'[q]
                      /\ txs'[landed'[last]].by = owners'[q]
                      /\ txs'[landed'[last]].hash = manifests'[q]
                      /\ \A i \in callsFor(q)' :
                           /\ first <= i
                           /\ txs'[landed'[i]].by = owners'[q] => i <= last
  BY DEF HashIsTheOwners
<1>6. CASE q # s
  <2>1. owners'[q] = owners[q] /\ manifests'[q] = manifests[q]
    BY <1>1, <1>6 DEF RegistryTypeOK
  <2>2. callsFor(q)' = callsFor(q)
    BY <1>3, <1>6
  <2>3. \A i \in callsFor(q) : /\ txs'[landed'[i]].by = txs[landed[i]].by
                               /\ txs'[landed'[i]].hash = txs[landed[i]].hash
    BY <1>4
  <2>4. CASE owners[q] = absent
    BY <2>1, <2>2, <2>4 DEF HashIsTheOwners
  <2>5. CASE owners[q] # absent
    <3>1. PICK first, last \in callsFor(q) :
            /\ txs[landed[first]].by = owners[q]
            /\ txs[landed[last]].by = owners[q]
            /\ txs[landed[last]].hash = manifests[q]
            /\ \A i \in callsFor(q) :
                 first <= i /\ (txs[landed[i]].by = owners[q] => i <= last)
      BY <2>5 DEF HashIsTheOwners
    <3>2. /\ txs'[landed'[first]].by = owners'[q]
          /\ txs'[landed'[last]].by = owners'[q]
          /\ txs'[landed'[last]].hash = manifests'[q]
      BY <2>1, <2>3, <3>1
    <3>3. \A i \in callsFor(q)' :
            first <= i /\ (txs'[landed'[i]].by = owners'[q] => i <= last)
      BY <2>1, <2>2, <2>3, <3>1
    <3>. QED BY <2>1, <2>2, <2>5, <3>2, <3>3
  <2>. QED BY <2>4, <2>5
<1>7. CASE q = s /\ owners[s] = absent
  <2>1. callsFor(q)' = {n}
    BY <1>3, <1>7 DEF HashIsTheOwners
  <2>2. owners'[q] = txs[t].by /\ manifests'[q] = txs[t].hash
    BY <1>1, <1>7 DEF RegistryTypeOK
  <2>. QED BY <1>1, <1>5, <2>1, <2>2
<1>8. CASE q = s /\ owners[s] # absent
  <2>1. PICK first, last \in callsFor(s) :
          /\ txs[landed[first]].by = owners[s]
          /\ txs[landed[last]].by = owners[s]
          /\ txs[landed[last]].hash = manifests[s]
          /\ \A i \in callsFor(s) :
               first <= i /\ (txs[landed[i]].by = owners[s] => i <= last)
    BY <1>1, <1>8 DEF HashIsTheOwners
  <2>2. owners'[q] = owners[s] /\ owners'[q] # absent
    BY <1>1, <1>8 DEF RegistryTypeOK
  <2>3. CASE txs[t].by = owners[s]
    <3>1. manifests'[q] = txs[t].hash
      BY <1>1, <1>8, <2>3 DEF RegistryTypeOK
    <3>2. \A i \in callsFor(q)' : first <= i /\ i <= n
      BY <1>1, <1>3, <1>4, <1>8, <2>1
    <3>3. first \in callsFor(q)' /\ n \in callsFor(q)'
      BY <1>3, <1>8
    <3>4. txs'[landed'[first]].by = owners'[q]
      BY <1>1, <1>4, <2>1, <2>2
    <3>. QED BY <1>5, <2>2, <2>3, <3>1, <3>2, <3>3, <3>4
  <2>4. CASE txs[t].by # owners[s]
    <3>1. manifests'[q] = manifests[s]
      BY <1>8, <2>4
    <3>2. \A i \in callsFor(q)' : first <= i
      BY <1>1, <1>3, <1>4, <1>8, <2>1
    <3>3. first \in callsFor(q)' /\ last \in callsFor(q)'
      BY <1>3, <1>8
    <3>4. /\ txs'[landed'[first]].by = owners'[q]
          /\ txs'[landed'[last]].by = owners'[q]
          /\ txs'[landed'[last]].hash = manifests'[q]
      BY <1>1, <1>4, <2>1, <2>2, <3>1
    <3>5. \A i \in callsFor(q)' : txs'[landed'[i]].by = owners'[q] => i <= last
      BY <1>1, <1>3, <1>4, <1>5, <1>8, <2>1, <2>2, <2>4
    <3>. QED BY <2>2, <3>2, <3>3, <3>4, <3>5
  <2>. QED BY <2>3, <2>4
<1> QED
  BY <1>6, <1>7, <1>8

\* What submitting adds is one pending transaction with the next number.
LEMMA SubmitStep ==
  ASSUME RegistryIInv, NEW s \in Slugs, NEW hash \in Manifests, NEW by \in Accounts,
         submit(s, hash, by),
         \/ script' = script
         \/ by = Publisher /\ script' = [script EXCEPT ![submitted + 1] = "waiting"]
  PROVE  RegistryIInv'
<1> DEFINE t == submitted + 1
           tx == [slug |-> s, hash |-> hash, by |-> by, at |-> "pending"]
<1> USE RegistryAssumption
<1>1. /\ submitted \in Nat /\ t \in 1 .. MaxTxs
      /\ DOMAIN txs = 1 .. submitted /\ t \notin DOMAIN txs
  BY DEF RegistryIInv, RegistryTypeOK, submit
<1>2. /\ DOMAIN txs' = 1 .. t /\ DOMAIN txs' = DOMAIN txs \cup {t}
      /\ txs'[t] = tx
      /\ \A u \in DOMAIN txs : txs'[u] = txs[u]
  BY <1>1 DEF submit
<1>3. UNCHANGED <<catalog, owners, manifests, anchored, landed>> /\ submitted' = t
  BY DEF submit
<1>4. script' \in [TxIds -> {"none", "waiting", "anchored", "failed"}]
  BY DEF RegistryIInv, RegistryTypeOK
<1>5. \A u \in TxIds : u # t => script'[u] = script[u]
  BY DEF RegistryIInv, RegistryTypeOK
<1>6. script'[t] # "anchored" /\ (script'[t] # "none" => by = Publisher)
  BY <1>1 DEF RegistryIInv, RegistryTypeOK, ScriptsAreThePublishers, TxIds
<1>7. RegistryTypeOK'
  <2>1. txs' \in [1 .. t -> [slug : Slugs, hash : Manifests, by : Accounts,
                    at : {"pending", "executed", "reverted", "expired"}]]
    BY <1>1 DEF submit, RegistryIInv, RegistryTypeOK
  <2>2. landed' \in Seq(1 .. t)
    BY <1>1, <1>3 DEF RegistryIInv, RegistryTypeOK
  <2> QED
    BY <1>1, <1>3, <1>4, <2>1, <2>2 DEF RegistryIInv, RegistryTypeOK
<1>8. HashIsTheOwners'
  BY <1>2, <1>3, StandsAsItWas DEF RegistryIInv, RegistryTypeOK
<1>9. PrintedIsAnchored'
  BY <1>1, <1>2, <1>3, <1>5, <1>6 DEF RegistryIInv, PrintedIsAnchored, TxIds
<1>10. ExecutedIsOwned'
  <2> SUFFICES ASSUME NEW u \in DOMAIN txs', txs'[u].at = "executed"
               PROVE  /\ owners'[txs'[u].slug] = txs'[u].by
                      /\ [slug |-> txs'[u].slug, hash |-> txs'[u].hash] \in anchored'
    BY DEF ExecutedIsOwned
  <2>1. u # t
    BY <1>2
  <2>2. u \in DOMAIN txs /\ txs'[u] = txs[u]
    BY <2>1, <1>2
  <2> QED
    BY <2>2, <1>3 DEF RegistryIInv, ExecutedIsOwned
<1>11. ScriptsAreThePublishers'
  BY <1>1, <1>2, <1>5, <1>6 DEF RegistryIInv, ScriptsAreThePublishers, TxIds
<1> QED
  BY <1>7, <1>8, <1>9, <1>10, <1>11 DEF RegistryIInv

\* A transaction that failed or expired counts for nothing.
LEMMA FailedStep ==
  ASSUME RegistryIInv, NEW t \in DOMAIN txs, txs[t].at = "pending",
         NEW at \in {"reverted", "expired"}, txs' = [txs EXCEPT ![t].at = at],
         UNCHANGED <<catalog, owners, manifests, submitted, script, anchored>>,
         \/ UNCHANGED landed
         \/ landed' = Append(landed, t) /\ ~authorised(txs[t].slug, txs[t].by)
  PROVE  RegistryIInv'
<1>1. /\ DOMAIN txs' = DOMAIN txs
      /\ txs'[t].at = at
      /\ \A u \in DOMAIN txs : /\ txs'[u].slug = txs[u].slug
                               /\ txs'[u].hash = txs[u].hash
                               /\ txs'[u].by = txs[u].by
                               /\ u # t => txs'[u] = txs[u]
  BY DEF RegistryIInv, RegistryTypeOK
<1>2. RegistryTypeOK'
  <2>1. txs' \in [1 .. submitted -> [slug : Slugs, hash : Manifests,
                    by : Accounts,
                    at : {"pending", "executed", "reverted", "expired"}]]
    <3> DEFINE Txs == [slug : Slugs, hash : Manifests, by : Accounts,
                       at : {"pending", "executed", "reverted", "expired"}]
    <3>1. txs \in [1 .. submitted -> Txs]
      BY DEF RegistryIInv, RegistryTypeOK
    <3>2. [txs[t] EXCEPT !.at = at] \in Txs
      BY <3>1
    <3> HIDE DEF Txs
    <3>3. txs' \in [1 .. submitted -> Txs]
      BY <3>1, <3>2
    <3> QED
      BY <3>3 DEF Txs
  <2>2. landed \in Seq(1 .. submitted) /\ t \in 1 .. submitted
    BY DEF RegistryIInv, RegistryTypeOK
  <2>3. Append(landed, t) \in Seq(1 .. submitted)
    BY <2>2, AppendProperties
  <2>4. landed' \in Seq(1 .. submitted)
    BY <2>2, <2>3
  <2> QED
    BY <2>1, <2>4 DEF RegistryIInv, RegistryTypeOK
<1>3. HashIsTheOwners'
  <2>1. CASE UNCHANGED landed
    BY <1>1, <2>1, StandsAsItWas DEF RegistryIInv
  <2>2. CASE landed' = Append(landed, t) /\ ~authorised(txs[t].slug, txs[t].by)
    BY <1>1, <2>2, LandedStands DEF RegistryIInv, RegistryTypeOK, authorised
  <2> QED
    BY <2>1, <2>2
<1>4. PrintedIsAnchored'
  BY <1>1 DEF RegistryIInv, PrintedIsAnchored
<1>5. ExecutedIsOwned'
  BY <1>1 DEF RegistryIInv, ExecutedIsOwned
<1>6. ScriptsAreThePublishers'
  BY <1>1 DEF RegistryIInv, ScriptsAreThePublishers
<1> QED
  BY <1>2, <1>3, <1>4, <1>5, <1>6 DEF RegistryIInv

\* register_tool lets nobody but the owner write, so that what others relied
\* on stays owned.
LEMMA RegisterStep ==
  ASSUME RegistryIInv, NEW t \in DOMAIN txs, registerTool(t)
  PROVE  RegistryIInv'
<1> DEFINE s == txs[t].slug
           by == txs[t].by
<1> USE RegistryAssumption
<1>1. /\ s \in Slugs /\ by \in Accounts /\ by # absent /\ txs[t].hash \in Manifests
      /\ txs[t].hash # absent
      /\ DOMAIN txs' = DOMAIN txs
      /\ UNCHANGED <<catalog, submitted, script>>
  BY DEF RegistryIInv, RegistryTypeOK, registerTool, Accounts
<1>2. CASE authorised(s, by)
  <2>1. /\ owners' = [owners EXCEPT ![s] = by]
        /\ manifests' = [manifests EXCEPT ![s] = txs[t].hash]
        /\ anchored' = anchored \cup {[slug |-> s, hash |-> txs[t].hash]}
        /\ txs' = [txs EXCEPT ![t].at = "executed"]
    BY <1>1, <1>2 DEF registerTool, authorised, ownerAfter
  <2>2. \A u \in DOMAIN txs : /\ txs'[u].slug = txs[u].slug
                              /\ txs'[u].hash = txs[u].hash
                              /\ txs'[u].by = txs[u].by
                              /\ u # t => txs'[u] = txs[u]
    BY <2>1 DEF RegistryIInv, RegistryTypeOK
  <2>3. txs'[t] = [slug |-> s, hash |-> txs[t].hash, by |-> by, at |-> "executed"]
    BY <2>1 DEF RegistryIInv, RegistryTypeOK
  <2>4. \A q \in Slugs : owners[q] \notin {absent, owners'[q]} => FALSE
    BY <1>1, <1>2, <2>1 DEF authorised, RegistryIInv, RegistryTypeOK
  <2>5. RegistryTypeOK'
    <3>1. txs' \in [1 .. submitted -> [slug : Slugs, hash : Manifests,
                      by : Accounts,
                      at : {"pending", "executed", "reverted", "expired"}]]
      <4> DEFINE Txs == [slug : Slugs, hash : Manifests, by : Accounts,
                         at : {"pending", "executed", "reverted", "expired"}]
      <4>1. txs \in [1 .. submitted -> Txs]
        BY DEF RegistryIInv, RegistryTypeOK
      <4>2. [txs[t] EXCEPT !.at = "executed"] \in Txs
        BY <4>1
      <4> HIDE DEF Txs
      <4>3. txs' \in [1 .. submitted -> Txs]
        BY <2>1, <4>1, <4>2
      <4> QED
        BY <4>3 DEF Txs
    <3>2. /\ owners' \in [Slugs -> Accounts \cup {absent}]
          /\ manifests' \in [Slugs -> Manifests \cup {absent}]
          /\ anchored' \subseteq [slug : Slugs, hash : Manifests]
      BY <1>1, <2>1 DEF RegistryIInv, RegistryTypeOK
    <3>3. ASSUME NEW q \in Slugs PROVE (owners'[q] = absent) = (manifests'[q] = absent)
      BY <1>1, <2>1 DEF RegistryIInv, RegistryTypeOK
    <3>4. landed \in Seq(1 .. submitted) /\ t \in 1 .. submitted
      BY DEF RegistryIInv, RegistryTypeOK
    <3>5. landed' \in Seq(1 .. submitted)
      BY <3>4, AppendProperties DEF registerTool
    <3> QED
      BY <1>1, <3>1, <3>2, <3>3, <3>5 DEF RegistryIInv, RegistryTypeOK
  <2>6. HashIsTheOwners'
    BY <1>1, <1>2, <2>1, <2>2, <2>3, LandedStands
    DEF RegistryIInv, RegistryTypeOK, authorised, registerTool
  <2>7. PrintedIsAnchored'
    BY <1>1, <2>1, <2>2, <2>4 DEF RegistryIInv, RegistryTypeOK,
       PrintedIsAnchored, Accounts
  <2>8. ExecutedIsOwned'
    <3> SUFFICES ASSUME NEW u \in DOMAIN txs', txs'[u].at = "executed"
                 PROVE  /\ owners'[txs'[u].slug] = txs'[u].by
                        /\ [slug |-> txs'[u].slug, hash |-> txs'[u].hash] \in anchored'
      BY DEF ExecutedIsOwned
    <3>1. CASE u = t
      <4>1. owners'[s] = by /\ [slug |-> s, hash |-> txs[t].hash] \in anchored'
        BY <1>1, <2>1 DEF RegistryIInv, RegistryTypeOK
      <4>2. txs'[u].slug = s /\ txs'[u].by = by /\ txs'[u].hash = txs[t].hash
        BY <3>1, <2>3
      <4> QED
        BY <4>1, <4>2
    <3>2. CASE u # t
      <4>1. u \in DOMAIN txs /\ txs'[u] = txs[u] /\ txs[u].slug \in Slugs
            /\ txs[u].by \in Accounts
        BY <3>2, <1>1, <2>2 DEF RegistryIInv, RegistryTypeOK
      <4>2. /\ owners[txs[u].slug] = txs[u].by
            /\ [slug |-> txs[u].slug, hash |-> txs[u].hash] \in anchored
        BY <4>1 DEF RegistryIInv, ExecutedIsOwned
      <4>3. owners[txs[u].slug] # absent
        BY <4>1, <4>2 DEF Accounts
      <4>4. owners'[txs[u].slug] = owners[txs[u].slug]
        BY <2>4, <4>1, <4>3
      <4> QED
        BY <4>1, <4>2, <4>4, <2>1
    <3> QED
      BY <3>1, <3>2
  <2>9. ScriptsAreThePublishers'
    BY <1>1, <2>2 DEF RegistryIInv, ScriptsAreThePublishers
  <2> QED
    BY <2>5, <2>6, <2>7, <2>8, <2>9 DEF RegistryIInv
<1>3. CASE ~authorised(s, by)
  BY <1>3, FailedStep DEF registerTool
<1> QED
  BY <1>2, <1>3

LEMMA RegistryStep == RegistryIInv /\ [RegistryNext]_registryVars => RegistryIInv'
<1> SUFFICES ASSUME RegistryIInv, [RegistryNext]_registryVars PROVE RegistryIInv'
  OBVIOUS
<1> USE RegistryAssumption
<1>1. ASSUME NEW s \in Slugs, EditListing(s) PROVE RegistryIInv'
  <2>1. /\ UNCHANGED <<owners, manifests, txs, submitted, script, anchored, landed>>
        /\ catalog' \in [Slugs -> Served]
    BY <1>1 DEF EditListing, RegistryIInv, RegistryTypeOK
  <2>2. RegistryTypeOK'
    BY <2>1 DEF RegistryIInv, RegistryTypeOK
  <2>3. HashIsTheOwners'
    BY <2>1, StandsAsItWas DEF RegistryIInv
  <2> QED
    BY <2>1, <2>2, <2>3 DEF RegistryIInv, PrintedIsAnchored, ExecutedIsOwned,
       ScriptsAreThePublishers
<1>2. ASSUME NEW s \in Slugs, Anchor(s) PROVE RegistryIInv'
  <2>1. manifestHash(catalog[s]) \in Manifests
    BY DEF RegistryIInv, RegistryTypeOK, manifestHash, Served
  <2> QED
    BY <1>2, <2>1, SubmitStep DEF Anchor, Accounts
<1>3. ASSUME NEW s \in Slugs, NEW hash \in Manifests, NEW by \in Strangers,
             SubmitOther(s, hash, by)
      PROVE  RegistryIInv'
  BY <1>3, SubmitStep DEF SubmitOther, Accounts
<1>4. ASSUME NEW t \in DOMAIN txs, registerTool(t) PROVE RegistryIInv'
  BY <1>4, RegisterStep
<1>5. ASSUME NEW t \in DOMAIN txs, ExpireTx(t) PROVE RegistryIInv'
  BY <1>5, FailedStep DEF ExpireTx
<1>6. ASSUME NEW t \in DOMAIN txs, PrintResult(t) PROVE RegistryIInv'
  <2>1. UNCHANGED <<catalog, owners, manifests, txs, submitted, anchored, landed>>
    BY <1>6 DEF PrintResult
  <2>2. t \in TxIds /\ script[t] = "waiting"
    BY <1>6 DEF PrintResult, RegistryIInv, RegistryTypeOK, TxIds
  <2>3. /\ \/ txs[t].at = "executed" /\ script' = [script EXCEPT ![t] = "anchored"]
           \/ script' = [script EXCEPT ![t] = "failed"]
    BY <1>6 DEF PrintResult, executedOk
  <2>4. RegistryTypeOK'
    BY <2>1, <2>2, <2>3 DEF RegistryIInv, RegistryTypeOK
  <2>5. PrintedIsAnchored'
    <3> SUFFICES ASSUME NEW u \in DOMAIN txs', script'[u] = "anchored"
                 PROVE  /\ [slug |-> txs'[u].slug, hash |-> txs'[u].hash] \in anchored'
                        /\ owners'[txs'[u].slug] = Publisher
      BY DEF PrintedIsAnchored
    <3>1. u \in TxIds
      BY <2>1 DEF RegistryIInv, RegistryTypeOK, TxIds
    <3>2. CASE script[u] = "anchored"
      BY <2>1, <3>2 DEF RegistryIInv, PrintedIsAnchored
    <3>3. CASE script[u] # "anchored"
      <4>1. u = t /\ txs[t].at = "executed"
        BY <2>2, <2>3, <3>1, <3>3 DEF RegistryIInv, RegistryTypeOK
      <4>2. txs[t].by = Publisher
        BY <2>2 DEF RegistryIInv, ScriptsAreThePublishers
      <4> QED
        BY <2>1, <4>1, <4>2 DEF RegistryIInv, ExecutedIsOwned
    <3> QED
      BY <3>2, <3>3
  <2>6. ScriptsAreThePublishers'
    BY <2>1, <2>2, <2>3 DEF RegistryIInv, RegistryTypeOK,
       ScriptsAreThePublishers
  <2> QED
    BY <2>1, <2>4, <2>5, <2>6 DEF RegistryIInv, HashIsTheOwners, callsFor, ExecutedIsOwned
<1>7. CASE UNCHANGED registryVars
  BY <1>7 DEF registryVars, RegistryIInv, RegistryTypeOK, HashIsTheOwners, callsFor,
     PrintedIsAnchored, ExecutedIsOwned, ScriptsAreThePublishers
<1> QED
  BY <1>1, <1>2, <1>3, <1>4, <1>5, <1>6, <1>7 DEF RegistryNext

-----------------------------------------------------------------------------
\* Where anchored and served hash agree, the slug has an owner, and what
\* stands there was sent by that owner.
LEMMA AgreementFollows == RegistryIInv => AgreementIsCommitment
<1> SUFFICES ASSUME RegistryIInv, NEW s \in Slugs, manifests[s] = manifestHash(catalog[s])
             PROVE  \E t \in DOMAIN txs : /\ txs[t].slug = s /\ txs[t].by = owners[s]
                                          /\ txs[t].hash = catalog[s].covered
  BY DEF AgreementIsCommitment
<1>1. manifests[s] = catalog[s].covered /\ manifests[s] \in Manifests
  BY DEF manifestHash, RegistryIInv, RegistryTypeOK, Served
<1>2. (owners[s] = absent) = (manifests[s] = absent)
  BY DEF RegistryIInv, RegistryTypeOK
<1>3. owners[s] # absent
  BY <1>1, <1>2, RegistryAssumption
<1>4. PICK last \in callsFor(s) : /\ txs[landed[last]].by = owners[s]
                                  /\ txs[landed[last]].hash = manifests[s]
  BY <1>3 DEF RegistryIInv, HashIsTheOwners
<1>5. landed[last] \in DOMAIN txs /\ txs[landed[last]].slug = s
  BY <1>4 DEF callsFor, RegistryIInv, RegistryTypeOK
<1> QED
  BY <1>1, <1>4, <1>5

\* The registry at any size: a slug is the account's whose call landed first,
\* the hash under it is that of this account's last call to land, the script
\* prints what is so, and agreement with what is served is the owner's word.
THEOREM RegistryInvariant == RegistrySpec => []RegistryInv
<1>1. RegistryIInv => RegistryInv
  BY AgreementFollows DEF RegistryInv, RegistryIInv
<1> QED
  BY RegistryInitially, RegistryStep, <1>1, PTL DEF RegistrySpec
=============================================================================
