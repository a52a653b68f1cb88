---------------------------- MODULE ReadsProofs ----------------------------
(***************************************************************************)
(* Proofs about Dump for every cap and every text, about ProjectCache for  *)
(* any number of projects, calls, edits and deletions, about IssueSearch   *)
(* for any names, cache and search, about Paging for any list, page size   *)
(* and cap, and about ActivityFeed for any boards, rows and requests.      *)
(***************************************************************************)
EXTENDS Reads, FiniteSetTheorems, SequenceTheorems, TLAPS

DumpTypeOK ==
    /\ dumpStep \in {"measure", "search", "done"} /\ cap \in Caps /\ text \in Texts
    /\ base \in 0 .. 4 /\ preview \in Int
    /\ low \in Int /\ high \in Int /\ halvings \in Nat \ {0}

\* The longest preview that fits is between low and high
SearchInv ==
    /\ dumpStep = "measure" => low = 0 /\ high = 0 /\ halvings = 1 /\ preview = -1
    /\ dumpStep = "search" =>
          /\ cap > 0 /\ base \in 1 .. 3 /\ preview = -1
          /\ 0 <= low /\ low <= high /\ high <= Chars[text]
          /\ Fits(Rendered(base, low))
          /\ high < Chars[text] => ~Fits(Rendered(base, high + 1))

HalvingInv == low <= high /\ (high - low) * halvings <= Chars[text]

DumpInv == DumpTypeOK /\ SearchInv /\ HalvingInv /\ CapIsHonoredAndUsed

-----------------------------------------------------------------------------
\* Half as long an interval after one probe more is within the same bound.
LEMMA HalfTheInterval ==
    ASSUME NEW d \in Nat, NEW e \in Nat, NEW h \in Nat, NEW n \in Nat,
           2 * e <= d, d * h <= n
    PROVE  e * (2 * h) <= n
<1>1. PICK r \in Nat : d = 2 * e + r
    BY d - 2 * e \in Nat
<1>2. d * h = e * (2 * h) + r * h
    BY <1>1
<1>3. r * h \in Nat /\ e * (2 * h) \in Nat /\ d * h \in Nat
    OBVIOUS
<1> QED
    BY <1>2, <1>3

\* The number of digits is a natural number.
LEMMA DigitsType == ASSUME NEW n PROVE Digits(n) \in Nat
<1> DEFINE K == {k \in 0 .. MaxDigits - 1 : 10^k <= n}
<1>1. IsFiniteSet(0 .. MaxDigits - 1)
    BY DumpAssumption, FS_Interval
<1>2. IsFiniteSet(K)
    <2>1. K \in SUBSET (0 .. MaxDigits - 1)
        OBVIOUS
    <2> HIDE DEF K
    <2> QED
        BY <1>1, <2>1, FS_Subset
<1> QED
    BY <1>2, FS_CardinalityType DEF Digits

\* Every envelope has a size, and a longer preview takes no fewer bytes.
LEMMA Sizes ==
    ASSUME DumpTypeOK, NEW b \in 1 .. 3
    PROVE  /\ Envelope[b] \in Nat /\ Chars[text] \in Nat /\ cap \in Nat
           /\ \A k \in 0 .. Chars[text] : Rendered(b, k) \in Nat
           /\ \A i, j \in 0 .. Chars[text] : i <= j => Rendered(b, i) <= Rendered(b, j)
<1>1. /\ Chars[text] \in Nat /\ Cost[text] \in [0 .. Chars[text] -> Nat] /\ cap \in Nat
      /\ \A i, j \in 0 .. Chars[text] : i <= j => Cost[text][i] <= Cost[text][j]
    BY DumpAssumption DEF DumpTypeOK
<1>2. Digits(Chars[text]) \in Nat /\ Digits(cap) \in Nat
    BY DigitsType
<1>3. Envelope[b] \in Nat
    BY <1>2 DEF Envelope
<1>4. Field(b) \in Nat
    BY DEF Field
<1> DEFINE fixed == Envelope[b] + Field(b)
<1>5. fixed \in Nat /\ \A k : Rendered(b, k) = fixed + Cost[text][k]
    BY <1>3, <1>4 DEF Rendered
<1> HIDE DEF fixed
<1>6. \A k \in 0 .. Chars[text] : Cost[text][k] \in Nat
    BY <1>1
<1>7. \A k \in 0 .. Chars[text] : Rendered(b, k) \in Nat
    BY <1>5, <1>6
<1>8. ASSUME NEW i \in 0 .. Chars[text], NEW j \in 0 .. Chars[text], i <= j
      PROVE  Rendered(b, i) <= Rendered(b, j)
  <2>1. Cost[text][i] <= Cost[text][j]
    BY <1>1, <1>8
  <2>2. Rendered(b, i) = fixed + Cost[text][i] /\ Rendered(b, j) = fixed + Cost[text][j]
    BY <1>5
  <2> QED
    BY <1>5, <1>6, <2>1, <2>2
<1> QED
    BY <1>1, <1>3, <1>7, <1>8

\* DumpInit establishes the invariant.
LEMMA DumpInitInv == DumpInit => DumpInv
    BY DumpAssumption
    DEF DumpInit, DumpInv, DumpTypeOK, SearchInv, HalvingInv, CapIsHonoredAndUsed

\* Measure preserves the invariant.
LEMMA MeasureStep ==
    ASSUME DumpInv, Measure
    PROVE  DumpInv'
<1>1. /\ dumpStep = "measure" /\ UNCHANGED <<cap, text, halvings>>
      /\ low = 0 /\ high = 0 /\ halvings = 1 /\ preview = -1
      /\ Chars[text] \in Nat /\ cap \in Nat
    BY DumpAssumption DEF Measure, DumpInv, SearchInv, DumpTypeOK
<1>2. Envelope' = Envelope /\ \A b, k : Rendered(b, k)' = Rendered(b, k)
    BY <1>1 DEF Envelope, Rendered, Digits, Field
<1>3. CASE (cap = 0 \/ Fits(Chars[text])) /\ EndDump(0, -1) /\ UNCHANGED <<low, high>>
    BY <1>1, <1>3 DEF EndDump, DumpInv, DumpTypeOK, SearchInv, HalvingInv,
                      CapIsHonoredAndUsed, Fits
<1>4. CASE EndDump(4, -1) /\ UNCHANGED <<low, high>>
    BY <1>1, <1>4 DEF EndDump, DumpInv, DumpTypeOK, SearchInv, HalvingInv,
                      CapIsHonoredAndUsed
<1>5. ASSUME cap > 0, NEW b \in 1 .. 3, Fits(Envelope[b]), Truncate(b)
      PROVE  DumpInv'
  <2>1. CASE EndDump(b, -1) /\ UNCHANGED <<low, high>>
    BY <1>1, <1>2, <1>5, <2>1 DEF EndDump, DumpInv, DumpTypeOK, SearchInv, HalvingInv,
                                  CapIsHonoredAndUsed, Fits
  <2>2. CASE /\ Fits(Rendered(b, 0))
             /\ dumpStep' = "search" /\ base' = b /\ high' = Chars[text]
             /\ UNCHANGED <<preview, low>>
    BY <1>1, <1>2, <1>5, <2>2 DEF DumpInv, DumpTypeOK, SearchInv, HalvingInv,
                                  CapIsHonoredAndUsed, Fits
  <2> QED
    BY <1>5, <2>1, <2>2 DEF Truncate
<1> QED
    BY <1>3, <1>4, <1>5 DEF Measure

\* Probe preserves the invariant.
LEMMA ProbeStep ==
    ASSUME DumpInv, Probe
    PROVE  DumpInv'
<1>1. /\ dumpStep = "search" /\ low < high /\ halvings' = 2 * halvings
      /\ UNCHANGED <<dumpStep, cap, text, base, preview>>
      /\ cap > 0 /\ base \in 1 .. 3 /\ preview = -1
      /\ 0 <= low /\ high <= Chars[text]
      /\ Chars[text] \in Nat /\ cap \in Nat /\ low \in Nat /\ high \in Nat
      /\ halvings \in Nat \ {0} /\ (high - low) * halvings <= Chars[text]
    BY DumpAssumption DEF Probe, DumpInv, SearchInv, DumpTypeOK, HalvingInv
<1>2. \A b, k : Rendered(b, k)' = Rendered(b, k)
    BY <1>1 DEF Envelope, Rendered, Digits, Field
<1>3. /\ Middle \in Nat /\ low < Middle /\ Middle <= high
      /\ 2 * (high - Middle) <= high - low /\ 2 * (Middle - 1 - low) <= high - low
    BY <1>1 DEF Middle
<1>4. \/ low' = Middle /\ high' = high /\ Fits(Rendered(base, Middle))
      \/ low' = low /\ high' = Middle - 1 /\ ~Fits(Rendered(base, Middle))
    BY DEF Probe
<1>5. DumpTypeOK'
    BY <1>1, <1>3, <1>4 DEF DumpInv, DumpTypeOK
<1>6. SearchInv'
  <2>1. Fits(Rendered(base, low)) /\ (high < Chars[text] => ~Fits(Rendered(base, high + 1)))
    BY <1>1 DEF DumpInv, SearchInv
  <2>2. CASE low' = Middle /\ high' = high /\ Fits(Rendered(base, Middle))
    BY <1>1, <1>2, <1>3, <2>1, <2>2 DEF SearchInv, Fits
  <2>3. CASE low' = low /\ high' = Middle - 1 /\ ~Fits(Rendered(base, Middle))
    <3>1. high' + 1 = Middle
        BY <1>3, <2>3
    <3> QED
        BY <1>1, <1>2, <1>3, <2>1, <2>3, <3>1 DEF SearchInv, Fits
  <2> QED
    BY <1>4, <2>2, <2>3
<1>7. HalvingInv'
  <2>1. /\ low' <= high' /\ 2 * (high' - low') <= high - low
        /\ high' - low' \in Nat /\ high - low \in Nat
    BY <1>1, <1>3, <1>4
  <2>2. (high' - low') * (2 * halvings) <= Chars[text]
    BY <1>1, <2>1, HalfTheInterval
  <2> QED
    BY <1>1, <2>1, <2>2 DEF HalvingInv
<1>8. CapIsHonoredAndUsed'
    BY <1>1 DEF CapIsHonoredAndUsed
<1> QED
    BY <1>5, <1>6, <1>7, <1>8 DEF DumpInv

\* Found preserves the invariant.
LEMMA FoundStep ==
    ASSUME DumpInv, Found
    PROVE  DumpInv'
<1>1. /\ dumpStep' = "done" /\ preview' = low /\ low = high
      /\ UNCHANGED <<cap, text, low, high, halvings, base>>
      /\ base \in 1 .. 3 /\ low \in 0 .. Chars[text] /\ Chars[text] \in Nat
    BY DumpAssumption DEF Found, EndDump, DumpInv, SearchInv, DumpTypeOK
<1>2. \A b, k : Rendered(b, k)' = Rendered(b, k)
    BY <1>1 DEF Envelope, Rendered, Digits, Field
<1>3. Fits(Rendered(base, low)) /\ (low < Chars[text] => ~Fits(Rendered(base, low + 1)))
    BY <1>1 DEF DumpInv, SearchInv, Found
<1>4. DumpTypeOK' /\ SearchInv' /\ HalvingInv'
    BY <1>1 DEF DumpInv, DumpTypeOK, SearchInv, HalvingInv
<1>5. ASSUME NEW k \in low + 1 .. Chars[text] PROVE ~Fits(Rendered(base, k))
  <2>1. low + 1 \in 0 .. Chars[text] /\ k \in 0 .. Chars[text] /\ low + 1 <= k
    BY <1>1
  <2>2. Rendered(base, low + 1) <= Rendered(base, k) /\ cap \in Nat
        /\ Rendered(base, low + 1) \in Nat /\ Rendered(base, k) \in Nat
    BY <1>1, <2>1, Sizes DEF DumpInv
  <2>3. ~Fits(Rendered(base, low + 1))
    BY <1>1, <1>3, <2>1
  <2> QED
    BY <2>2, <2>3 DEF Fits
<1>6. CapIsHonoredAndUsed'
    BY <1>1, <1>2, <1>3, <1>5 DEF CapIsHonoredAndUsed, Fits
<1> QED
    BY <1>4, <1>6 DEF DumpInv

-----------------------------------------------------------------------------
\* The invariant holds in every state of every behaviour.
THEOREM DumpInvariant == DumpSpec => []DumpInv
<1>1. DumpInv /\ [DumpNext]_dumpVars => DumpInv'
  <2>1. ASSUME DumpInv, UNCHANGED dumpVars PROVE DumpInv'
    BY <2>1 DEF dumpVars, DumpInv, DumpTypeOK, SearchInv, HalvingInv, CapIsHonoredAndUsed,
                Fits, Rendered, Envelope, Digits, Field
  <2> QED
    BY <2>1, MeasureStep, ProbeStep, FoundStep DEF DumpNext
<1> QED
    BY <1>1, DumpInitInv, PTL DEF DumpSpec

\* Every answer is within the cap, and its preview is as long as the cap permits.
THEOREM AnswersFit == DumpSpec => []CapIsHonoredAndUsed
    BY DumpInvariant, PTL DEF DumpInv

\* The search takes no more probes than halvings of the text.
THEOREM SearchEnds == DumpSpec => []SearchHalves
<1>1. DumpInv => SearchHalves
    BY DEF DumpInv, HalvingInv, SearchHalves
<1> QED
    BY <1>1, DumpInvariant, PTL

-----------------------------------------------------------------------------
(* Projects *)

\* Redmine validates that identifiers are unique.
UniqueSlugs ==
    \A p \in StartProjects : \A i, k \in Ids :
        p[i] # Gone /\ p[k] # Gone /\ p[i].slug = p[k].slug => i = k

CallPlaces == Ended \cup Waiting

ProjectTypes ==
    /\ redmine \in [Ids -> Project \cup {Gone}]
    /\ callPc \in [Calls -> CallPlaces]
    /\ DOMAIN table = Ids /\ DOMAIN op = Calls /\ DOMAIN ident = Calls /\ DOMAIN goal = Calls
    /\ DOMAIN replied = Calls /\ DOMAIN result = Calls
    /\ floor \in [Ids -> Nat] /\ began \in [Calls -> [Ids -> Nat]]
    /\ raced \in BOOLEAN

SlugLives(x) == \E i \in Live : redmine[i].slug = x

\* Ids are given out in increasing order: an id up to a live one is not given out again.
GivenOut(i) == \E k \in Live : i <= k

\* The project p has been Redmine's project i at some time.
WasThere(i, p) ==
    /\ i \in Ids /\ p \in Project /\ GivenOut(i)
    /\ redmine[i] # Gone => p.slug = redmine[i].slug /\ p.version <= redmine[i].version
    /\ redmine[i] = Gone => \A k \in Live : redmine[k].slug = p.slug => i < k

\* Everything that is cached or on its way has been there.
RowsKnown == \A i \in Ids : table[i] # NoRow => WasThere(i, table[i].project)
ReplyKnown(c) == \A a \in replied[c] : WasThere(a[1], a[2])
KnownInv ==
    /\ \A i, k \in Live : redmine[i].slug = redmine[k].slug => i = k
    /\ RowsKnown
    /\ \A c \in Calls : ReplyKnown(c)

\* No write is acknowledged that Redmine does not have.
FloorInv ==
    \A i \in Ids : /\ redmine[i] # Gone => floor[i] <= redmine[i].version
                   /\ floor[i] # 0 => GivenOut(i)

\* Unless a reply was on its way when the table was dropped, what is cached or on its
\* way is not older than the acknowledged writes.
FreshInv ==
    /\ \A c \in Calls, i \in Ids : began[c][i] <= floor[i]
    /\ ~raced =>
        /\ \A i \in Ids : table[i] # NoRow => table[i].project.version >= floor[i]
        /\ \A c \in Calls : callPc[c] \in {"got", "listed"} =>
            \A a \in replied[c] : a[2].version >= floor[a[1]]

\* A call reads the list of names only when no project has the identifier.
LookInv ==
    \A c \in Calls :
        /\ callPc[c] = "got" =>
            /\ replied[c] = {} => ~SlugLives(ident[c])
            /\ \A a \in replied[c] : a[2].slug = ident[c]
        /\ callPc[c] \in {"list", "listed"} => ~SlugLives(ident[c])
        /\ callPc[c] \in {"write", "written"} => result[c] = {} /\ goal[c] \in Ids
        /\ callPc[c] = "written" => \A a \in replied[c] : a[1] = goal[c]

ProjectInv ==
    /\ ProjectTypes /\ KnownInv /\ FloorInv /\ FreshInv /\ LookInv
    /\ ReadsSeeWrites /\ SlugBeatsName /\ CacheFailsOnlyOnReuse

\* What any step may do to Redmine's projects.
RedmineMoves ==
    /\ redmine' \in [Ids -> Project \cup {Gone}]
    /\ \A k \in Ids : GivenOut(k) => GivenOut(k)'
    /\ \A x : SlugLives(x)' <=> SlugLives(x)
    /\ \A k, p : WasThere(k, p) => WasThere(k, p)'
    /\ \A k \in Ids : redmine[k] = Gone /\ GivenOut(k) => redmine'[k] = Gone
    /\ \A k \in Ids : redmine'[k] # Gone =>
        \/ redmine[k] # Gone /\ redmine[k].version <= redmine'[k].version
        \/ ~GivenOut(k)
    /\ \A j, k \in Live' : redmine'[j].slug = redmine'[k].slug => j = k

\* A step that leaves Redmine alone.
LEMMA StillMoves ==
    ASSUME ProjectTypes, KnownInv, UNCHANGED redmine
    PROVE  RedmineMoves
<1>1. Live' = Live
  BY DEF Live
<1>2. \A k \in Ids : redmine[k] # Gone => redmine[k].version \in Nat
  BY DEF ProjectTypes, Project
<1> QED
  BY <1>1, <1>2 DEF ProjectTypes, KnownInv, RedmineMoves, GivenOut, SlugLives, WasThere

\* An edit changes no identifier and no id.
LEMMA EditMoves ==
    ASSUME ProjectTypes, KnownInv, NEW i \in Live, redmine[i].version < MaxVersion, Changed(i)
    PROVE  RedmineMoves
<1>1. i \in Ids /\ redmine[i] \in Project /\ Gone \notin Project /\ MaxVersion \in Nat
  BY ProjectAssumption DEF Live, ProjectTypes
<1>2. PICK p \in Project : /\ p.slug = redmine[i].slug /\ p.version = redmine[i].version + 1
                           /\ redmine' = [redmine EXCEPT ![i] = p]
  <2>1. [redmine[i] EXCEPT !.version = @ + 1] \in Project
    BY <1>1 DEF Project
  <2> QED
    BY <1>1, <2>1 DEF Changed, Project
<1>3. /\ redmine' \in [Ids -> Project \cup {Gone}] /\ Live' = Live
      /\ \A k \in Live : /\ redmine'[k].slug = redmine[k].slug
                         /\ redmine[k].version <= redmine'[k].version
                         /\ redmine[k].version \in Nat /\ redmine'[k].version \in Nat
      /\ \A k \in Ids : redmine[k] = Gone <=> redmine'[k] = Gone
  <2>1. \A k \in Ids : redmine[k] # Gone => redmine[k].version \in Nat
    BY DEF ProjectTypes, Project
  <2>2. p.version \in Nat
    BY DEF Project
  <2>3. \A k \in Ids : redmine'[k] = IF k = i THEN p ELSE redmine[k]
    BY <1>2 DEF ProjectTypes
  <2>4. \A k \in Ids : redmine[k] = Gone <=> redmine'[k] = Gone
    BY <1>1, <2>3
  <2>5. Live' = Live
    BY <2>4 DEF Live
  <2>6. redmine' \in [Ids -> Project \cup {Gone}]
    BY <1>2 DEF ProjectTypes
  <2> QED
    BY <1>1, <1>2, <2>1, <2>2, <2>3, <2>4, <2>5, <2>6 DEF Live
<1>4. ASSUME NEW k, NEW q, WasThere(k, q) PROVE WasThere(k, q)'
  <2>1. q.version \in Nat
    BY <1>4 DEF WasThere, Project
  <2> QED
    BY <1>3, <1>4, <2>1 DEF WasThere, GivenOut, Live
<1>5. \A k \in Ids : GivenOut(k) => GivenOut(k)'
  BY <1>3 DEF GivenOut
<1>6. \A x : SlugLives(x)' <=> SlugLives(x)
  BY <1>3 DEF SlugLives
<1>7. \A j, k \in Live' : redmine'[j].slug = redmine'[k].slug => j = k
  BY <1>3 DEF KnownInv
<1> QED
  BY <1>3, <1>4, <1>5, <1>6, <1>7 DEF RedmineMoves, Live

\* A project that is made again has an id that no project has had.
LEMMA RecreateMoves ==
    ASSUME ProjectTypes, KnownInv, NEW i \in Ids, NEW j \in Ids, Recreate(i, j)
    PROVE  RedmineMoves
<1>1. /\ i \in Live /\ redmine[i] \in Project /\ Gone \notin Project /\ Ids \subseteq Nat
      /\ \A k \in Live : k < j
  BY ProjectAssumption DEF Recreate, Live, ProjectTypes
<1>2. PICK p \in Project : /\ p.slug = redmine[i].slug /\ p.version = 0
                           /\ redmine' = [redmine EXCEPT ![i] = Gone, ![j] = p]
  <2>1. [redmine[i] EXCEPT !.version = 0] \in Project
    BY <1>1, ProjectAssumption DEF Project
  <2>2. redmine' = [redmine EXCEPT ![i] = Gone, ![j] = [redmine[i] EXCEPT !.version = 0]]
    BY DEF Recreate
  <2> QED
    BY <1>1, <2>1, <2>2 DEF Project
<1>3. i < j /\ i # j /\ j \notin Live /\ ~GivenOut(j)
  BY <1>1 DEF GivenOut, Live
<1>4. \A k \in Ids : redmine'[k] = IF k = j THEN p ELSE IF k = i THEN Gone ELSE redmine[k]
  BY <1>2, <1>3 DEF ProjectTypes
<1>5. redmine' \in [Ids -> Project \cup {Gone}]
  BY <1>2 DEF ProjectTypes
<1>6. Live' = (Live \ {i}) \cup {j}
  BY <1>1, <1>3, <1>4 DEF Live
<1>7. \A k \in Ids : GivenOut(k) => GivenOut(k)' /\ k < j
  BY <1>1, <1>6 DEF GivenOut, Live
<1>8. ASSUME NEW x PROVE SlugLives(x)' <=> SlugLives(x)
  BY <1>1, <1>2, <1>3, <1>4, <1>6 DEF SlugLives, Live
<1>9. ASSUME NEW k, NEW q, WasThere(k, q) PROVE WasThere(k, q)'
  <2>1. k \in Ids /\ q \in Project /\ GivenOut(k) /\ GivenOut(k)' /\ k < j /\ k # j
    BY <1>1, <1>7, <1>9 DEF WasThere
  <2>2. CASE k = i
    <3>1. redmine'[k] = Gone
      BY <1>3, <1>4, <2>2
    <3>2. ASSUME NEW l \in Live', redmine'[l].slug = q.slug PROVE k < l
      <4>1. CASE l = j
        BY <2>1, <4>1
      <4>2. CASE l # j
        <5>1. l \in Live /\ l # i /\ redmine'[l] = redmine[l]
          BY <1>4, <1>6, <4>2 DEF Live
        <5>2. q.slug = redmine[i].slug
          BY <1>1, <1>9, <2>2 DEF WasThere, Live
        <5> QED
          BY <1>1, <3>2, <5>1, <5>2 DEF KnownInv
      <4> QED
        BY <4>1, <4>2
    <3> QED
      BY <2>1, <3>1, <3>2 DEF WasThere
  <2>3. CASE k # i
    <3>1. redmine'[k] = redmine[k]
      BY <1>4, <2>1, <2>3
    <3>2. ASSUME redmine[k] = Gone, NEW l \in Live', redmine'[l].slug = q.slug PROVE k < l
      BY <1>4, <1>6, <1>9, <2>1, <3>2 DEF WasThere, Live
    <3> QED
      BY <1>9, <2>1, <3>1, <3>2 DEF WasThere
  <2> QED
    BY <2>2, <2>3
<1>10. \A k, l \in Live' : redmine'[k].slug = redmine'[l].slug => k = l
  BY <1>1, <1>2, <1>3, <1>4, <1>6 DEF KnownInv, Live
<1>11. \A k \in Ids : redmine[k] = Gone /\ GivenOut(k) => redmine'[k] = Gone
  BY <1>3, <1>4
<1>12. \A k \in Ids : redmine'[k] # Gone =>
        \/ redmine[k] # Gone /\ redmine[k].version <= redmine'[k].version
        \/ ~GivenOut(k)
  <2>1. \A k \in Ids : redmine[k] # Gone => redmine[k].version \in Nat
    BY DEF ProjectTypes, Project
  <2> QED
    BY <1>3, <1>4, <2>1
<1> QED
  BY <1>5, <1>7, <1>8, <1>9, <1>10, <1>11, <1>12 DEF RedmineMoves

\* Acknowledged writes are never undone.
LEMMA FloorKept == ASSUME ProjectInv, RedmineMoves, UNCHANGED floor PROVE FloorInv'
<1>1. ASSUME NEW k \in Ids
      PROVE  /\ redmine'[k] # Gone => floor[k] <= redmine'[k].version
             /\ floor[k] # 0 => GivenOut(k)'
  <2>1. /\ floor[k] \in Nat
        /\ redmine'[k] # Gone => redmine'[k].version \in Nat
        /\ redmine[k] # Gone => redmine[k].version \in Nat
    BY DEF ProjectInv, ProjectTypes, RedmineMoves, Project
  <2>2. redmine[k] # Gone => floor[k] <= redmine[k].version
    BY DEF ProjectInv, FloorInv
  <2>3. floor[k] # 0 => GivenOut(k) /\ GivenOut(k)'
    BY DEF ProjectInv, FloorInv, RedmineMoves
  <2>4. CASE redmine'[k] # Gone
    <3>1. CASE redmine[k] # Gone /\ redmine[k].version <= redmine'[k].version
      BY <2>1, <2>2, <2>3, <2>4, <3>1
    <3>2. CASE ~GivenOut(k)
      BY <2>1, <2>3, <2>4, <3>2
    <3> QED
      BY <2>4, <3>1, <3>2 DEF RedmineMoves
  <2> QED
    BY <2>3, <2>4
<1> QED
  BY <1>1 DEF FloorInv

\* What is answered when a deleted project's row is in the way stays true.
LEMMA ReuseKept ==
    ASSUME ProjectInv, RedmineMoves, NEW c \in Calls, callPc[c] = "internal_error"
    PROVE  \E a \in replied[c], j \in Ids : j <= a[1] /\ redmine'[j] = Gone
<1>1. PICK a \in replied[c], j \in Ids : j <= a[1] /\ redmine[j] = Gone
  BY DEF ProjectInv, CacheFailsOnlyOnReuse
<1>2. a[1] \in Ids /\ GivenOut(a[1])
  BY DEF ProjectInv, KnownInv, ReplyKnown, WasThere
<1>3. PICK k \in Live : a[1] <= k
  BY <1>2 DEF GivenOut
<1>4. GivenOut(j)
  <2>1. j \in Nat /\ a[1] \in Nat /\ k \in Nat
    BY <1>2, ProjectAssumption DEF Live
  <2>2. j <= k
    BY <1>1, <1>3, <2>1
  <2> QED
    BY <1>3, <2>2 DEF GivenOut
<1> QED
  BY <1>1, <1>4 DEF RedmineMoves

\* Redmine's projects change and nothing else, or the table gets older.
LEMMA RedmineStep ==
    ASSUME ProjectInv, RedmineMoves,
           UNCHANGED <<callPc, op, ident, goal, replied, result, floor, began, calls, raced>>,
           DOMAIN table' = Ids,
           \A k \in Ids : table'[k] # NoRow => table[k] # NoRow /\ table'[k].project = table[k].project
    PROVE  ProjectInv'
<1>1. ProjectTypes'
  BY DEF ProjectInv, ProjectTypes, RedmineMoves
<1>2. KnownInv'
  <2>1. \A k \in Ids : table'[k] # NoRow => WasThere(k, table'[k].project)
    BY DEF ProjectInv, KnownInv, RowsKnown
  <2>2. RowsKnown'
    BY <2>1 DEF RowsKnown, RedmineMoves
  <2>3. \A d \in Calls : ReplyKnown(d) => ReplyKnown(d)'
    BY DEF ReplyKnown, RedmineMoves
  <2> QED
    BY <2>2, <2>3 DEF ProjectInv, KnownInv, RedmineMoves
<1>3. FloorInv'
  BY FloorKept
<1>4. FreshInv'
  BY DEF ProjectInv, FreshInv
<1>5. LookInv'
  BY DEF ProjectInv, LookInv, RedmineMoves
<1>6. ReadsSeeWrites'
  BY DEF ProjectInv, ReadsSeeWrites
<1>7. SlugBeatsName'
  BY DEF ProjectInv, SlugBeatsName, RedmineMoves, SlugLives
<1>8. CacheFailsOnlyOnReuse'
  BY ReuseKept DEF CacheFailsOnlyOnReuse
<1> QED
  BY <1>1, <1>2, <1>3, <1>4, <1>5, <1>6, <1>7, <1>8 DEF ProjectInv

\* A step of one call, which moves it to another place.  Redmine may change in it,
\* as may what is on its way to the call and the call's result.
LEMMA CallStep ==
    ASSUME ProjectInv, RedmineMoves, NEW c \in Calls, NEW label \in CallPlaces, Goto(c, label),
           UNCHANGED <<floor, raced>>,
           DOMAIN table' = Ids, DOMAIN op' = Calls, DOMAIN ident' = Calls, DOMAIN goal' = Calls,
           DOMAIN replied' = Calls, DOMAIN result' = Calls,
           began' \in [Calls -> [Ids -> Nat]],
           \A d \in Calls : d # c => /\ ident'[d] = ident[d] /\ goal'[d] = goal[d]
                                     /\ replied'[d] = replied[d]
                                     /\ result'[d] = result[d] /\ began'[d] = began[d],
           \A k \in Ids : began'[c][k] <= floor[k],
           \* what is cached
           RowsKnown',
           ~raced => \A k \in Ids : table'[k] # NoRow => table'[k].project.version >= floor[k],
           \* what is on its way
           ReplyKnown(c)',
           label \in {"got", "listed"} /\ ~raced =>
                \A a \in replied'[c] : a[2].version >= floor[a[1]],
           label = "got" =>
                /\ replied'[c] = {} => ~SlugLives(ident'[c])
                /\ \A a \in replied'[c] : a[2].slug = ident'[c],
           label \in {"list", "listed"} => ~SlugLives(ident'[c]),
           label \in {"write", "written"} => result'[c] = {} /\ goal'[c] \in Ids,
           label = "written" => \A a \in replied'[c] : a[1] = goal'[c],
           \* what is answered
           label = "ok" => \A a \in result'[c] :
                /\ ~raced => a[2].version >= began'[c][a[1]]
                /\ SlugLives(ident'[c]) => a[2].slug = ident'[c],
           label = "internal_error" =>
                \E a \in replied'[c], j \in Ids : j <= a[1] /\ redmine'[j] = Gone
    PROVE  ProjectInv'
<1>1. /\ callPc' \in [Calls -> CallPlaces]
      /\ \A d \in Calls : callPc'[d] = IF d = c THEN label ELSE callPc[d]
  BY DEF Goto, ProjectInv, ProjectTypes
<1>2. ProjectTypes'
  BY <1>1 DEF ProjectInv, ProjectTypes, RedmineMoves
<1>3. KnownInv'
  <2>1. ASSUME NEW d \in Calls, d # c, ReplyKnown(d) PROVE ReplyKnown(d)'
    BY <2>1 DEF ReplyKnown, RedmineMoves
  <2> QED
    BY <1>1, <2>1 DEF ProjectInv, KnownInv, RedmineMoves
<1>4. FloorInv'
  BY FloorKept
<1>5. FreshInv'
  BY <1>1 DEF ProjectInv, FreshInv
<1>6. LookInv'
  BY <1>1 DEF ProjectInv, LookInv, RedmineMoves
<1>7. ReadsSeeWrites'
  BY <1>1 DEF ProjectInv, ReadsSeeWrites
<1>8. SlugBeatsName'
  <2>1. SlugBeatsName <=> \A d \in Calls : callPc[d] = "ok" =>
            \A a \in result[d] : SlugLives(ident[d]) => a[2].slug = ident[d]
    BY DEF SlugBeatsName, SlugLives
  <2>2. ASSUME NEW d \in Calls, callPc'[d] = "ok", NEW a \in result'[d],
               NEW x, x = ident'[d], SlugLives(x)'
        PROVE  a[2].slug = x
    <3>1. SlugLives(x)
      BY <2>2 DEF RedmineMoves
    <3> QED
      BY <1>1, <2>1, <2>2, <3>1 DEF ProjectInv
  <2> QED
    BY <2>2 DEF SlugBeatsName, SlugLives
<1>9. CacheFailsOnlyOnReuse'
  BY <1>1, ReuseKept DEF CacheFailsOnlyOnReuse
<1> QED
  BY <1>2, <1>3, <1>4, <1>5, <1>6, <1>7, <1>8, <1>9 DEF ProjectInv

\* What there is when nothing is stored and Redmine stands still.
LEMMA CacheKept ==
    ASSUME ProjectInv, UNCHANGED <<redmine, table>>
    PROVE  /\ RedmineMoves /\ RowsKnown'
           /\ ~raced => \A k \in Ids : table'[k] # NoRow => table'[k].project.version >= floor[k]
           /\ \A d \in Calls : replied'[d] = replied[d] => ReplyKnown(d)'
<1>1. RedmineMoves
  BY StillMoves DEF ProjectInv
<1>2. RowsKnown'
  BY <1>1 DEF ProjectInv, KnownInv, RowsKnown, RedmineMoves
<1>3. \A d \in Calls : replied'[d] = replied[d] => ReplyKnown(d)'
  BY <1>1 DEF ProjectInv, KnownInv, ReplyKnown, RedmineMoves
<1> QED
  BY <1>1, <1>2, <1>3 DEF ProjectInv, FreshInv

\* A row that answers has been Redmine's, and is not older than what was acknowledged.
LEMMA CachedRows ==
    ASSUME ProjectInv, NEW x
    PROVE  /\ \A f \in CachedSlug(x) : /\ f[2].slug = x
                                       /\ ~raced => f[1] \in Ids /\ f[2].version >= floor[f[1]]
           /\ \A f \in CachedName(x) : ~raced => f[1] \in Ids /\ f[2].version >= floor[f[1]]
BY DEF CachedSlug, CachedName, Cached, ProjectInv, FreshInv

\* A read begins, and may end with what is cached.
LEMMA BeginReadKeeps == ASSUME ProjectInv, NEW c \in Calls, BeginRead(c) PROVE ProjectInv'
<1>1. /\ UNCHANGED <<redmine, table, goal, replied, floor, raced>>
      /\ began' = [began EXCEPT ![c] = floor] /\ DOMAIN goal' = Calls /\ DOMAIN replied' = Calls
      /\ DOMAIN table' = Ids
  BY DEF BeginRead, MayBegin, ProjectInv, ProjectTypes
<1>2. PICK o \in {"describe", "resolve"}, x \in Idents :
        /\ op' = [op EXCEPT ![c] = o] /\ ident' = [ident EXCEPT ![c] = x]
        /\ \/ Goto(c, "get") /\ result' = [result EXCEPT ![c] = {}]
           \/ /\ \E f \in Lookup(x) : result' = [result EXCEPT ![c] = {f}]
              /\ Goto(c, "ok")
  BY DEF BeginRead
<1>3. /\ DOMAIN op' = Calls /\ DOMAIN ident' = Calls /\ DOMAIN result' = Calls
      /\ ident'[c] = x /\ began'[c] = floor
      /\ began' \in [Calls -> [Ids -> Nat]] /\ floor \in [Ids -> Nat]
      /\ \A d \in Calls : d # c => ident'[d] = ident[d] /\ result'[d] = result[d] /\ began'[d] = began[d]
  BY <1>1, <1>2 DEF ProjectInv, ProjectTypes
<1>4. \A k \in Ids : began'[c][k] <= floor[k]
  BY <1>3
<1>5. CASE Goto(c, "get")
  BY <1>1, <1>3, <1>4, <1>5, CacheKept, CallStep DEF CallPlaces, Waiting, Ended
<1>6. CASE Goto(c, "ok") /\ \E f \in Lookup(x) : result' = [result EXCEPT ![c] = {f}]
  <2>1. \A a \in result'[c] : /\ ~raced => a[2].version >= began'[c][a[1]]
                              /\ SlugLives(ident'[c]) => a[2].slug = ident'[c]
    <3>1. PICK f \in CachedSlug(x) : result'[c] = {f}
      BY <1>6 DEF Lookup, ProjectInv, ProjectTypes
    <3> QED
      BY <1>3, <3>1, CachedRows
  <2> QED
    BY <1>1, <1>3, <1>4, <1>6, <2>1, CacheKept, CallStep DEF CallPlaces, Waiting, Ended
<1> QED
  BY <1>2, <1>5, <1>6

\* A write begins.
LEMMA BeginWriteKeeps == ASSUME ProjectInv, NEW c \in Calls, BeginWrite(c) PROVE ProjectInv'
<1>1. /\ UNCHANGED <<redmine, table, ident, replied, floor, raced>>
      /\ began' = [began EXCEPT ![c] = floor] /\ result' = [result EXCEPT ![c] = {}]
      /\ op' = [op EXCEPT ![c] = "write"] /\ Goto(c, "write")
  BY DEF BeginWrite, MayBegin
<1>2. PICK i \in Live : goal' = [goal EXCEPT ![c] = i]
  BY DEF BeginWrite
<1>3. /\ DOMAIN op' = Calls /\ DOMAIN ident' = Calls /\ DOMAIN result' = Calls /\ DOMAIN goal' = Calls
      /\ DOMAIN replied' = Calls /\ DOMAIN table' = Ids /\ goal'[c] \in Ids /\ result'[c] = {}
      /\ began'[c] = floor /\ began' \in [Calls -> [Ids -> Nat]] /\ floor \in [Ids -> Nat]
      /\ \A d \in Calls : d # c => goal'[d] = goal[d] /\ result'[d] = result[d] /\ began'[d] = began[d]
  BY <1>1, <1>2 DEF ProjectInv, ProjectTypes, Live
<1>4. \A k \in Ids : began'[c][k] <= floor[k]
  BY <1>3
<1> QED
  BY <1>1, <1>3, <1>4, CacheKept, CallStep DEF CallPlaces, Waiting, Ended

\* What a call in progress leaves alone.
LEMMA CallShape ==
    ASSUME ProjectInv, NEW c \in Calls, UNCHANGED <<op, ident, goal, began>>
    PROVE  /\ DOMAIN table = Ids /\ DOMAIN replied = Calls /\ DOMAIN result = Calls
           /\ DOMAIN op' = Calls /\ DOMAIN ident' = Calls /\ DOMAIN goal' = Calls
           /\ began' \in [Calls -> [Ids -> Nat]]
           /\ \A d \in Calls : ident'[d] = ident[d] /\ goal'[d] = goal[d] /\ began'[d] = began[d]
           /\ \A k \in Ids : began'[c][k] <= floor[k]
BY DEF ProjectInv, ProjectTypes, FreshInv

\* Redmine answers with projects that it has.
LEMMA AnswerKeeps == ASSUME ProjectInv, NEW c \in Calls, Answer(c) PROVE ProjectInv'
<1>1. PICK field \in {"slug", "name"} :
        /\ UNCHANGED <<redmine, table, op, ident, goal, result, floor, began, raced>>
        /\ replied' = [replied EXCEPT ![c] = Select(field, ident[c])]
        /\ \/ field = "slug" /\ Goto(c, "got")
           \/ field = "name" /\ Goto(c, "listed") /\ callPc[c] = "list"
  BY DEF Answer
<1>2. /\ replied'[c] = Select(field, ident[c]) /\ DOMAIN replied' = Calls
      /\ \A d \in Calls : d # c => replied'[d] = replied[d]
  BY <1>1 DEF ProjectInv, ProjectTypes
<1>3. \A a \in Select(field, ident[c]) :
        /\ WasThere(a[1], a[2]) /\ a[2].version >= floor[a[1]]
        /\ field = "slug" => a[2].slug = ident[c]
  <2> SUFFICES ASSUME NEW i \in Live, redmine[i][field] = ident[c]
               PROVE  /\ WasThere(i, redmine[i]) /\ redmine[i].version >= floor[i]
                      /\ field = "slug" => redmine[i].slug = ident[c]
    BY DEF Select
  <2>1. i \in Nat /\ i \in Ids /\ redmine[i] \in Project /\ redmine[i].version \in Nat
        /\ floor[i] \in Nat
    <3>1. i \in Ids /\ redmine[i] # Gone
      BY DEF Live
    <3>2. redmine \in [Ids -> Project \cup {Gone}] /\ floor \in [Ids -> Nat]
      BY DEF ProjectInv, ProjectTypes
    <3>3. redmine[i] \in Project
      BY <3>1, <3>2
    <3>4. redmine[i].version \in Nat
      BY <3>3, ProjectAssumption DEF Project
    <3> QED
      BY <3>1, <3>2, <3>3, <3>4, ProjectAssumption
  <2> QED
    BY <2>1 DEF WasThere, GivenOut, Live, ProjectInv, FloorInv
<1>4. RedmineMoves
  BY <1>1, CacheKept
<1>5. ReplyKnown(c)'
  BY <1>2, <1>3, <1>4 DEF ReplyKnown, RedmineMoves
<1>6. field = "slug" /\ replied'[c] = {} => ~SlugLives(ident[c])
  BY <1>2 DEF Select, SlugLives
<1>7. callPc[c] = "list" => ~SlugLives(ident[c])
  BY DEF ProjectInv, LookInv
<1>8. CASE field = "slug" /\ Goto(c, "got")
  BY <1>1, <1>2, <1>3, <1>5, <1>6, <1>8, CacheKept, CallShape, CallStep
  DEF CallPlaces, Waiting, Ended
<1>9. CASE field = "name" /\ Goto(c, "listed") /\ callPc[c] = "list"
  BY <1>1, <1>2, <1>3, <1>5, <1>7, <1>9, CacheKept, CallShape, CallStep
  DEF CallPlaces, Waiting, Ended
<1> QED
  BY <1>1, <1>8, <1>9

\* A reply is stored and returned, or a deleted project's row is in its way.
LEMMA StoreKeeps ==
    ASSUME ProjectInv, NEW c \in Calls, callPc[c] \in {"got", "listed"},
           NEW a \in replied[c], StoreAndReturn(c, a[1], a[2]),
           UNCHANGED <<redmine, op, ident, goal, replied, floor, began, raced>>,
           SlugLives(ident[c]) => a[2].slug = ident[c]
    PROVE  ProjectInv'
<1>1. RedmineMoves
  BY StillMoves DEF ProjectInv
<1>2. WasThere(a[1], a[2]) /\ a[1] \in Ids /\ a[1] \in Nat
  BY ProjectAssumption DEF ProjectInv, KnownInv, ReplyKnown, WasThere
<1>3. ReplyKnown(c)'
  BY <1>1 DEF ProjectInv, KnownInv, ReplyKnown, RedmineMoves
<1>4. ~raced => a[2].version >= floor[a[1]]
  BY DEF ProjectInv, FreshInv
<1>5. CASE Clashes(a[1], a[2])
  <2>1. Goto(c, "internal_error") /\ UNCHANGED <<table, result>>
    BY <1>5 DEF StoreAndReturn
  <2>2. PICK j \in Ids \ {a[1]} : table[j] # NoRow /\ table[j].project.slug = a[2].slug
    BY <1>5 DEF Clashes
  <2>3. WasThere(j, table[j].project) /\ j \in Nat
    BY <2>2, ProjectAssumption DEF ProjectInv, KnownInv, RowsKnown
  <2>4. \E k \in Ids : k <= a[1] /\ redmine[k] = Gone
    <3>1. CASE redmine[a[1]] = Gone
      BY <1>2, <3>1
    <3>2. CASE redmine[a[1]] # Gone
      <4>1. a[1] \in Live /\ redmine[a[1]].slug = a[2].slug
        BY <1>2, <3>2 DEF WasThere, Live
      <4>2. redmine[j] = Gone
        <5>1. ASSUME redmine[j] # Gone PROVE FALSE
          <6>1. j \in Live /\ redmine[j].slug = a[2].slug
            BY <2>2, <2>3, <5>1 DEF WasThere, Live
          <6> QED
            BY <2>2, <4>1, <6>1 DEF ProjectInv, KnownInv
        <5> QED
          BY <5>1
      <4>3. j < a[1]
        BY <2>2, <2>3, <4>1, <4>2 DEF WasThere
      <4> QED
        BY <1>2, <2>3, <4>2, <4>3
    <3> QED
      BY <3>1, <3>2
  <2>5. \E b \in replied'[c], k \in Ids : k <= b[1] /\ redmine'[k] = Gone
    BY <2>4
  <2> QED
    BY <1>3, <2>1, <2>5, CacheKept, CallShape, CallStep DEF CallPlaces, Waiting, Ended
<1>6. CASE ~Clashes(a[1], a[2])
  <2>1. /\ table' = [table EXCEPT ![a[1]] = [project |-> a[2], fresh |-> TRUE]]
        /\ result' = [result EXCEPT ![c] = {<<a[1], a[2]>>}]
        /\ Goto(c, "ok")
    BY <1>6 DEF StoreAndReturn
  <2>2. /\ DOMAIN table' = Ids /\ DOMAIN result' = Calls /\ result'[c] = {<<a[1], a[2]>>}
        /\ \A d \in Calls : d # c => result'[d] = result[d]
        /\ \A k \in Ids : table'[k] =
                IF k = a[1] THEN [project |-> a[2], fresh |-> TRUE] ELSE table[k]
    BY <2>1 DEF ProjectInv, ProjectTypes
  <2>3. \A k \in Ids : table'[k] # NoRow => WasThere(k, table'[k].project)
    BY <1>2, <2>2 DEF ProjectInv, KnownInv, RowsKnown
  <2>4. RowsKnown'
    BY <1>1, <2>3 DEF RowsKnown, RedmineMoves
  <2>5. ~raced => \A k \in Ids : table'[k] # NoRow => table'[k].project.version >= floor[k]
    BY <1>4, <2>2 DEF ProjectInv, FreshInv
  <2>6. ~raced => a[2].version >= began[c][a[1]]
    <3>1. /\ began[c][a[1]] \in Nat /\ floor[a[1]] \in Nat /\ a[2].version \in Nat
          /\ began[c][a[1]] <= floor[a[1]]
      BY <1>2 DEF ProjectInv, ProjectTypes, FreshInv, WasThere, Project
    <3> QED
      BY <1>4, <3>1
  <2>7. \A b \in result'[c] : /\ ~raced => b[2].version >= began'[c][b[1]]
                              /\ SlugLives(ident'[c]) => b[2].slug = ident'[c]
    BY <2>2, <2>6
  <2> QED
    BY <1>1, <1>3, <2>1, <2>2, <2>4, <2>5, <2>7, CallShape, CallStep
    DEF CallPlaces, Waiting, Ended
<1> QED
  BY <1>5, <1>6

\* The project is there, or is looked for by its name.
LEMMA ReceiveKeeps == ASSUME ProjectInv, NEW c \in Calls, Receive(c) PROVE ProjectInv'
<1>1. /\ callPc[c] = "got"
      /\ UNCHANGED <<redmine, op, ident, goal, replied, floor, began, raced>>
  BY DEF Receive
<1>2. /\ replied[c] = {} => ~SlugLives(ident[c])
      /\ \A a \in replied[c] : a[2].slug = ident[c]
  BY <1>1 DEF ProjectInv, LookInv
<1>3. CASE replied[c] # {}
  BY <1>1, <1>2, <1>3, StoreKeeps DEF Receive
<1>4. CASE replied[c] = {}
  <2>1. \/ Goto(c, "not_found") /\ UNCHANGED <<table, result>>
        \/ Goto(c, "list") /\ UNCHANGED <<table, result>>
        \/ /\ Goto(c, "ok") /\ UNCHANGED table
           /\ \E f \in CachedName(ident[c]) : result' = [result EXCEPT ![c] = {f}]
    BY <1>4 DEF Receive
  <2>2. CASE (Goto(c, "not_found") \/ Goto(c, "list")) /\ UNCHANGED <<table, result>>
    BY <1>1, <1>2, <1>4, <2>2, CacheKept, CallShape, CallStep DEF CallPlaces, Waiting, Ended
  <2>3. CASE /\ Goto(c, "ok") /\ UNCHANGED table
             /\ \E f \in CachedName(ident[c]) : result' = [result EXCEPT ![c] = {f}]
    <3>1. PICK f \in CachedName(ident[c]) : result' = [result EXCEPT ![c] = {f}]
      BY <2>3
    <3>2. /\ DOMAIN result' = Calls /\ result'[c] = {f}
          /\ \A d \in Calls : d # c => result'[d] = result[d]
      BY <3>1 DEF ProjectInv, ProjectTypes
    <3>3. ~raced => f[2].version >= began[c][f[1]]
      <4>1. f[1] \in Ids => began[c][f[1]] \in Nat /\ floor[f[1]] \in Nat
                            /\ began[c][f[1]] <= floor[f[1]]
        BY DEF ProjectInv, ProjectTypes, FreshInv
      <4>2. f[2].version \in Nat
        BY DEF CachedName, Cached, ProjectInv, KnownInv, RowsKnown, WasThere, Project
      <4> QED
        BY <4>1, <4>2, CachedRows
    <3>4. \A a \in result'[c] : /\ ~raced => a[2].version >= began'[c][a[1]]
                                /\ SlugLives(ident'[c]) => a[2].slug = ident'[c]
      BY <1>1, <1>2, <1>4, <3>2, <3>3
    <3> QED
      BY <1>1, <2>3, <3>2, <3>4, CacheKept, CallShape, CallStep DEF CallPlaces, Waiting, Ended
  <2> QED
    BY <2>1, <2>2, <2>3
<1> QED
  BY <1>3, <1>4

\* The list of projects is read only when none has the identifier.
LEMMA ReceiveListKeeps == ASSUME ProjectInv, NEW c \in Calls, ReceiveList(c) PROVE ProjectInv'
<1>1. /\ callPc[c] = "listed" /\ ~SlugLives(ident[c])
      /\ UNCHANGED <<redmine, op, ident, goal, replied, floor, began, raced>>
  BY DEF ReceiveList, ProjectInv, LookInv
<1>2. CASE replied[c] # {}
  BY <1>1, <1>2, StoreKeeps DEF ReceiveList
<1>3. CASE replied[c] = {}
  <2>1. Goto(c, "not_found") /\ UNCHANGED <<table, result>>
    BY <1>3 DEF ReceiveList
  <2> QED
    BY <1>1, <2>1, CacheKept, CallShape, CallStep DEF CallPlaces, Waiting, Ended
<1> QED
  BY <1>2, <1>3

\* A request fails.
LEMMA ApiErrorKeeps == ASSUME ProjectInv, NEW c \in Calls, ApiError(c) PROVE ProjectInv'
<1>1. /\ Goto(c, "api_error")
      /\ UNCHANGED <<redmine, table, op, ident, goal, replied, result, floor, began, raced>>
  BY DEF ApiError
<1> QED
  BY <1>1, CacheKept, CallShape, CallStep DEF CallPlaces, Waiting, Ended

\* Redmine commits a write.
LEMMA WriteKeeps == ASSUME ProjectInv, NEW c \in Calls, Write(c) PROVE ProjectInv'
<1>1. /\ callPc[c] = "write" /\ goal[c] \in Live /\ redmine[goal[c]].version < MaxVersion
      /\ Changed(goal[c])
      /\ replied' = [replied EXCEPT ![c] = {<<goal[c], redmine'[goal[c]]>>}]
      /\ Goto(c, "written") \/ Goto(c, "api_error")
      /\ UNCHANGED <<table, op, ident, goal, result, floor, began, raced>>
  BY DEF Write
<1>2. RedmineMoves
  BY <1>1, EditMoves DEF ProjectInv
<1>3. /\ goal[c] \in Ids /\ result[c] = {}
      /\ redmine'[goal[c]] # Gone /\ redmine'[goal[c]] \in Project
      /\ redmine'[goal[c]].version \in Nat
  <2>1. goal[c] \in Ids /\ result[c] = {}
    BY <1>1 DEF Live, ProjectInv, LookInv
  <2>2. redmine'[goal[c]] = [redmine[goal[c]] EXCEPT !.version = @ + 1]
    BY <1>1, <2>1 DEF Changed, ProjectInv, ProjectTypes
  <2>3. [redmine[goal[c]] EXCEPT !.version = @ + 1] \in Project
    BY <1>1, <2>1, ProjectAssumption DEF Live, ProjectInv, ProjectTypes, Project
  <2> QED
    BY <2>1, <2>2, <2>3, ProjectAssumption DEF Project
<1>4. /\ replied'[c] = {<<goal[c], redmine'[goal[c]]>>} /\ DOMAIN replied' = Calls
      /\ \A d \in Calls : d # c => replied'[d] = replied[d]
  BY <1>1 DEF ProjectInv, ProjectTypes
<1>5. GivenOut(goal[c])
  <2>1. goal[c] \in Nat
    BY <1>3, ProjectAssumption
  <2>2. goal[c] <= goal[c]
    BY <2>1
  <2> QED
    BY <1>1, <2>2 DEF GivenOut
<1>6. ASSUME NEW g \in Ids, g = goal[c] PROVE GivenOut(g)'
  BY <1>2, <1>5, <1>6 DEF RedmineMoves
<1>7. ReplyKnown(c)'
  <2> SUFFICES ASSUME NEW a, a \in replied'[c] PROVE WasThere(a[1], a[2])'
    BY DEF ReplyKnown
  <2>1. a[1] = goal[c] /\ a[2] = redmine'[goal[c]]
    BY <1>4
  <2>2. GivenOut(a[1])'
    BY <1>3, <1>6, <2>1
  <2> QED
    BY <1>3, <2>1, <2>2 DEF WasThere
<1>8. RowsKnown'
  BY <1>1, <1>2 DEF ProjectInv, KnownInv, RowsKnown, RedmineMoves
<1>9. ~raced => \A k \in Ids : table'[k] # NoRow => table'[k].project.version >= floor[k]
  BY <1>1 DEF ProjectInv, FreshInv
<1>10. ASSUME NEW label \in {"written", "api_error"}, Goto(c, label) PROVE ProjectInv'
  BY <1>1, <1>2, <1>3, <1>4, <1>7, <1>8, <1>9, <1>10, CallShape, CallStep
  DEF CallPlaces, Waiting, Ended
<1> QED
  BY <1>1, <1>10

\* The write is acknowledged, and the table is dropped.
LEMMA ReturnKeeps == ASSUME ProjectInv, NEW c \in Calls, Return(c) PROVE ProjectInv'
<1>1. /\ callPc[c] = "written" /\ table' = [i \in Ids |-> NoRow] /\ Goto(c, "ok")
      /\ raced' = (raced \/ \E d \in Calls : callPc[d] \in {"got", "listed"})
      /\ UNCHANGED <<redmine, op, ident, goal, replied, result, began>>
  BY DEF Return, InvalidateProjects
<1>2. PICK a \in replied[c] :
        floor' = [floor EXCEPT ![goal[c]] = IF a[2].version > @ THEN a[2].version ELSE @]
  BY DEF Return
<1>3. /\ result[c] = {} /\ goal[c] \in Ids /\ a[1] = goal[c] /\ WasThere(a[1], a[2])
      /\ a[2].version \in Nat
  BY <1>1 DEF ProjectInv, LookInv, KnownInv, ReplyKnown, WasThere, Project
<1>4. /\ callPc' \in [Calls -> CallPlaces]
      /\ \A d \in Calls : callPc'[d] = IF d = c THEN "ok" ELSE callPc[d]
  BY <1>1 DEF Goto, ProjectInv, ProjectTypes, CallPlaces, Ended
<1>5. /\ floor' \in [Ids -> Nat]
      /\ \A k \in Ids : floor[k] \in Nat /\ floor'[k] \in Nat /\ floor[k] <= floor'[k]
      /\ \A k \in Ids : k # goal[c] => floor'[k] = floor[k]
      /\ floor'[goal[c]] = a[2].version \/ floor'[goal[c]] = floor[goal[c]]
  BY <1>2, <1>3 DEF ProjectInv, ProjectTypes
<1>6. RedmineMoves
  BY <1>1, StillMoves DEF ProjectInv
<1>7. ProjectTypes'
  <2>1. raced' \in BOOLEAN
    BY <1>1 DEF ProjectInv, ProjectTypes
  <2> QED
    BY <1>1, <1>4, <1>5, <2>1 DEF ProjectInv, ProjectTypes
<1>8. KnownInv'
  <2>1. RowsKnown'
    BY <1>1 DEF RowsKnown
  <2>2. \A d \in Calls : ReplyKnown(d)'
    BY <1>1, <1>6 DEF ProjectInv, KnownInv, ReplyKnown, RedmineMoves
  <2> QED
    BY <1>6, <2>1, <2>2 DEF KnownInv, RedmineMoves
<1>9. FloorInv'
  <2>1. ASSUME NEW k \in Ids
        PROVE  /\ redmine'[k] # Gone => floor'[k] <= redmine'[k].version
               /\ floor'[k] # 0 => GivenOut(k)'
    <3>1. GivenOut(k) => GivenOut(k)'
      BY <1>6 DEF RedmineMoves
    <3>2. CASE floor'[k] = floor[k]
      BY <1>1, <3>1, <3>2 DEF ProjectInv, FloorInv
    <3>3. CASE floor'[k] # floor[k]
      <4>1. k = goal[c] /\ floor'[k] = a[2].version
        BY <1>5, <3>3
      <4> QED
        BY <1>1, <1>3, <3>1, <4>1 DEF WasThere
    <3> QED
      BY <3>2, <3>3
  <2> QED
    BY <2>1 DEF FloorInv
<1>10. FreshInv'
  <2>1. \A d \in Calls, k \in Ids : began'[d][k] <= floor'[k]
    <3>1. \A d \in Calls, k \in Ids : began[d][k] \in Nat /\ began[d][k] <= floor[k]
      BY DEF ProjectInv, ProjectTypes, FreshInv
    <3> QED
      BY <1>1, <1>5, <3>1
  <2>2. ~raced' => \A d \in Calls : callPc'[d] \notin {"got", "listed"}
    BY <1>1, <1>4
  <2> QED
    BY <1>1, <2>1, <2>2 DEF FreshInv
<1>11. LookInv'
  BY <1>1, <1>4, <1>6 DEF ProjectInv, LookInv, RedmineMoves
<1>12. ReadsSeeWrites'
  BY <1>1, <1>3, <1>4 DEF ProjectInv, ReadsSeeWrites
<1>13. SlugBeatsName'
  BY <1>1, <1>3, <1>4 DEF ProjectInv, SlugBeatsName, Live
<1>14. CacheFailsOnlyOnReuse'
  BY <1>1, <1>4 DEF ProjectInv, CacheFailsOnlyOnReuse
<1> QED
  BY <1>7, <1>8, <1>9, <1>10, <1>11, <1>12, <1>13, <1>14 DEF ProjectInv

\* What other users do, and the passing of time.
LEMMA OthersKeep ==
    ASSUME ProjectInv,
           \/ \E i \in Ids : Edit(i)
           \/ \E i \in Ids, j \in Ids : Recreate(i, j)
           \/ Age \/ UNCHANGED projectVars
    PROVE  ProjectInv'
<1>1. ASSUME NEW i \in Ids, Edit(i) PROVE ProjectInv'
  <2>1. RedmineMoves
    BY <1>1, EditMoves DEF Edit, ProjectInv
  <2> QED
    BY <1>1, <2>1, RedmineStep DEF Edit, ProjectInv, ProjectTypes
<1>2. ASSUME NEW i \in Ids, NEW j \in Ids, Recreate(i, j) PROVE ProjectInv'
  <2>1. RedmineMoves
    BY <1>2, RecreateMoves DEF ProjectInv
  <2> QED
    BY <1>2, <2>1, RedmineStep DEF Recreate, ProjectInv, ProjectTypes
<1>3. CASE Age
  BY <1>3, StillMoves, RedmineStep DEF Age, ProjectInv
<1>4. CASE UNCHANGED projectVars
  BY <1>4, StillMoves, RedmineStep DEF projectVars, ProjectInv, ProjectTypes
<1> QED
  BY <1>1, <1>2, <1>3, <1>4

\* The start.
LEMMA ProjectInitInv == ASSUME UniqueSlugs PROVE ProjectInit => ProjectInv
<1> SUFFICES ASSUME ProjectInit PROVE ProjectInv
  OBVIOUS
<1>1. ProjectTypes
  BY ProjectAssumption DEF ProjectInit, ProjectTypes, CallPlaces, Ended
<1>2. KnownInv
  BY ProjectAssumption DEF ProjectInit, KnownInv, RowsKnown, ReplyKnown, UniqueSlugs, Live
<1>3. FloorInv
  BY <1>1 DEF ProjectInit, ProjectTypes, FloorInv, Project
<1>4. FreshInv
  BY DEF ProjectInit, FreshInv
<1>5. LookInv /\ ReadsSeeWrites /\ SlugBeatsName /\ CacheFailsOnlyOnReuse
  BY DEF ProjectInit, LookInv, ReadsSeeWrites, SlugBeatsName, CacheFailsOnlyOnReuse
<1> QED
  BY <1>1, <1>2, <1>3, <1>4, <1>5 DEF ProjectInv

\* The invariant holds in every state of every behaviour.
THEOREM ProjectInvariant == ASSUME UniqueSlugs PROVE ProjectSpec => []ProjectInv
<1>1. ProjectInv /\ [ProjectNext]_projectVars => ProjectInv'
  BY BeginReadKeeps, BeginWriteKeeps, AnswerKeeps, ReceiveKeeps, ReceiveListKeeps, WriteKeeps,
     ReturnKeeps, ApiErrorKeeps, OthersKeep
  DEF ProjectNext, Step
<1> QED
  BY <1>1, ProjectInitInv, PTL DEF ProjectSpec

\* A description asked for after a write has returned is not older than the write, unless
\* some reply was on its way when a write dropped the table.
THEOREM WritesAreSeen == ASSUME UniqueSlugs PROVE ProjectSpec => []ReadsSeeWrites
<1>1. ProjectInv => ReadsSeeWrites
  BY DEF ProjectInv
<1> QED
  BY <1>1, ProjectInvariant, PTL

\* An identifier never stands for the project that has it as its name.
THEOREM SlugsComeFirst == ASSUME UniqueSlugs PROVE ProjectSpec => []SlugBeatsName
<1>1. ProjectInv => SlugBeatsName
  BY DEF ProjectInv
<1> QED
  BY <1>1, ProjectInvariant, PTL

\* The cache breaks a call only for an identifier that was taken over.
THEOREM OnlyReuseBreaks == ASSUME UniqueSlugs PROVE ProjectSpec => []CacheFailsOnlyOnReuse
<1>1. ProjectInv => CacheFailsOnlyOnReuse
  BY DEF ProjectInv
<1> QED
  BY <1>1, ProjectInvariant, PTL


-----------------------------------------------------------------------------
(* Searches *)

SearchPlaces == {"begin", "get", "statuses", "fields", "done"} \cup FilterKinds

\* The filters that have been resolved where a search is.
Resolved(s) ==
    CASE s \in {"begin", "project"} -> {}
      [] s = "status" -> {"project"}
      [] s = "tracker" -> {"project", "status"}
      [] s = "custom_field" -> {"project", "status", "tracker"}
      [] s = "get" -> FilterKinds

Asked(kinds) == {k \in DOMAIN wish.filters : wish.filters[k] # Blank /\ k \in kinds}

\* Each filter that was resolved is sent, as a number.
FiltersInv ==
    /\ wish \in Searches /\ step \in SearchPlaces
    /\ step \in FilterKinds \cup {"begin", "get"} => DOMAIN params = Asked(Resolved(step))
    /\ \A k \in DOMAIN params : params[k] \in RefIds
    /\ step # "done" => outcome = Unset
    /\ step \in {"statuses", "fields"} => wish.op = "describe"
    /\ outcome.kind = "ok" /\ wish.op = "search" => DOMAIN params = Asked(FilterKinds)

\* The tables have a row for every id.
RowsInv ==
    /\ names \in [Kinds3 -> [RefIds -> Names \cup {NoName}]]
    /\ cached \in [Kinds3 -> [RefIds -> Names \cup {NoName}]]

\* The step after a filter.
LEMMA AfterFilter ==
    ASSUME step \in FilterKinds \cup {"begin"}
    PROVE  /\ After(step) \in FilterKinds \cup {"get"}
           /\ step # "begin" => Resolved(After(step)) = Resolved(step) \cup {step}
           /\ step = "begin" => Resolved(After(step)) = {}
           /\ step \notin Resolved(step)
BY DEF FilterKinds, Kinds3, After, Resolved

\* A filter is sent.
LEMMA SendKeeps ==
    ASSUME FiltersInv, step \in FilterKinds, step \in DOMAIN wish.filters, wish.filters[step] # Blank,
           NEW id \in RefIds, Send(id), UNCHANGED wish
    PROVE  FiltersInv'
<1>1. /\ params' = [k \in DOMAIN params \cup {step} |-> IF k = step THEN id ELSE params[k]]
      /\ step' = After(step) /\ outcome' = outcome /\ wish' = wish
  BY DEF Send, Proceed
<1>2. DOMAIN params' = DOMAIN params \cup {step} /\ \A k \in DOMAIN params' : params'[k] \in RefIds
  BY <1>1 DEF FiltersInv
<1>3. step' \in FilterKinds \cup {"get"} /\ Resolved(step)' = Resolved(step) \cup {step}
  BY <1>1, AfterFilter DEF FilterKinds, Kinds3, Resolved
<1>4. DOMAIN params' = Asked(Resolved(step))'
  BY <1>1, <1>2, <1>3 DEF FiltersInv, Asked
<1>5. outcome' = Unset /\ outcome'.kind = "none"
  BY <1>1 DEF FiltersInv, FilterKinds, Kinds3, Unset, Outcome
<1>6. step' \in SearchPlaces /\ step' \notin {"done", "statuses", "fields"}
  BY <1>3 DEF SearchPlaces, FilterKinds, Kinds3
<1>7. wish' \in Searches
  BY <1>1 DEF FiltersInv
<1> QED
  BY <1>2, <1>4, <1>5, <1>6, <1>7 DEF FiltersInv

\* There is no filter of this kind.
LEMMA SkipKeeps ==
    ASSUME FiltersInv, step \in FilterKinds \cup {"begin"},
           step \in FilterKinds /\ step \in DOMAIN wish.filters => wish.filters[step] = Blank,
           Proceed, UNCHANGED <<wish, params>>
    PROVE  FiltersInv'
<1>1. step' = After(step) /\ outcome' = outcome /\ wish' = wish /\ params' = params
  BY DEF Proceed
<1>2. /\ step' \in FilterKinds \cup {"get"}
      /\ Resolved(step)' = Resolved(step) \cup (IF step = "begin" THEN {} ELSE {step})
  BY <1>1, AfterFilter DEF FilterKinds, Kinds3, Resolved
<1>3. DOMAIN params' = Asked(Resolved(step))'
  BY <1>1, <1>2 DEF FiltersInv, Asked
<1>4. outcome' = Unset /\ outcome'.kind = "none"
  BY <1>1 DEF FiltersInv, FilterKinds, Kinds3, Unset, Outcome
<1>5. step' \in SearchPlaces /\ step' \notin {"done", "statuses", "fields"}
  BY <1>2 DEF SearchPlaces, FilterKinds, Kinds3
<1> QED
  BY <1>1, <1>3, <1>4, <1>5 DEF FiltersInv, Unset, Outcome

\* The call ends.
LEMMA DoneKeeps ==
    ASSUME FiltersInv, NEW kind, NEW about, Done(kind, about), UNCHANGED <<wish, params>>,
           kind = "ok" /\ wish.op = "search" => step = "get"
    PROVE  FiltersInv'
<1>1. step' = "done" /\ outcome' = [kind |-> kind, about |-> about]
  BY DEF Done, Outcome
<1>2. step = "get" => DOMAIN params = Asked(FilterKinds)
  BY DEF FiltersInv, Resolved, FilterKinds, Kinds3
<1> QED
  BY <1>1, <1>2 DEF FiltersInv, SearchPlaces, FilterKinds, Kinds3, Asked

\* A look-up sends an id that it found, or ends the call.
LEMMA FoundKeeps ==
    ASSUME FiltersInv, NEW k \in Kinds3, Named(k), NEW rowsOf, FoundOrNot(k, rowsOf), UNCHANGED wish
    PROVE  FiltersInv'
<1>1. step = k /\ step \in FilterKinds /\ k \in DOMAIN wish.filters /\ wish.filters[k] # Blank
  BY SearchAssumption DEF Named, FilterKinds
<1>2. CASE \E i \in Hits(k, wish.filters[k], rowsOf) : Send(i)
  BY <1>1, <1>2, SendKeeps DEF Hits
<1>3. CASE NotFound(k)
  BY <1>3, DoneKeeps DEF NotFound
<1> QED
  BY <1>2, <1>3 DEF FoundOrNot

\* No step loses a filter.
LEMMA FiltersStep == ASSUME FiltersInv, [SearchNext]_searchVars PROVE FiltersInv'
<1>1. CASE BeginSearch
  BY <1>1, SkipKeeps, DoneKeeps DEF BeginSearch, FilterKinds, Kinds3
<1>2. CASE Literal
  <2>1. CASE /\ step \in DOMAIN wish.filters => wish.filters[step] = Blank
             /\ Proceed /\ UNCHANGED params
    BY <1>2, <2>1, SkipKeeps DEF Literal
  <2>2. CASE step \in DOMAIN wish.filters /\ wish.filters[step] \in RefIds /\ Send(wish.filters[step])
    BY <1>2, <2>2, SendKeeps, SearchAssumption DEF Literal
  <2> QED
    BY <1>2, <2>1, <2>2 DEF Literal
<1>3. CASE ResolveProject
  <2>1. step \in FilterKinds /\ step \in DOMAIN wish.filters /\ wish.filters[step] # Blank
        /\ UNCHANGED wish
    BY <1>3, SearchAssumption DEF ResolveProject, FilterKinds
  <2> QED
    BY <1>3, <2>1, SendKeeps, DoneKeeps DEF ResolveProject, NotFound
<1>4. CASE GetIssues
  BY <1>4, DoneKeeps DEF GetIssues
<1>5. ASSUME NEW k \in Kinds3, FromCache(k) \/ FromRedmine(k) PROVE FiltersInv'
  <2>1. Named(k) /\ UNCHANGED wish
    BY <1>5 DEF FromCache, FromRedmine
  <2>2. CASE \E rowsOf : FoundOrNot(k, rowsOf)
    BY <2>1, <2>2, FoundKeeps
  <2>3. CASE ~\E rowsOf : FoundOrNot(k, rowsOf)
    <3>1. NotFound(k) \/ (Done("api_error", "none") /\ UNCHANGED params)
      BY <1>5, <2>3 DEF FromCache, FromRedmine
    <3> QED
      BY <2>1, <3>1, DoneKeeps DEF NotFound
  <2> QED
    BY <2>2, <2>3
<1>6. CASE DescribeCached \/ DescribeFetched
  <2>1. step = "begin" /\ wish.op = "describe" /\ UNCHANGED <<wish, params>>
    BY <1>6 DEF DescribeCached, DescribeFetched, Describing
  <2>2. \/ step' = "statuses" /\ UNCHANGED outcome
        \/ \E kind \in {"api_error", "not_found", "assertion_failed"}, about \in {"none", "tracker"} :
              Done(kind, about)
    BY <1>6 DEF DescribeCached, DescribeFetched, Described
  <2>3. CASE step' = "statuses" /\ UNCHANGED outcome
    <3>1. outcome = Unset
      BY <2>1 DEF FiltersInv
    <3> QED
      BY <2>1, <2>3, <3>1 DEF FiltersInv, SearchPlaces, FilterKinds, Kinds3, Unset, Outcome
  <2> QED
    BY <2>1, <2>2, <2>3, DoneKeeps
<1>7. CASE DescribeStatuses \/ DescribeFields
  <2>1. step \in {"statuses", "fields"} /\ wish.op = "describe" /\ UNCHANGED <<wish, params>>
    BY <1>7 DEF DescribeStatuses, DescribeFields, FiltersInv
  <2>2. \/ step' = "fields" /\ UNCHANGED outcome
        \/ Done("api_error", "none") \/ Done("ok", "tracker")
    BY <1>7 DEF DescribeStatuses, DescribeFields
  <2>3. CASE step' = "fields" /\ UNCHANGED outcome
    <3>1. outcome = Unset
      BY <2>1 DEF FiltersInv
    <3> QED
      BY <2>1, <2>3, <3>1 DEF FiltersInv, SearchPlaces, FilterKinds, Kinds3, Unset, Outcome
  <2> QED
    BY <2>1, <2>2, <2>3, DoneKeeps
<1>8. CASE UNCHANGED <<wish, step, params, outcome>>
  BY <1>8 DEF FiltersInv, Asked
<1>9. CASE \/ \E k \in Kinds3 : OtherCallFills(k)
           \/ Expires \/ CacheInvalidated \/ AdminEdits \/ UNCHANGED searchVars
  <2>1. UNCHANGED <<wish, step, params, outcome>>
    BY <1>9 DEF OtherCallFills, Expires, CacheInvalidated, AdminEdits, Elsewhere, searchVars
  <2> QED
    BY <1>8, <2>1
<1> QED
  BY <1>1, <1>2, <1>3, <1>4, <1>5, <1>6, <1>7, <1>9 DEF SearchNext

\* Every filter of a search reaches Redmine as a number, whatever is cached, renamed
\* or deleted.
THEOREM FiltersReachRedmine == SearchSpec => []NoFilterIsDropped
<1>1. SearchInit => FiltersInv
  BY DEF SearchInit, FiltersInv, SearchPlaces, FilterKinds, Kinds3, Resolved, Asked, Unset, Outcome
<1>2. FiltersInv => NoFilterIsDropped
  <2> SUFFICES ASSUME FiltersInv, step = "get" \/ (outcome.kind = "ok" /\ wish.op = "search")
               PROVE  NoFilterIsDropped
    BY DEF NoFilterIsDropped
  <2>1. wish \in Searches /\ DOMAIN wish.filters \subseteq FilterKinds
    BY SearchAssumption DEF FiltersInv
  <2>2. DOMAIN params = Asked(FilterKinds)
    BY DEF FiltersInv, Resolved, FilterKinds, Kinds3
  <2> QED
    BY <2>1, <2>2 DEF FiltersInv, Asked, NoFilterIsDropped
<1> QED
  BY <1>1, <1>2, FiltersStep, PTL DEF SearchSpec


\* The tables keep their rows.
LEMMA RowsStep == ASSUME RowsInv, [SearchNext]_searchVars PROVE RowsInv'
<1>1. \A k \in Kinds3 : [cached EXCEPT ![k] = Upserted(k, cached[k])] \in
                            [Kinds3 -> [RefIds -> Names \cup {NoName}]]
  BY DEF RowsInv, Upserted
<1>2. ASSUME NEW k \in Kinds3, Fill(k) \/ FillNothing(k)
      PROVE  cached' \in [Kinds3 -> [RefIds -> Names \cup {NoName}]]
  BY <1>1, <1>2 DEF Fill, FillNothing, RowsInv
<1>3. CASE AdminEdits
  BY <1>3 DEF AdminEdits, RowsInv, KeepCache
<1>4. CASE UNCHANGED names /\ \/ UNCHANGED cached
                              \/ cached' = [k \in Kinds3 |-> [i \in RefIds |-> NoName]]
                              \/ \E k \in Kinds3 : Fill(k) \/ FillNothing(k)
  BY <1>2, <1>4 DEF RowsInv
<1>5. "tracker" \in Kinds3 /\ "status" \in Kinds3 /\ "custom_field" \in Kinds3
  BY DEF Kinds3
<1> QED
  BY <1>3, <1>4, <1>5
  DEF SearchNext, BeginSearch, Literal, ResolveProject, GetIssues, FromCache, FromRedmine,
      DescribeCached, DescribeFetched, DescribeStatuses, DescribeFields, OtherCallFills,
      Expires, CacheInvalidated, Refresh, KeepCache, Elsewhere, others, searchVars

\* A fetch leaves a row for whatever Redmine has.
LEMMA FetchedRows ==
    ASSUME RowsInv, NEW k \in Kinds3, Fill(k), NEW ref \in References
    PROVE  /\ Hits(k, ref, names) \subseteq Hits(k, ref, cached')
           /\ \A i \in RefIds : cached'[k][i] = NoName => names[k][i] = NoName
           /\ k = "tracker" => \A i \in RefIds : names[k][i] = NoName => cached'[k][i] = cached[k][i]
           /\ k = "tracker" => \A i \in stale' : names[k][i] = NoName
<1>1. cached'[k] = Upserted(k, cached[k])
  BY DEF Fill, RowsInv
<1>2. ref # NoName
  BY SearchAssumption DEF References
<1>3. \A i \in RefIds : /\ names[k][i] # NoName => cached'[k][i] = names[k][i]
                        /\ cached'[k][i] = NoName => names[k][i] = NoName
                        /\ k = "tracker" /\ names[k][i] = NoName => cached'[k][i] = cached[k][i]
  BY <1>1 DEF Upserted
<1> QED
  BY <1>2, <1>3 DEF Hits, Fill

\* What the call was given to look up.
LEMMA ReferencesOnly ==
    ASSUME wish \in Searches
    PROVE  /\ \A k \in DOMAIN wish.filters : wish.filters[k] \in References
           /\ wish.op = "describe" => wish.filters["tracker"] \in References
<1>1. /\ \A k \in DOMAIN wish.filters : wish.filters[k] \in References
      /\ wish.op = "describe" => "tracker" \in DOMAIN wish.filters
  BY SearchAssumption
<1> QED
  BY <1>1

\* The assertion fails only for a tracker that Redmine does not have.
LEMMA DescribedAfterFetch ==
    ASSUME RowsInv, wish \in Searches, wish.op = "describe",
           NEW i \in TrackerIds(wish.filters["tracker"], cached) \cup
                     TrackerIds(wish.filters["tracker"], cached'),
           Refresh("tracker"), Described(i, cached', stale'), outcome'.kind = "assertion_failed",
           outcome = Unset, ~unreadable'
    PROVE  \E j \in TrackerIds(wish.filters["tracker"], cached') : names["tracker"][j] = NoName
<1> DEFINE ref == wish.filters["tracker"]
<1>1. "tracker" \in Kinds3 /\ Fill("tracker")
  BY DEF Refresh, Kinds3
<1>2. i \in RefIds
  BY DEF TrackerIds, Hits
<1>3. ~Fresh(i, cached', stale')
  BY DEF Described, Unset, Outcome
<1>4. names["tracker"][i] = NoName /\ cached'["tracker"][i] = cached["tracker"][i]
  <2>1. ref \in References
    BY ReferencesOnly
  <2> QED
    BY <1>1, <1>2, <1>3, <2>1, FetchedRows DEF Fresh
<1>5. i \in TrackerIds(ref, cached')
  BY <1>2, <1>4 DEF TrackerIds, Hits
<1> QED
  BY <1>4, <1>5

\* What is called missing is missing in Redmine, unless a request of the call failed or
\* the status list is older than the name.
THEOREM MissingNamesAreMissing == SearchSpec => MissingIsTrue
<1> DEFINE Honest ==
      outcome = Unset =>
         /\ \A k \in Kinds3 : outcome' = Outcome("not_found", k) =>
                \/ Hits(k, wish.filters[k], names) = {}
                \/ k = "status" /\ statuses
                \/ unreadable'
         /\ outcome'.kind = "assertion_failed" =>
                \/ unreadable'
                \/ \E i \in TrackerIds(wish.filters["tracker"], cached') :
                       names["tracker"][i] = NoName
<1>1. SearchInit => FiltersInv /\ RowsInv
  BY SearchAssumption
  DEF SearchInit, FiltersInv, SearchPlaces, FilterKinds, Kinds3, Resolved, Asked, Unset, Outcome,
      RowsInv, Tables
<1>2. ASSUME FiltersInv, RowsInv, [SearchNext]_searchVars PROVE Honest
  <2> SUFFICES ASSUME FiltersInv, RowsInv, [SearchNext]_searchVars, outcome = Unset, ~unreadable',
                      \/ \E k \in Kinds3 : outcome' = Outcome("not_found", k)
                      \/ outcome'.kind = "assertion_failed"
               PROVE  \/ /\ outcome'.kind = "assertion_failed"
                         /\ \E i \in TrackerIds(wish.filters["tracker"], cached') :
                                names["tracker"][i] = NoName
                      \/ \E k \in Kinds3 : /\ outcome' = Outcome("not_found", k)
                                           /\ \/ Hits(k, wish.filters[k], names) = {}
                                              \/ k = "status" /\ statuses
    BY <1>2 DEF Outcome
  <2>1. outcome' # outcome /\ outcome'.kind \in {"not_found", "assertion_failed"}
    BY DEF Unset, Outcome
  <2>2. CASE \E k \in Kinds3 : FromCache(k)
    <3>1. PICK k \in Kinds3 : FromCache(k)
      BY <2>2
    <3>2. NotFound(k) /\ Hits(k, wish.filters[k], cached) = {}
      BY <2>1, <3>1 DEF FromCache, FoundOrNot, Send, Proceed
    <3>3. k = "status" /\ statuses /\ outcome' = Outcome("not_found", k)
      BY <3>1, <3>2 DEF FromCache, MustFetch, NotFound, Done
    <3> QED
      BY <3>3
  <2>3. CASE \E k \in Kinds3 : FromRedmine(k)
    <3>1. PICK k \in Kinds3 : FromRedmine(k)
      BY <2>3
    <3>2. Fill(k) /\ FoundOrNot(k, cached')
      BY <3>1 DEF FromRedmine, Refresh
    <3>3. NotFound(k) /\ Hits(k, wish.filters[k], cached') = {}
      BY <2>1, <3>2 DEF FoundOrNot, Send, Proceed
    <3>4. wish.filters[k] \in References
      BY <3>1, ReferencesOnly DEF FromRedmine, Named, FiltersInv
    <3>5. Hits(k, wish.filters[k], names) = {}
      BY <3>2, <3>3, <3>4, FetchedRows
    <3> QED
      BY <3>3, <3>5 DEF NotFound, Done
  <2>4. CASE DescribeFetched
    <3> DEFINE ref == wish.filters["tracker"]
    <3>1. wish \in Searches /\ wish.op = "describe" /\ ref \in References /\ "tracker" \in Kinds3
      BY <2>4, ReferencesOnly DEF DescribeFetched, Describing, FiltersInv, Kinds3
    <3>2. outcome'.kind # "api_error"
      BY <2>1
    <3>3. /\ Refresh("tracker")
          /\ \/ TrackerIds(ref, cached') = {} /\ Done("not_found", "tracker")
             \/ \E i \in TrackerIds(ref, cached) \cup TrackerIds(ref, cached') :
                    Described(i, cached', stale')
      BY <2>4, <3>2 DEF DescribeFetched, Done, Outcome
    <3>4. CASE TrackerIds(ref, cached') = {} /\ Done("not_found", "tracker")
      <4>1. Fill("tracker") /\ Hits("tracker", ref, cached') = {}
        BY <3>3, <3>4 DEF Refresh, TrackerIds
      <4>2. Hits("tracker", ref, names) = {}
        BY <3>1, <4>1, FetchedRows
      <4> QED
        BY <3>1, <3>4, <4>2 DEF Done
    <3>5. CASE \E i \in TrackerIds(ref, cached) \cup TrackerIds(ref, cached') :
                  Described(i, cached', stale')
      <4>1. PICK i \in TrackerIds(ref, cached) \cup TrackerIds(ref, cached') :
                  Described(i, cached', stale')
        BY <3>5
      <4>2. outcome'.kind = "assertion_failed"
        BY <2>1, <4>1 DEF Described, Done, Outcome
      <4> QED
        BY <3>1, <3>3, <4>1, <4>2, DescribedAfterFetch
    <3> QED
      BY <3>3, <3>4, <3>5
  <2>5. CASE Literal \/ ResolveProject \/ GetIssues \/ BeginSearch
    <3>1. \/ outcome' = outcome
          \/ \E kind, about : outcome' = Outcome(kind, about) /\
                \/ kind \in {"ok", "api_error", "query_id_conflicts_with_custom_fields"}
                \/ kind = "not_found" /\ about = "project"
      BY <2>5
      DEF Literal, ResolveProject, GetIssues, BeginSearch, Send, Proceed, NotFound, Done
    <3> QED
      BY <2>1, <3>1 DEF Outcome, Kinds3
  <2>6. CASE DescribeCached
    BY <2>1, <2>6 DEF DescribeCached, Described
  <2>7. CASE DescribeStatuses \/ DescribeFields
    BY <2>1, <2>7 DEF DescribeStatuses, DescribeFields, Done, Outcome
  <2>8. CASE UNCHANGED outcome
    BY <2>1, <2>8
  <2> QED
    BY <2>2, <2>3, <2>4, <2>5, <2>6, <2>7, <2>8
    DEF SearchNext, OtherCallFills, Expires, CacheInvalidated, AdminEdits, Elsewhere, searchVars
<1>3. FiltersInv /\ RowsInv /\ [SearchNext]_searchVars => Honest
  BY <1>2
<1>4. FiltersInv /\ RowsInv /\ [SearchNext]_searchVars => (FiltersInv /\ RowsInv)'
  BY FiltersStep, RowsStep
<1> QED
  BY <1>1, <1>3, <1>4, PTL DEF SearchSpec, MissingIsTrue

----------------------------------------------------------------------------
(***************************************************************************)
(* The page loops.  Rows that are read and rows that are still to come are *)
(* told apart by position, so the invariant says what an insertion or a    *)
(* removal may do to each side, until the first of that kind happens.      *)
(***************************************************************************)
PagingTypes ==
    /\ tool \in Tools /\ pc \in {"page", "done"}
    /\ got \in Seq(Items) /\ list \in Seq(Items) /\ initial \in Seq(Items)
    /\ pages \in Nat /\ IsInjective(initial)
    /\ pc = "page" => answer = "none"

\* Where a loop stands that asks for another page.
Standing ==
    pc = "page" =>
        /\ offset = Len(got)
        /\ tool = "time_report" => Len(got) < MaxEntries
        /\ tool = "list_projects" => Len(got) = pages * PageSize /\ pages < PageCap

\* Nothing was inserted: what comes after the rows that were read is new.
NoneTwice ==
    ~grew =>
        /\ IsInjective(list) /\ IsInjective(got)
        /\ pc = "page" => \A i \in DOMAIN list : i > Len(got) => list[i] \notin Range(got)

\* Nothing was removed: what comes before that, and was there all the time, was read.
NoneMissed ==
    ~shrank =>
        /\ Range(initial) \subseteq Range(list)
        /\ pc = "page" =>
            \A i \in DOMAIN list :
                i <= Len(got) /\ list[i] \in Range(initial) => list[i] \in Range(got)
        /\ answer = "complete" /\ ~malformed => Range(initial) \subseteq Range(got)

\* Nothing happened: what was read is the beginning of the list.
Quiet ==
    ~(grew \/ shrank \/ malformed) =>
        /\ list = initial
        /\ Len(got) <= Len(initial) /\ got = SubSeq(initial, 1, Len(got))

PagingInv ==
    /\ PagingTypes /\ Standing /\ NoneTwice /\ NoneMissed /\ Quiet
    /\ QuietListsAreExact /\ PagesCostOnlyChanges

LEMMA PagingConstants ==
    /\ PageSize \in Nat \ {0} /\ MaxEntries \in Nat \ {0} /\ PageCap \in Nat \ {0}
    /\ Tools \subseteq {"time_report", "list_projects", "paginate"} /\ IsFiniteSet(Items)
    /\ \A s \in Lists : s \in Seq(Items) /\ IsInjective(s)
BY PagingAssumption

LEMMA SmallerIs ==
    ASSUME NEW a \in Nat, NEW b \in Nat
    PROVE  /\ Smaller(a, b) \in Nat /\ Smaller(a, b) <= a /\ Smaller(a, b) <= b
           /\ Smaller(a, b) = a \/ Smaller(a, b) = b
BY DEF Smaller

\* The page of k rows that begins after row a of the list q.
Rows(q, a, k) == SubSeq(q, a + 1, Smaller(a + k, Len(q)))

\* It has those rows, and is short only at the end of the list.
LEMMA PageRows ==
    ASSUME NEW q \in Seq(Items), NEW a \in Nat, NEW k \in Nat \ {0}
    PROVE  LET p == Rows(q, a, k) IN
           /\ p \in Seq(Items) /\ Len(p) \in Nat /\ Len(p) <= k
           /\ Len(p) = 0 \/ a + Len(p) <= Len(q)
           /\ Len(p) < k => Len(q) <= a + Len(p)
           /\ \A i \in 1 .. Len(p) : a + i \in DOMAIN q /\ p[i] = q[a + i]
           /\ a <= Len(q) => p = SubSeq(q, a + 1, a + Len(p))
<1> DEFINE n == Len(q)
           b == Smaller(a + k, n)
<1>0. PICK p : p = Rows(q, a, k)
  OBVIOUS
<1>1. n \in Nat /\ DOMAIN q = 1 .. n /\ \A i \in 1 .. n : q[i] \in Items
  BY LenProperties, ElementOfSeq
<1>2. b \in Nat /\ b <= a + k /\ b <= n /\ (b = a + k \/ b = n)
  <2>1. n \in Nat /\ a + k \in Nat
    BY <1>1
  <2> HIDE DEF n
  <2> QED
    BY <2>1, SmallerIs
<1>3. p = SubSeq(q, a + 1, b)
  BY <1>0 DEF Rows
<1> HIDE DEF n, b
<1>4. \A i \in a + 1 .. b : q[i] \in Items
  BY <1>1, <1>2
<1>5. PICK m \in Int : m = a + 1
  OBVIOUS
<1>6. /\ p \in Seq(Items) /\ Len(p) = IF m <= b THEN b - m + 1 ELSE 0
      /\ \A i \in 1 .. b - m + 1 : p[i] = q[m + i - 1]
  <2>1. b \in Int /\ \A i \in m .. b : q[i] \in Items
    BY <1>2, <1>4, <1>5
  <2>2. /\ SubSeq(q, m, b) \in Seq(Items)
        /\ Len(SubSeq(q, m, b)) = IF m <= b THEN b - m + 1 ELSE 0
        /\ \A i \in 1 .. b - m + 1 : SubSeq(q, m, b)[i] = q[m + i - 1]
    BY <2>1, SubSeqProperties
  <2>3. p = SubSeq(q, m, b)
    BY <1>3, <1>5
  <2> HIDE <1>3
  <2> QED
    BY <2>2, <2>3
<1>7. /\ Len(p) = IF a < b THEN b - a ELSE 0
      /\ \A i \in 1 .. b - a : p[i] = q[a + i]
  <2>1. b - m + 1 = b - a /\ (m <= b <=> a < b) /\ \A i \in 1 .. b - a : m + i - 1 = a + i
    BY <1>2, <1>5
  <2> QED
    BY <1>6, <2>1
<1>8. /\ Len(p) \in Nat /\ Len(p) <= k /\ (Len(p) = 0 \/ a + Len(p) <= n)
      /\ (Len(p) < k => n <= a + Len(p))
      /\ (a <= n => a + Len(p) = b)
  <2> DEFINE c == Len(p)
  <2>1. c = IF a < b THEN b - a ELSE 0
    BY <1>7
  <2> HIDE DEF c
  <2>2. c \in Nat /\ c <= k /\ (c = 0 \/ a + c <= n) /\ (c < k => n <= a + c)
        /\ (a <= n => a + c = b)
    BY <1>1, <1>2, <2>1
  <2> QED
    BY <2>2 DEF c
<1>9. \A i \in 1 .. Len(p) : a + i \in DOMAIN q /\ p[i] = q[a + i]
  <2> SUFFICES ASSUME NEW i \in 1 .. Len(p) PROVE a + i \in DOMAIN q /\ p[i] = q[a + i]
    OBVIOUS
  <2> DEFINE c == Len(p)
  <2>1. c = (IF a < b THEN b - a ELSE 0) /\ i \in 1 .. c
    BY <1>7
  <2> HIDE DEF c
  <2>2. i \in 1 .. b - a /\ a + i \in 1 .. n
    BY <1>1, <1>2, <2>1
  <2> QED
    BY <1>1, <1>7, <2>2
<1> QED
  BY <1>0, <1>3, <1>6, <1>8, <1>9 DEF n

LEMMA Multiples ==
    ASSUME NEW a \in Nat, NEW b \in Nat, NEW k \in Nat, a <= b
    PROVE  a * k \in Nat /\ b * k \in Nat /\ a * k <= b * k /\ (a + 1) * k = a * k + k
<1>1. PICK c \in Nat : b = a + c
  <2>1. b - a \in Nat /\ b = a + (b - a)
    OBVIOUS
  <2> QED
    BY <2>1
<1>2. a * k \in Nat /\ c * k \in Nat
  OBVIOUS
<1>3. b * k = a * k + c * k
  BY <1>1
<1>4. (a + 1) * k = a * k + k
  OBVIOUS
<1> QED
  BY <1>2, <1>3, <1>4

\* What a turn of any of the three loops does with its page.
Limit == IF tool = "time_report" THEN MaxEntries ELSE PageCap * PageSize

TurnOf(p) ==
    /\ p \in Seq(Items) /\ Len(p) \in Nat /\ got' = got \o p
    /\ Len(p) = 0 \/ Len(got) + Len(p) <= Len(list)
    /\ \A i \in 1 .. Len(p) : Len(got) + i \in DOMAIN list /\ p[i] = list[Len(got) + i]
    /\ Len(got) <= Len(list) => p = SubSeq(list, Len(got) + 1, Len(got) + Len(p))
    /\ tool # "paginate" => Len(got) + Len(p) <= Limit
    /\ \/ /\ pc' = "page" /\ answer' = answer /\ offset' = Len(got) + Len(p)
          /\ tool = "time_report" => Len(got) + Len(p) < MaxEntries
          /\ tool = "list_projects" =>
                Len(got) + Len(p) = (pages + 1) * PageSize /\ pages + 1 < PageCap
       \/ pc' = "done" /\ answer' = "complete" /\ Len(list) <= Len(got) + Len(p)
       \/ /\ pc' = "done" /\ answer' = "truncated" /\ Len(got) + Len(p) < Len(list)
          /\ tool # "paginate" /\ Len(got) + Len(p) = Limit

LEMMA OneTurn ==
    ASSUME PagingTypes, Standing, Page
    PROVE  /\ UNCHANGED <<tool, list, initial, grew, shrank, malformed>> /\ pages' = pages + 1
           /\ \E p : TurnOf(p)
<1> DEFINE k == IF tool = "time_report" THEN ReportSize ELSE PageSize
           n == Len(got)
           l == Len(list)
<1>0. PICK p : p = PageOf(k)
  OBVIOUS
<1>1. /\ pc = "page" /\ offset = n /\ Turn(p, l)
      /\ UNCHANGED <<list, initial, grew, shrank, malformed>>
      /\ tool \in {"time_report", "list_projects", "paginate"}
      /\ answer = "none" /\ pages \in Nat
  BY <1>0, PagingConstants DEF Page, Standing, PagingTypes
<1>2. n \in Nat /\ l \in Nat /\ list \in Seq(Items) /\ got \in Seq(Items)
  BY LenProperties DEF PagingTypes
<1>3. /\ tool = "time_report" => n < MaxEntries
      /\ tool = "list_projects" => n = pages * PageSize /\ pages < PageCap
  BY <1>1 DEF Standing
<1>4. /\ k \in Nat \ {0}
      /\ tool = "time_report" => n + k <= MaxEntries
      /\ tool # "time_report" => k = PageSize
  <2>1. tool = "time_report" => MaxEntries - n \in Nat \ {0} /\ n + (MaxEntries - n) = MaxEntries
    BY <1>2, <1>3, PagingConstants
  <2>2. tool = "time_report" => k = Smaller(PageSize, MaxEntries - n)
    BY DEF ReportSize
  <2>3. tool # "time_report" => k = PageSize
    OBVIOUS
  <2> HIDE DEF k
  <2>4. CASE tool = "time_report"
    <3> DEFINE rest == MaxEntries - n
    <3>1. rest \in Nat \ {0} /\ n + rest = MaxEntries
      BY <2>1, <2>4
    <3> HIDE DEF rest
    <3>2. k = Smaller(PageSize, rest)
      BY <2>2, <2>4 DEF rest
    <3>3. k \in Nat \ {0} /\ k <= rest
      BY <3>1, <3>2, PagingConstants, SmallerIs
    <3> QED
      BY <1>2, <2>4, <3>1, <3>3
  <2> QED
    BY <2>3, <2>4, PagingConstants
<1> HIDE DEF k
<1>5. p = Rows(list, n, k)
  BY <1>0, <1>1 DEF PageOf, Rows
<1>6. /\ p \in Seq(Items) /\ Len(p) \in Nat /\ Len(p) <= k
      /\ Len(p) = 0 \/ n + Len(p) <= l
      /\ Len(p) < k => l <= n + Len(p)
      /\ \A i \in 1 .. Len(p) : n + i \in DOMAIN list /\ p[i] = list[n + i]
      /\ n <= l => p = SubSeq(list, n + 1, n + Len(p))
  BY <1>2, <1>4, <1>5, PageRows
<1>7. p = <<>> <=> Len(p) = 0
  BY <1>6, EmptySeq
<1>8. got' = got \o p /\ pages' = pages + 1 /\ tool' = tool
  BY <1>1 DEF Turn, ReportTurn, ProjectsTurn, PaginateTurn, Collect
<1>9. Len(got') = n + Len(p)
  BY <1>2, <1>6, <1>8, ConcatProperties
<1> HIDE DEF n, l
<1>10. CASE tool = "time_report"
  <2>1. /\ offset' = n + Len(p)
        /\ IF p = <<>> \/ offset' >= l THEN Finish("complete")
           ELSE IF Len(got') >= MaxEntries THEN Finish("truncated") ELSE GoOn
    BY <1>1, <1>10 DEF Turn, ReportTurn, Collect
  <2>2. Limit = MaxEntries /\ n + Len(p) <= MaxEntries /\ MaxEntries \in Nat
    BY <1>2, <1>4, <1>6, <1>10, PagingConstants DEF Limit
  <2>3. CASE p = <<>> \/ offset' >= l
    <3>1. pc' = "done" /\ answer' = "complete" /\ l <= n + Len(p)
      BY <1>2, <1>4, <1>6, <1>7, <2>1, <2>3 DEF Finish
    <3> QED
      BY <1>1, <1>6, <1>8, <1>10, <2>2, <3>1 DEF TurnOf, n, l
  <2>4. CASE ~(p = <<>> \/ offset' >= l) /\ Len(got') >= MaxEntries
    <3>1. pc' = "done" /\ answer' = "truncated" /\ n + Len(p) < l /\ n + Len(p) = MaxEntries
      BY <1>2, <1>6, <1>9, <2>1, <2>2, <2>4 DEF Finish
    <3> QED
      BY <1>1, <1>6, <1>8, <1>10, <2>2, <3>1 DEF TurnOf, n, l
  <2>5. CASE ~(p = <<>> \/ offset' >= l) /\ ~(Len(got') >= MaxEntries)
    <3>1. pc' = "page" /\ answer' = answer /\ n + Len(p) < MaxEntries
      BY <1>1, <1>2, <1>6, <1>9, <2>1, <2>2, <2>5 DEF GoOn
    <3> QED
      BY <1>1, <1>6, <1>8, <1>10, <2>1, <2>2, <3>1 DEF TurnOf, n, l
  <2> QED
    BY <2>3, <2>4, <2>5
<1>11. CASE tool = "list_projects"
  <2>1. /\ offset' = (pages + 1) * PageSize
        /\ IF Len(got') >= l \/ Len(p) < PageSize THEN Finish("complete")
           ELSE IF pages' = PageCap THEN Finish("truncated") ELSE GoOn
    BY <1>1, <1>11 DEF Turn, ProjectsTurn, Collect
  <2> DEFINE most == PageCap * PageSize
             next == (pages + 1) * PageSize
  <2>2. /\ next \in Nat /\ most \in Nat /\ next <= most /\ next = n + PageSize
        /\ pages + 1 = PageCap => next = most
    BY <1>1, <1>3, <1>11, PagingConstants, Multiples
  <2>3. Limit = most /\ Len(p) <= PageSize /\ PageSize \in Nat
    BY <1>4, <1>6, <1>11, PagingConstants DEF Limit
  <2>4. offset' = next
    BY <2>1
  <2> HIDE DEF most, next
  <2>5. n + Len(p) <= most
    BY <1>2, <1>6, <2>2, <2>3
  <2>6. CASE Len(got') >= l \/ Len(p) < PageSize
    <3>1. pc' = "done" /\ answer' = "complete" /\ l <= n + Len(p)
      BY <1>2, <1>4, <1>6, <1>9, <1>11, <2>1, <2>6 DEF Finish
    <3> QED
      BY <1>1, <1>6, <1>8, <1>11, <2>3, <2>5, <3>1 DEF TurnOf, n, l
  <2>7. CASE ~(Len(got') >= l \/ Len(p) < PageSize)
    <3>1. n + Len(p) < l /\ n + Len(p) = next
      BY <1>2, <1>6, <1>9, <2>2, <2>3, <2>7
    <3>2. CASE pages + 1 = PageCap
      <4>1. pc' = "done" /\ answer' = "truncated" /\ n + Len(p) = most
        BY <1>8, <2>1, <2>2, <2>7, <3>1, <3>2 DEF Finish
      <4> QED
        BY <1>1, <1>6, <1>8, <1>11, <2>3, <2>5, <3>1, <4>1 DEF TurnOf, n, l
    <3>3. CASE pages + 1 # PageCap
      <4>1. pc' = "page" /\ answer' = answer /\ pages + 1 < PageCap
        BY <1>1, <1>3, <1>8, <1>11, <2>1, <2>7, <3>3, PagingConstants DEF GoOn
      <4>2. n + Len(p) = (pages + 1) * PageSize
        BY <3>1 DEF next
      <4> QED
        BY <1>1, <1>6, <1>8, <1>11, <2>1, <2>3, <2>5, <4>1, <4>2 DEF TurnOf, n, l
    <3> QED
      BY <3>2, <3>3
  <2> QED
    BY <2>6, <2>7
<1>12. CASE tool = "paginate"
  <2>1. /\ offset' = n + Len(p)
        /\ IF p = <<>> \/ offset' >= l THEN Finish("complete") ELSE GoOn
    BY <1>1, <1>12 DEF Turn, PaginateTurn, Collect
  <2>2. CASE p = <<>> \/ offset' >= l
    <3>1. pc' = "done" /\ answer' = "complete" /\ l <= n + Len(p)
      BY <1>2, <1>4, <1>6, <1>7, <2>1, <2>2 DEF Finish
    <3> QED
      BY <1>1, <1>6, <1>8, <1>12, <3>1 DEF TurnOf, n, l
  <2>3. CASE ~(p = <<>> \/ offset' >= l)
    <3>1. pc' = "page" /\ answer' = answer
      BY <1>1, <2>1, <2>3 DEF GoOn
    <3> QED
      BY <1>1, <1>6, <1>8, <1>12, <2>1, <3>1 DEF TurnOf, n, l
  <2> QED
    BY <2>2, <2>3
<1> QED
  BY <1>1, <1>8, <1>10, <1>11, <1>12

\* A sequence that another is appended to.
LEMMA Joined ==
    ASSUME NEW g \in Seq(Items), NEW p \in Seq(Items)
    PROVE  /\ g \o p \in Seq(Items) /\ Len(g) \in Nat /\ Len(p) \in Nat
           /\ Len(g \o p) = Len(g) + Len(p)
           /\ Range(g \o p) = Range(g) \cup Range(p)
           /\ DOMAIN (g \o p) = 1 .. Len(g) + Len(p)
           /\ \A i \in 1 .. Len(g) : i \in DOMAIN (g \o p) /\ (g \o p)[i] = g[i]
           /\ \A i \in 1 .. Len(p) :
                 Len(g) + i \in DOMAIN (g \o p) /\ (g \o p)[Len(g) + i] = p[i]
<1>1. PICK m \in Nat, n \in Nat : m = Len(g) /\ n = Len(p)
  BY LenProperties
<1>2. /\ g \o p \in Seq(Items) /\ Len(g \o p) = m + n
      /\ \A i \in 1 .. m + n : (g \o p)[i] = IF i <= m THEN g[i] ELSE p[i - m]
  BY <1>1, ConcatProperties
<1>3. DOMAIN (g \o p) = 1 .. m + n
  BY <1>2, LenProperties
<1>4. \A i \in 1 .. m : i \in DOMAIN (g \o p) /\ (g \o p)[i] = g[i]
  BY <1>1, <1>2, <1>3
<1>5. \A i \in 1 .. n : m + i \in DOMAIN (g \o p) /\ (g \o p)[m + i] = p[i]
  <2> SUFFICES ASSUME NEW i \in 1 .. n
               PROVE  m + i \in DOMAIN (g \o p) /\ (g \o p)[m + i] = p[i]
    OBVIOUS
  <2>1. m + i \in 1 .. m + n /\ ~(m + i <= m) /\ m + i - m = i
    OBVIOUS
  <2> QED
    BY <1>2, <1>3, <2>1
<1> QED
  BY <1>1, <1>2, <1>3, <1>4, <1>5, RangeConcatenation

LEMMA Ranged ==
    ASSUME NEW q \in Seq(Items)
    PROVE  /\ DOMAIN q = 1 .. Len(q) /\ Len(q) \in Nat
           /\ \A i \in DOMAIN q : q[i] \in Range(q) /\ q[i] \in Items
           /\ \A x \in Range(q) : \E i \in DOMAIN q : x = q[i]
BY LenProperties, ElementOfSeq, RangeEquality

\* A page p of the list q that goes on where the rows g end.
LEMMA ReadsOn ==
    ASSUME NEW q \in Seq(Items), NEW g \in Seq(Items), NEW p \in Seq(Items),
           \A i \in 1 .. Len(p) : Len(g) + i \in DOMAIN q /\ p[i] = q[Len(g) + i],
           IsInjective(q), IsInjective(g),
           \A i \in DOMAIN q : i > Len(g) => q[i] \notin Range(g)
    PROVE  /\ IsInjective(g \o p)
           /\ \A i \in DOMAIN q : i > Len(g) + Len(p) => q[i] \notin Range(g \o p)
<1>1. PICK m \in Nat, n \in Nat : m = Len(g) /\ n = Len(p)
  BY LenProperties
<1>2. /\ \A i \in 1 .. n : m + i \in DOMAIN q /\ p[i] = q[m + i]
      /\ \A i \in DOMAIN q : i > m => q[i] \notin Range(g)
      /\ DOMAIN q \subseteq Nat /\ DOMAIN p = 1 .. n /\ DOMAIN g = 1 .. m
  BY <1>1, Ranged
<1>3. \A i \in 1 .. n : p[i] \notin Range(g)
  <2> SUFFICES ASSUME NEW i \in 1 .. n PROVE p[i] \notin Range(g)
    OBVIOUS
  <2>1. m + i > m
    OBVIOUS
  <2> QED
    BY <1>2, <2>1
<1>4. \A i \in DOMAIN q : i > m + n => q[i] \notin Range(p)
  <2> SUFFICES ASSUME NEW i \in DOMAIN q, i > m + n, q[i] \in Range(p) PROVE FALSE
    OBVIOUS
  <2>1. PICK j \in 1 .. n : q[i] = p[j]
    BY <1>2, Ranged
  <2>2. m + j \in DOMAIN q /\ q[i] = q[m + j]
    BY <1>2, <2>1
  <2>3. i = m + j
    BY <2>2 DEF IsInjective
  <2> QED
    BY <2>3
<1>5. \A i, j \in 1 .. n : p[i] = p[j] => i = j
  <2> SUFFICES ASSUME NEW i \in 1 .. n, NEW j \in 1 .. n, p[i] = p[j] PROVE i = j
    OBVIOUS
  <2>1. m + i \in DOMAIN q /\ m + j \in DOMAIN q /\ q[m + i] = q[m + j]
    BY <1>2
  <2>2. m + i = m + j
    BY <2>1 DEF IsInjective
  <2> QED
    BY <2>2
<1>6. IsInjective(g \o p)
  <2> SUFFICES ASSUME NEW a \in 1 .. m + n, NEW b \in 1 .. m + n,
                      (g \o p)[a] = (g \o p)[b]
               PROVE  a = b
    <3>1. DOMAIN (g \o p) = 1 .. m + n
      BY <1>1, Joined
    <3> QED
      BY <3>1 DEF IsInjective
  <2>1. \A i \in 1 .. m + n :
           \/ i \in 1 .. m /\ (g \o p)[i] = g[i] /\ g[i] \in Range(g)
           \/ i - m \in 1 .. n /\ (g \o p)[i] = p[i - m]
    <3> SUFFICES ASSUME NEW i \in 1 .. m + n
                 PROVE  \/ i \in 1 .. m /\ (g \o p)[i] = g[i] /\ g[i] \in Range(g)
                        \/ i - m \in 1 .. n /\ (g \o p)[i] = p[i - m]
      OBVIOUS
    <3>1. CASE i <= m
      <4>1. i \in 1 .. m
        BY <3>1
      <4> QED
        BY <1>1, <1>2, <4>1, Joined, Ranged
    <3>2. CASE i > m
      <4>1. PICK j \in 1 .. n : i = m + j /\ j = i - m
        <5>1. i - m \in 1 .. n /\ i = m + (i - m)
          BY <3>2
        <5> QED
          BY <5>1
      <4>2. (g \o p)[m + j] = p[j]
        BY <1>1, Joined
      <4> QED
        BY <4>1, <4>2
    <3>3. i <= m \/ i > m
      OBVIOUS
    <3> QED
      BY <3>1, <3>2, <3>3, Zenon
  <2>2. CASE a \in 1 .. m /\ (g \o p)[a] = g[a] /\ g[a] \in Range(g)
    <3>1. ~(b - m \in 1 .. n /\ (g \o p)[b] = p[b - m])
      BY <1>3, <2>2
    <3>2. b \in 1 .. m /\ g[b] = g[a]
      BY <2>1, <2>2, <3>1
    <3> QED
      BY <1>2, <2>2, <3>2 DEF IsInjective
  <2>3. CASE a - m \in 1 .. n /\ (g \o p)[a] = p[a - m]
    <3>1. ~(b \in 1 .. m /\ (g \o p)[b] = g[b] /\ g[b] \in Range(g))
      BY <1>3, <2>3
    <3>2. b - m \in 1 .. n /\ p[b - m] = p[a - m]
      BY <2>1, <2>3, <3>1
    <3>3. a - m = b - m
      BY <1>5, <2>3, <3>2
    <3> QED
      BY <3>3
  <2> QED
    BY <2>1, <2>2, <2>3
<1>7. \A i \in DOMAIN q : i > m + n => i > m
  BY <1>2
<1> QED
  BY <1>1, <1>2, <1>4, <1>6, <1>7, Joined

\* What of S was read of the list q with the rows g, and with a page p after them.
LEMMA ReadsAll ==
    ASSUME NEW q \in Seq(Items), NEW g \in Seq(Items), NEW p \in Seq(Items), NEW S,
           \A i \in 1 .. Len(p) : Len(g) + i \in DOMAIN q /\ p[i] = q[Len(g) + i],
           \A i \in DOMAIN q : i <= Len(g) /\ q[i] \in S => q[i] \in Range(g)
    PROVE  \A i \in DOMAIN q :
               i <= Len(g) + Len(p) /\ q[i] \in S => q[i] \in Range(g \o p)
<1>1. PICK m \in Nat, n \in Nat : m = Len(g) /\ n = Len(p)
  BY LenProperties
<1>2. DOMAIN q \subseteq Nat /\ DOMAIN p = 1 .. n
  BY <1>1, Ranged
<1> SUFFICES ASSUME NEW i \in DOMAIN q, i <= m + n, q[i] \in S
             PROVE  q[i] \in Range(g \o p)
  BY <1>1
<1>3. CASE i <= m
  BY <1>1, <1>3, Joined
<1>4. CASE i > m
  <2>1. PICK j \in 1 .. n : i = m + j
    <3>1. i - m \in 1 .. n /\ i = m + (i - m)
      BY <1>2, <1>4
    <3> QED
      BY <3>1
  <2>2. q[i] = p[j] /\ p[j] \in Range(p)
    BY <1>1, <1>2, <2>1, Ranged
  <2> QED
    BY <2>2, Joined
<1> QED
  BY <1>2, <1>3, <1>4

\* A list without repetitions is no longer than the things it may hold.
LEMMA NoLonger ==
    ASSUME NEW q \in Seq(Items), IsInjective(q)
    PROVE  Cardinality(Items) \in Nat /\ Len(q) <= Cardinality(Items)
<1>1. Len(q) \in Nat /\ q \in [1 .. Len(q) -> Items]
  BY LenProperties
<1>2. q \in Injection(1 .. Len(q), Items)
  BY <1>1 DEF Injection
<1>3. Cardinality(1 .. Len(q)) <= Cardinality(Items)
  BY <1>2, FS_Injection, PagingConstants
<1>4. Cardinality(1 .. Len(q)) = Len(q)
  BY <1>1, FS_Interval
<1> QED
  BY <1>3, <1>4, FS_CardinalityType, PagingConstants

LEMMA BudgetIs ==
    ASSUME PagingTypes
    PROVE  /\ tool \in {"time_report", "list_projects", "paginate"}
           /\ Budget \in Nat /\ Limit \in Nat
           /\ tool # "paginate" => Budget = Limit
           /\ tool = "paginate" => Len(initial) <= Budget
<1>1. tool \in {"time_report", "list_projects", "paginate"}
  BY PagingConstants DEF PagingTypes
<1>2. Limit \in Nat
  BY PagingConstants DEF Limit
<1>3. tool # "paginate" => Budget = Limit
  BY <1>1 DEF Budget, Limit
<1>4. tool = "paginate" => Budget = Cardinality(Items)
  BY <1>1 DEF Budget
<1>5. Cardinality(Items) \in Nat /\ Len(initial) <= Cardinality(Items)
  BY NoLonger DEF PagingTypes
<1> QED
  BY <1>1, <1>2, <1>3, <1>4, <1>5

LEMMA InitPaging == Init => PagingInv
<1> SUFFICES ASSUME Init PROVE PagingInv
  OBVIOUS
<1>1. list \in Seq(Items) /\ initial = list /\ IsInjective(list) /\ got = <<>>
  BY PagingConstants DEF Init
<1>2. Len(got) = 0 /\ got \in Seq(Items) /\ Len(list) \in Nat
  BY <1>1, LenProperties, EmptySeq
<1>3. DOMAIN got = {} /\ Range(got) = {}
  BY <1>1 DEF Range
<1>4. got = SubSeq(initial, 1, Len(got))
  <2>1. SubSeq(initial, 1, 0) = <<>>
    BY <1>1, SubSeqEmpty
  <2> QED
    BY <1>1, <1>2, <2>1
<1>5. PagingTypes
  BY <1>1, <1>2 DEF PagingTypes, Init
<1>6. Standing
  BY <1>2, PagingConstants DEF Standing, Init
<1>7. NoneTwice
  BY <1>1, <1>3 DEF NoneTwice, IsInjective
<1>8. NoneMissed
  BY <1>1, <1>2, Ranged DEF NoneMissed, Init
<1>9. Quiet
  BY <1>1, <1>2, <1>4 DEF Quiet
<1>10. QuietListsAreExact
  BY DEF QuietListsAreExact, Init
<1>11. PagesCostOnlyChanges
  BY <1>3 DEF PagesCostOnlyChanges, Init, IsInjective
<1> QED
  BY <1>5, <1>6, <1>7, <1>8, <1>9, <1>10, <1>11 DEF PagingInv

LEMMA PageStep == PagingInv /\ Page => PagingInv'
<1> SUFFICES ASSUME PagingInv, Page PROVE PagingInv'
  OBVIOUS
<1>1. /\ PagingTypes /\ Standing /\ NoneTwice /\ NoneMissed /\ Quiet
      /\ pc = "page" /\ answer = "none"
  BY DEF PagingInv, Page, PagingTypes
<1>2. /\ UNCHANGED <<tool, list, initial, grew, shrank, malformed>> /\ pages' = pages + 1
      /\ \E p : TurnOf(p)
  BY <1>1, OneTurn
<1>3. PICK p : TurnOf(p)
  BY <1>2
<1>4. PICK m \in Nat, n \in Nat, l \in Nat : m = Len(got) /\ n = Len(p) /\ l = Len(list)
  <2>1. Len(got) \in Nat /\ Len(list) \in Nat
    BY <1>1, LenProperties DEF PagingTypes
  <2> QED
    BY <1>3, <2>1 DEF TurnOf
<1>5. /\ got \in Seq(Items) /\ list \in Seq(Items) /\ initial \in Seq(Items)
      /\ IsInjective(initial) /\ pages \in Nat /\ tool \in Tools
  BY <1>1 DEF PagingTypes
<1>6. /\ p \in Seq(Items) /\ got' = got \o p /\ (n = 0 \/ m + n <= l)
      /\ \A i \in 1 .. Len(p) : Len(got) + i \in DOMAIN list /\ p[i] = list[Len(got) + i]
      /\ (m <= l => p = SubSeq(list, m + 1, m + n))
      /\ (tool # "paginate" => m + n <= Limit)
  BY <1>3, <1>4 DEF TurnOf
<1>7. \/ /\ pc' = "page" /\ answer' = "none" /\ offset' = m + n
         /\ tool = "time_report" => m + n < MaxEntries
         /\ tool = "list_projects" => m + n = (pages + 1) * PageSize /\ pages + 1 < PageCap
      \/ pc' = "done" /\ answer' = "complete" /\ l <= m + n
      \/ /\ pc' = "done" /\ answer' = "truncated" /\ m + n < l
         /\ tool # "paginate" /\ m + n = Limit
  BY <1>1, <1>3, <1>4 DEF TurnOf
<1>8. /\ got' \in Seq(Items) /\ Len(got') = m + n
      /\ Range(got') = Range(got) \cup Range(p)
  BY <1>4, <1>5, <1>6, Joined
<1>9. PagingTypes'
  BY <1>2, <1>5, <1>7, <1>8 DEF PagingTypes
<1>10. Standing'
  BY <1>2, <1>7, <1>8 DEF Standing
<1>11. ~grew => /\ IsInjective(list) /\ IsInjective(got \o p)
                /\ \A i \in DOMAIN list : i > m + n => list[i] \notin Range(got \o p)
  <2> SUFFICES ASSUME ~grew
               PROVE  /\ IsInjective(list) /\ IsInjective(got \o p)
                      /\ \A i \in DOMAIN list : i > m + n => list[i] \notin Range(got \o p)
    OBVIOUS
  <2>1. /\ IsInjective(list) /\ IsInjective(got)
        /\ \A i \in DOMAIN list : i > Len(got) => list[i] \notin Range(got)
    BY <1>1 DEF NoneTwice
  <2>2. /\ IsInjective(got \o p)
        /\ \A i \in DOMAIN list : i > Len(got) + Len(p) => list[i] \notin Range(got \o p)
    BY <1>5, <1>6, <2>1, ReadsOn
  <2> QED
    BY <1>4, <2>1, <2>2
<1>12. NoneTwice'
  BY <1>2, <1>6, <1>8, <1>11 DEF NoneTwice
<1>13. ~shrank =>
         /\ Range(initial) \subseteq Range(list)
         /\ \A i \in DOMAIN list :
               i <= m + n /\ list[i] \in Range(initial) => list[i] \in Range(got \o p)
  <2> SUFFICES ASSUME ~shrank
               PROVE  /\ Range(initial) \subseteq Range(list)
                      /\ \A i \in DOMAIN list :
                            i <= m + n /\ list[i] \in Range(initial)
                                => list[i] \in Range(got \o p)
    OBVIOUS
  <2>1. /\ Range(initial) \subseteq Range(list)
        /\ \A i \in DOMAIN list :
              i <= Len(got) /\ list[i] \in Range(initial) => list[i] \in Range(got)
    BY <1>1 DEF NoneMissed
  <2>2. \A i \in DOMAIN list :
           i <= Len(got) + Len(p) /\ list[i] \in Range(initial)
               => list[i] \in Range(got \o p)
    BY <1>5, <1>6, <2>1, ReadsAll
  <2> QED
    BY <1>4, <2>1, <2>2
<1>14. ~shrank /\ answer' = "complete" => Range(initial) \subseteq Range(got \o p)
  <2> SUFFICES ASSUME ~shrank, answer' = "complete", NEW x \in Range(initial)
               PROVE  x \in Range(got \o p)
    OBVIOUS
  <2>1. l <= m + n
    BY <1>7
  <2>2. PICK i \in DOMAIN list : x = list[i]
    BY <1>5, <1>13, Ranged
  <2>3. i \in 1 .. l
    BY <1>4, <1>5, <2>2, Ranged
  <2>4. i <= m + n
    BY <2>1, <2>3
  <2> QED
    BY <1>13, <2>2, <2>4
<1>15. NoneMissed'
  BY <1>2, <1>6, <1>8, <1>13, <1>14 DEF NoneMissed
<1>16. ~(grew \/ shrank \/ malformed) =>
         /\ list = initial /\ m + n <= l /\ got \o p = SubSeq(initial, 1, m + n)
  <2> SUFFICES ASSUME ~(grew \/ shrank \/ malformed)
               PROVE  list = initial /\ m + n <= l /\ got \o p = SubSeq(initial, 1, m + n)
    OBVIOUS
  <2>1. list = initial /\ m <= l /\ got = SubSeq(list, 1, m)
    BY <1>1, <1>4 DEF Quiet
  <2>2. m + n <= l /\ p = SubSeq(list, m + 1, m + n)
    BY <1>6, <2>1
  <2>3. /\ 1 \in 1 .. Len(list) + 1 /\ m \in 1 - 1 .. Len(list) /\ m + n \in m .. Len(list)
    <3>1. 1 \in 1 .. l + 1 /\ m \in 1 - 1 .. l /\ m + n \in m .. l
      BY <2>1, <2>2
    <3> QED
      BY <1>4, <3>1
  <2>4. SubSeq(list, 1, m) \o SubSeq(list, m + 1, m + n) = SubSeq(list, 1, m + n)
    BY <1>5, <2>3, ConcatAdjacentSubSeq
  <2> QED
    BY <2>1, <2>2, <2>4
<1>17. Quiet'
  BY <1>2, <1>4, <1>6, <1>8, <1>16 DEF Quiet
<1>18. QuietListsAreExact'
  <2> SUFFICES ASSUME pc' = "done", ~(grew \/ shrank \/ malformed)
               PROVE  /\ got \o p = SubSeq(initial, 1, Smaller(Budget, l))
                      /\ tool = "time_report" => (answer' = "truncated") = (l > Budget)
    BY <1>2, <1>4, <1>6, <1>16 DEF QuietListsAreExact, Budget
  <2>1. /\ list = initial /\ m + n <= l /\ got \o p = SubSeq(initial, 1, m + n)
        /\ Len(initial) = l
    BY <1>4, <1>16
  <2>2. PICK b \in Nat : b = Budget
    BY <1>1, BudgetIs
  <2>3. /\ tool # "paginate" => b = Limit
        /\ tool = "paginate" => l <= b
    BY <1>1, <2>1, <2>2, BudgetIs
  <2>4. CASE answer' = "complete" /\ l <= m + n
    <3>1. m + n = l /\ l <= b
      BY <1>6, <2>1, <2>3, <2>4
    <3>2. Smaller(b, l) = l
      BY <3>1 DEF Smaller
    <3> QED
      BY <2>1, <2>2, <2>4, <3>1, <3>2
  <2>5. CASE answer' = "truncated" /\ m + n < l /\ tool # "paginate" /\ m + n = Limit
    <3>1. m + n = b /\ b < l
      BY <2>3, <2>5
    <3>2. Smaller(b, l) = b
      BY <3>1 DEF Smaller
    <3> QED
      BY <2>1, <2>2, <2>5, <3>1, <3>2
  <2> QED
    BY <1>7, <2>4, <2>5
<1>19. PagesCostOnlyChanges'
  BY <1>2, <1>6, <1>11, <1>14 DEF PagesCostOnlyChanges
<1> QED
  BY <1>9, <1>10, <1>12, <1>15, <1>17, <1>18, <1>19 DEF PagingInv

LEMMA MalformedStep == PagingInv /\ Malformed => PagingInv'
<1> SUFFICES ASSUME PagingInv, Malformed PROVE PagingInv'
  OBVIOUS
<1>1. /\ UNCHANGED <<tool, got, offset, pages, list, initial, grew, shrank>>
      /\ malformed' = TRUE /\ pc = "page" /\ pc' = "done" /\ answer' = "complete"
  BY DEF Malformed, Finish
<1>2. PagingTypes'
  BY <1>1 DEF PagingInv, PagingTypes
<1>3. Standing' /\ Quiet' /\ QuietListsAreExact'
  BY <1>1 DEF Standing, Quiet, QuietListsAreExact
<1>4. NoneTwice' /\ NoneMissed'
  BY <1>1 DEF PagingInv, NoneTwice, NoneMissed
<1>5. PagesCostOnlyChanges'
  BY <1>1 DEF PagingInv, PagesCostOnlyChanges
<1> QED
  BY <1>2, <1>3, <1>4, <1>5 DEF PagingInv

LEMMA FailsStep == PagingInv /\ Fails => PagingInv'
<1> SUFFICES ASSUME PagingInv, Fails PROVE PagingInv'
  OBVIOUS
<1>1. /\ UNCHANGED <<tool, got, offset, pages, list, initial, grew, shrank, malformed>>
      /\ pc = "page" /\ pc' = "done" /\ answer' = "error"
  BY DEF Fails, Finish
<1>2. PagingTypes'
  BY <1>1 DEF PagingInv, PagingTypes
<1>3. Standing' /\ QuietListsAreExact'
  BY <1>1 DEF Standing, QuietListsAreExact
<1>4. NoneTwice' /\ NoneMissed' /\ Quiet'
  BY <1>1 DEF PagingInv, NoneTwice, NoneMissed, Quiet
<1>5. PagesCostOnlyChanges'
  BY <1>1 DEF PagingInv, PagesCostOnlyChanges
<1> QED
  BY <1>2, <1>3, <1>4, <1>5 DEF PagingInv

\* An insertion moves rows back, a removal moves them forward.
LEMMA Inserted ==
    ASSUME NEW q \in Seq(Items), NEW x \in Items, NEW i \in 1 .. Len(q) + 1
    PROVE  /\ InsertAt(q, i, x) \in Seq(Items) /\ Range(q) \subseteq Range(InsertAt(q, i, x))
           /\ \A j \in DOMAIN InsertAt(q, i, x) :
                 \/ InsertAt(q, i, x)[j] = x
                 \/ \E k \in DOMAIN q : k <= j /\ InsertAt(q, i, x)[j] = q[k]
<1>1. PICK l \in Nat : l = Len(q)
  BY LenProperties
<1>2. DOMAIN q = 1 .. l /\ i \in 1 .. l + 1 /\ \A j \in 1 .. l : q[j] \in Items
  BY <1>1, LenProperties, ElementOfSeq
<1>3. PICK a, b : a = SubSeq(q, 1, i - 1) /\ b = SubSeq(q, i, l)
  OBVIOUS
<1>4. /\ a \in Seq(Items) /\ Len(a) = i - 1 /\ \A j \in 1 .. i - 1 : a[j] = q[j]
  <2>1. i - 1 \in Nat /\ 1 \in Int /\ \A j \in 1 .. i - 1 : q[j] \in Items
    BY <1>2
  <2>2. PICK h \in Nat : h = i - 1
    BY <2>1
  <2>3. /\ SubSeq(q, 1, h) \in Seq(Items)
        /\ Len(SubSeq(q, 1, h)) = IF 1 <= h THEN h - 1 + 1 ELSE 0
        /\ \A j \in 1 .. h - 1 + 1 : SubSeq(q, 1, h)[j] = q[1 + j - 1]
    BY <2>1, <2>2, SubSeqProperties
  <2>4. h - 1 + 1 = h /\ (IF 1 <= h THEN h - 1 + 1 ELSE 0) = h
        /\ \A j \in 1 .. h : 1 + j - 1 = j
    OBVIOUS
  <2>5. a = SubSeq(q, 1, h)
    BY <1>3, <2>2
  <2> QED
    BY <2>2, <2>3, <2>4, <2>5
<1>5. /\ b \in Seq(Items) /\ Len(b) = l - i + 1
      /\ \A j \in 1 .. l - i + 1 : b[j] = q[i + j - 1]
  <2>1. i \in Int /\ l \in Int /\ \A j \in i .. l : q[j] \in Items
    BY <1>2
  <2>2. /\ SubSeq(q, i, l) \in Seq(Items)
        /\ Len(SubSeq(q, i, l)) = IF i <= l THEN l - i + 1 ELSE 0
        /\ \A j \in 1 .. l - i + 1 : SubSeq(q, i, l)[j] = q[i + j - 1]
    BY <2>1, SubSeqProperties
  <2>3. (IF i <= l THEN l - i + 1 ELSE 0) = l - i + 1
    BY <1>2
  <2> QED
    BY <1>3, <2>2, <2>3
<1>6. PICK c : c = a \o <<x>>
  OBVIOUS
<1>7. <<x>> \in Seq(Items) /\ Len(<<x>>) = 1 /\ <<x>>[1] = x
  OBVIOUS
<1>8. /\ c \in Seq(Items) /\ Len(c) = i /\ DOMAIN c = 1 .. i
      /\ \A j \in 1 .. i : c[j] = IF j <= i - 1 THEN q[j] ELSE x
  <2>1. /\ a \o <<x>> \in Seq(Items) /\ Len(a \o <<x>>) = Len(a) + Len(<<x>>)
        /\ \A j \in 1 .. Len(a) + Len(<<x>>) :
              (a \o <<x>>)[j] = IF j <= Len(a) THEN a[j] ELSE <<x>>[j - Len(a)]
    BY <1>4, <1>7, ConcatProperties
  <2>2. Len(a) + Len(<<x>>) = i
    BY <1>2, <1>4, <1>7
  <2>3. \A j \in 1 .. i : c[j] = IF j <= i - 1 THEN q[j] ELSE x
    <3> SUFFICES ASSUME NEW j \in 1 .. i PROVE c[j] = IF j <= i - 1 THEN q[j] ELSE x
      OBVIOUS
    <3>1. (j <= i - 1 /\ j \in 1 .. i - 1) \/ (~(j <= i - 1) /\ j - (i - 1) = 1)
      BY <1>2
    <3>2. c[j] = IF j <= i - 1 THEN a[j] ELSE <<x>>[j - (i - 1)]
      BY <1>4, <1>6, <2>1, <2>2
    <3> QED
      BY <1>4, <1>7, <3>1, <3>2
  <2>4. c \in Seq(Items) /\ Len(c) = i
    BY <1>6, <2>1, <2>2
  <2> QED
    BY <2>3, <2>4, LenProperties
<1>9. PICK s : s = c \o b
  OBVIOUS
<1>10. s = InsertAt(q, i, x)
  BY <1>1, <1>3, <1>6, <1>9 DEF InsertAt
<1>11. /\ s \in Seq(Items) /\ DOMAIN s = 1 .. l + 1
       /\ \A j \in 1 .. l + 1 : s[j] = IF j <= i THEN c[j] ELSE q[j - 1]
  <2>1. /\ c \o b \in Seq(Items) /\ Len(c \o b) = Len(c) + Len(b)
        /\ \A j \in 1 .. Len(c) + Len(b) :
              (c \o b)[j] = IF j <= Len(c) THEN c[j] ELSE b[j - Len(c)]
    BY <1>5, <1>8, ConcatProperties
  <2>2. Len(c) + Len(b) = l + 1
    BY <1>2, <1>5, <1>8
  <2>3. \A j \in 1 .. l + 1 : s[j] = IF j <= i THEN c[j] ELSE q[j - 1]
    <3> SUFFICES ASSUME NEW j \in 1 .. l + 1 PROVE s[j] = IF j <= i THEN c[j] ELSE q[j - 1]
      OBVIOUS
    <3>1. j <= i \/ (~(j <= i) /\ j - i \in 1 .. l - i + 1 /\ i + (j - i) - 1 = j - 1)
      BY <1>2
    <3>2. s[j] = IF j <= i THEN c[j] ELSE b[j - i]
      BY <1>8, <1>9, <2>1, <2>2
    <3> QED
      BY <1>5, <3>1, <3>2
  <2>4. s \in Seq(Items) /\ Len(s) = l + 1
    BY <1>9, <2>1, <2>2
  <2> QED
    BY <2>3, <2>4, LenProperties
<1>12. \A j \in 1 .. l + 1 : s[j] = x \/ \E k \in DOMAIN q : k <= j /\ s[j] = q[k]
  <2> SUFFICES ASSUME NEW j \in 1 .. l + 1, s[j] # x
               PROVE  \E k \in DOMAIN q : k <= j /\ s[j] = q[k]
    OBVIOUS
  <2>1. CASE j <= i - 1
    <3>1. j \in 1 .. i /\ j <= i /\ j \in 1 .. l /\ j <= j
      BY <1>2, <2>1
    <3>2. s[j] = q[j]
      BY <1>8, <1>11, <2>1, <3>1
    <3> QED
      BY <1>2, <3>1, <3>2
  <2>2. CASE j = i
    <3>1. j \in 1 .. i /\ j <= i /\ ~(j <= i - 1)
      BY <1>2, <2>2
    <3> QED
      BY <1>8, <1>11, <3>1
  <2>3. CASE ~(j <= i - 1) /\ j # i
    <3>1. ~(j <= i) /\ j - 1 \in 1 .. l /\ j - 1 <= j
      BY <1>2, <2>3
    <3> QED
      BY <1>2, <1>11, <3>1
  <2> QED
    BY <2>1, <2>2, <2>3
<1>13. Range(q) \subseteq Range(s)
  <2> SUFFICES ASSUME NEW y \in Range(q) PROVE y \in Range(s)
    OBVIOUS
  <2>1. PICK j \in 1 .. l : y = q[j]
    BY <1>2, Ranged
  <2>2. CASE j <= i - 1
    <3>1. j \in 1 .. i /\ j \in 1 .. l + 1 /\ j <= i
      BY <1>2, <2>2
    <3>2. s[j] = y
      BY <1>8, <1>11, <2>1, <2>2, <3>1
    <3> QED
      BY <1>11, <3>1, <3>2, Ranged
  <2>3. CASE ~(j <= i - 1)
    <3>1. PICK h \in 1 .. l + 1 : ~(h <= i) /\ h - 1 = j
      <4>1. j + 1 \in 1 .. l + 1 /\ ~(j + 1 <= i) /\ (j + 1) - 1 = j
        BY <1>2, <2>3
      <4> QED
        BY <4>1
    <3>2. s[h] = y
      BY <1>11, <2>1, <3>1
    <3> QED
      BY <1>11, <3>1, <3>2, Ranged
  <2> QED
    BY <2>2, <2>3
<1> QED
  BY <1>10, <1>11, <1>12, <1>13

LEMMA Removed ==
    ASSUME NEW q \in Seq(Items), NEW i \in DOMAIN q
    PROVE  /\ RemoveAt(q, i) \in Seq(Items)
           /\ \A j \in DOMAIN RemoveAt(q, i) :
                 \E k \in DOMAIN q : j <= k /\ RemoveAt(q, i)[j] = q[k]
           /\ IsInjective(q) => IsInjective(RemoveAt(q, i))
<1>1. PICK l \in Nat : l = Len(q)
  BY LenProperties
<1>2. DOMAIN q = 1 .. l /\ i \in 1 .. l /\ \A j \in 1 .. l : q[j] \in Items
  BY <1>1, LenProperties, ElementOfSeq
<1>3. PICK h \in Nat, m \in Nat : h = i - 1 /\ m = i + 1
  <2>1. i - 1 \in Nat /\ i + 1 \in Nat
    BY <1>2
  <2> QED
    BY <2>1
<1>4. PICK a, b : a = SubSeq(q, 1, h) /\ b = SubSeq(q, m, l)
  OBVIOUS
<1>5. /\ a \in Seq(Items) /\ Len(a) = h /\ \A j \in 1 .. h : a[j] = q[j]
  <2>1. 1 \in Int /\ h \in Int /\ \A j \in 1 .. h : q[j] \in Items
    BY <1>2, <1>3
  <2>2. /\ SubSeq(q, 1, h) \in Seq(Items)
        /\ Len(SubSeq(q, 1, h)) = IF 1 <= h THEN h - 1 + 1 ELSE 0
        /\ \A j \in 1 .. h - 1 + 1 : SubSeq(q, 1, h)[j] = q[1 + j - 1]
    BY <2>1, SubSeqProperties
  <2>3. h - 1 + 1 = h /\ (IF 1 <= h THEN h - 1 + 1 ELSE 0) = h
        /\ \A j \in 1 .. h : 1 + j - 1 = j
    OBVIOUS
  <2> QED
    BY <1>4, <2>2, <2>3
<1>6. /\ b \in Seq(Items) /\ Len(b) = l - i /\ \A j \in 1 .. l - i : b[j] = q[i + j]
  <2>1. m \in Int /\ l \in Int /\ \A j \in m .. l : q[j] \in Items
    BY <1>2, <1>3
  <2>2. /\ SubSeq(q, m, l) \in Seq(Items)
        /\ Len(SubSeq(q, m, l)) = IF m <= l THEN l - m + 1 ELSE 0
        /\ \A j \in 1 .. l - m + 1 : SubSeq(q, m, l)[j] = q[m + j - 1]
    BY <2>1, SubSeqProperties
  <2>3. l - m + 1 = l - i /\ (IF m <= l THEN l - m + 1 ELSE 0) = l - i
        /\ \A j \in 1 .. l - i : m + j - 1 = i + j
    BY <1>2, <1>3
  <2> QED
    BY <1>4, <2>2, <2>3
<1>7. PICK s : s = a \o b
  OBVIOUS
<1>8. s = RemoveAt(q, i)
  BY <1>1, <1>3, <1>4, <1>7 DEF RemoveAt
<1>9. s \in Seq(Items) /\ DOMAIN s = 1 .. l - 1
  <2>1. a \o b \in Seq(Items) /\ Len(a \o b) = Len(a) + Len(b)
    BY <1>5, <1>6, ConcatProperties
  <2>2. Len(a) + Len(b) = l - 1
    BY <1>2, <1>3, <1>5, <1>6
  <2> QED
    BY <1>7, <2>1, <2>2, LenProperties
<1>10. ASSUME NEW j \in 1 .. l - 1
       PROVE  s[j] = (IF j < i THEN q[j] ELSE q[j + 1])
  <2>1. \/ j <= h /\ j \in 1 .. h /\ j < i
        \/ ~(j <= h) /\ ~(j < i) /\ j - h \in 1 .. l - i /\ i + (j - h) = j + 1
    <3>1. i \in 1 .. l /\ h = i - 1
      BY <1>2, <1>3
    <3> QED
      BY <3>1
  <2>2. s[j] = IF j <= h THEN a[j] ELSE b[j - h]
    <3>1. \A g \in 1 .. Len(a) + Len(b) :
             (a \o b)[g] = IF g <= Len(a) THEN a[g] ELSE b[g - Len(a)]
      BY <1>5, <1>6, ConcatProperties
    <3>2. Len(a) + Len(b) = l - 1
      BY <1>2, <1>3, <1>5, <1>6
    <3> QED
      BY <1>5, <1>7, <3>1, <3>2
  <2> QED
    BY <1>5, <1>6, <2>1, <2>2
<1>11. \A j \in DOMAIN s : \E k \in DOMAIN q : j <= k /\ s[j] = q[k]
  <2> SUFFICES ASSUME NEW j \in 1 .. l - 1 PROVE \E k \in 1 .. l : j <= k /\ s[j] = q[k]
    BY <1>2, <1>9
  <2>1. j \in 1 .. l /\ j + 1 \in 1 .. l /\ j <= j /\ j <= j + 1
    BY <1>2
  <2> QED
    BY <1>10, <2>1
<1>12. ASSUME IsInjective(q), NEW j \in 1 .. l - 1, NEW k \in 1 .. l - 1, s[j] = s[k]
       PROVE  j = k
  <2>1. PICK g \in 1 .. l : s[j] = q[g] /\ (IF j < i THEN g = j ELSE g = j + 1)
    <3>1. j \in 1 .. l /\ j + 1 \in 1 .. l
      BY <1>2
    <3>2. s[j] = IF j < i THEN q[j] ELSE q[j + 1]
      BY <1>10
    <3> QED
      BY <3>1, <3>2
  <2>2. PICK o \in 1 .. l : s[k] = q[o] /\ (IF k < i THEN o = k ELSE o = k + 1)
    <3>1. k \in 1 .. l /\ k + 1 \in 1 .. l
      BY <1>2
    <3>2. s[k] = IF k < i THEN q[k] ELSE q[k + 1]
      BY <1>10
    <3> QED
      BY <3>1, <3>2
  <2>3. g = o
    BY <1>2, <1>12, <2>1, <2>2 DEF IsInjective
  <2> QED
    BY <1>2, <2>1, <2>2, <2>3
<1>13. IsInjective(q) => IsInjective(s)
  BY <1>9, <1>12 DEF IsInjective
<1> QED
  BY <1>8, <1>9, <1>11, <1>13

LEMMA InsertStep == PagingInv /\ Insert => PagingInv'
<1> SUFFICES ASSUME PagingInv, Insert PROVE PagingInv'
  OBVIOUS
<1>1. /\ UNCHANGED <<tool, pc, got, offset, pages, answer, initial, malformed, shrank>>
      /\ pc = "page" /\ grew' = TRUE /\ answer = "none"
  BY DEF Insert, Change, call, PagingInv, PagingTypes
<1>2. PICK x \in Items, i \in 1 .. Len(list) + 1 :
         x \notin Range(initial) /\ list' = InsertAt(list, i, x)
  BY DEF Insert
<1>3. list \in Seq(Items) /\ got \in Seq(Items)
  BY DEF PagingInv, PagingTypes
<1>4. /\ list' \in Seq(Items) /\ Range(list) \subseteq Range(list')
      /\ \A j \in DOMAIN list' :
            list'[j] = x \/ \E k \in DOMAIN list : k <= j /\ list'[j] = list[k]
  BY <1>2, <1>3, Inserted
<1>5. PagingTypes'
  BY <1>1, <1>4 DEF PagingInv, PagingTypes
<1>6. Standing'
  BY <1>1 DEF PagingInv, Standing
<1>7. NoneTwice' /\ Quiet' /\ QuietListsAreExact'
  BY <1>1 DEF NoneTwice, Quiet, QuietListsAreExact
<1>8. ~shrank => \A j \in DOMAIN list' :
                   j <= Len(got) /\ list'[j] \in Range(initial) => list'[j] \in Range(got)
  <2> SUFFICES ASSUME ~shrank, NEW j \in DOMAIN list', j <= Len(got),
                      list'[j] \in Range(initial)
               PROVE  list'[j] \in Range(got)
    OBVIOUS
  <2>1. PICK k \in DOMAIN list : k <= j /\ list'[j] = list[k]
    BY <1>2, <1>4
  <2>2. k \in Nat /\ j \in Nat /\ Len(got) \in Nat
    BY <1>3, <1>4, Ranged
  <2>3. k <= Len(got)
    BY <2>1, <2>2
  <2> QED
    BY <1>1, <2>1, <2>3 DEF PagingInv, NoneMissed
<1>9. NoneMissed'
  BY <1>1, <1>4, <1>8 DEF PagingInv, NoneMissed
<1>10. PagesCostOnlyChanges'
  BY <1>1 DEF PagesCostOnlyChanges
<1> QED
  BY <1>5, <1>6, <1>7, <1>9, <1>10 DEF PagingInv

LEMMA DeleteStep == PagingInv /\ Delete => PagingInv'
<1> SUFFICES ASSUME PagingInv, Delete PROVE PagingInv'
  OBVIOUS
<1>1. /\ UNCHANGED <<tool, pc, got, offset, pages, answer, initial, malformed, grew>>
      /\ pc = "page" /\ shrank' = TRUE /\ answer = "none"
  BY DEF Delete, Change, call, PagingInv, PagingTypes
<1>2. PICK i \in DOMAIN list : list' = RemoveAt(list, i)
  BY DEF Delete
<1>3. list \in Seq(Items) /\ got \in Seq(Items)
  BY DEF PagingInv, PagingTypes
<1>4. /\ list' \in Seq(Items)
      /\ IsInjective(list) => IsInjective(list')
      /\ \A j \in DOMAIN list' : \E k \in DOMAIN list : j <= k /\ list'[j] = list[k]
  BY <1>2, <1>3, Removed
<1>5. PagingTypes'
  BY <1>1, <1>4 DEF PagingInv, PagingTypes
<1>6. Standing'
  BY <1>1 DEF PagingInv, Standing
<1>7. NoneMissed' /\ Quiet' /\ QuietListsAreExact'
  BY <1>1 DEF NoneMissed, Quiet, QuietListsAreExact
<1>8. ~grew => \A j \in DOMAIN list' : j > Len(got) => list'[j] \notin Range(got)
  <2> SUFFICES ASSUME ~grew, NEW j \in DOMAIN list', j > Len(got)
               PROVE  list'[j] \notin Range(got)
    OBVIOUS
  <2>1. PICK k \in DOMAIN list : j <= k /\ list'[j] = list[k]
    BY <1>4
  <2>2. k \in Nat /\ j \in Nat /\ Len(got) \in Nat
    BY <1>3, <1>4, Ranged
  <2>3. k > Len(got)
    BY <2>1, <2>2
  <2> QED
    BY <1>1, <2>1, <2>3 DEF PagingInv, NoneTwice
<1>9. NoneTwice'
  BY <1>1, <1>4, <1>8 DEF PagingInv, NoneTwice
<1>10. PagesCostOnlyChanges'
  BY <1>1 DEF PagingInv, PagesCostOnlyChanges
<1> QED
  BY <1>5, <1>6, <1>7, <1>9, <1>10 DEF PagingInv

LEMMA PagingStutters == PagingInv /\ UNCHANGED vars => PagingInv'
<1> SUFFICES ASSUME PagingInv, UNCHANGED vars PROVE PagingInv'
  OBVIOUS
<1>1. /\ UNCHANGED <<tool, pc, got, offset, pages, answer, list, initial>>
      /\ UNCHANGED <<grew, shrank, malformed>>
  BY DEF vars, call
<1>2. PagingTypes' /\ Standing'
  BY <1>1 DEF PagingInv, PagingTypes, Standing
<1>3. NoneTwice' /\ NoneMissed' /\ Quiet'
  BY <1>1 DEF PagingInv, NoneTwice, NoneMissed, Quiet
<1>4. QuietListsAreExact' /\ PagesCostOnlyChanges'
  BY <1>1 DEF PagingInv, QuietListsAreExact, PagesCostOnlyChanges, Budget
<1> QED
  BY <1>2, <1>3, <1>4 DEF PagingInv

LEMMA PagingInvHolds == Spec => []PagingInv
<1>1. PagingInv /\ [Next]_vars => PagingInv'
  BY PageStep, MalformedStep, FailsStep, InsertStep, DeleteStep, PagingStutters DEF Next
<1> QED
  BY <1>1, InitPaging, PTL DEF Spec

\* On a list that nobody changes, what the loops of time_report, list_projects and
\* paginate return is its beginning up to their budget, for every page size, cap and
\* length of the list; and time_report says "truncated" exactly when there is more.
THEOREM QuietListsAreReadExactly == Spec => []QuietListsAreExact
BY PagingInvHolds, PTL DEF PagingInv

\* Whatever the list and whenever it changes between two pages: no row is counted twice
\* unless one was inserted, and none that was there all the time is missed by an answer
\* that is not called truncated unless one was removed.
THEOREM OnlyChangesCostRows == Spec => []PagesCostOnlyChanges
BY PagingInvHolds, PTL DEF PagingInv

----------------------------------------------------------------------------
(***************************************************************************)
(* The activity feed.  Events carry the turn that brought them, so a type  *)
(* that is asked for once has no event before its turn, and what its turn  *)
(* brings is what the sources map counts.                                  *)
(***************************************************************************)
Events == [turn : Nat, place : Places, row : Row]

FeedTypes ==
    /\ ask \in FeedRequests /\ rows \in [Places -> SUBSET Row] /\ quiet \in BOOLEAN
    /\ at \in {"resolve", "source", "board", "done"} /\ turn \in DOMAIN ask.types
    /\ sources \in [Types -> [ok : BOOLEAN, count : Nat]]
    /\ merged \in SUBSET Events /\ IsFiniteSet(merged)
    /\ partial \in SUBSET Events /\ IsFiniteSet(partial)

\* The events are those of the turns that are over.
Turns ==
    at # "done" =>
        \A e \in merged :
            e.turn \in DOMAIN ask.types /\ e.turn < turn /\ TypeOf(e.place) = ask.types[e.turn]

OfType(E, t) == {e \in E : TypeOf(e.place) = t}

\* The sources map tells how many of them each type brought.
Counts ==
    \A t \in Types : AskedOnce(t) =>
        IF sources[t].ok THEN sources[t].count = Cardinality(OfType(merged, t))
        ELSE OfType(merged, t) = {}

\* What is in range at a place that can be read in one request.
Seen(p, E) ==
    Cardinality(rows[p]) <= MaxPerSource =>
        \A r \in rows[p] : InRange(r) => \E e \in E : e.place = p /\ e.row = r

Rested == quiet => \A p \in Places : sources[TypeOf(p)].ok => Seen(p, merged)

BoardsRead ==
    /\ boards \subseteq Boards
    /\ IF at = "board"
       THEN /\ ask.types[turn] = "forums" /\ \A e \in partial : e.turn = turn /\ e.place \in Boards
            /\ quiet => \A b \in Boards \ boards : Seen(b, partial)
       ELSE partial = {}

Answered ==
    feed.kind = "ok" =>
        /\ at = "done" /\ feed.events \in Cut(merged)
        /\ feed.truncated = (Cardinality(merged) > ask.limit)

FeedInv == FeedTypes /\ Turns /\ Counts /\ Rested /\ BoardsRead /\ Answered

LEMMA FeedConstants ==
    /\ Boards \cap Types = {} /\ IsFiniteSet(RowIds) /\ LastDay \in Nat /\ MaxPerSource \in Nat
    /\ Projects \subseteq [Places -> SUBSET Row]
    /\ \A r \in FeedRequests :
          /\ r.types \in Seq(Types) /\ r.types # <<>> /\ r.limit \in Nat
          /\ r.from \in Nat /\ r.to \in Nat
BY FeedAssumption

LEMMA FiniteRows == \A S \in SUBSET Row : IsFiniteSet(S)
<1>1. IsFiniteSet(1 .. LastDay)
  BY FeedConstants, FS_Interval
<1>2. IsFiniteSet(RowIds \X (1 .. LastDay))
  BY <1>1, FeedConstants, FS_Product
<1> DEFINE f == [r \in Row |-> <<r.id, r.day>>]
<1>3. f \in [Row -> RowIds \X (1 .. LastDay)]
  BY DEF Row
<1>4. \A r, s \in Row : f[r] = f[s] => r = s
  BY DEF Row
<1>5. f \in Injection(Row, RowIds \X (1 .. LastDay))
  BY <1>3, <1>4 DEF Injection, IsInjective
<1>6. IsFiniteSet(Row)
  BY <1>2, <1>5, FS_Injection
<1> QED
  BY <1>6, FS_Subset

LEMMA TypesOf ==
    \A p \in Places :
        /\ TypeOf(p) \in Types
        /\ TypeOf(p) = "forums" <=> p \in Boards
        /\ p \notin Boards => TypeOf(p) = p
BY FeedConstants DEF TypeOf, Places, Types

\* The places of a type that is not the forums.
LEMMA OwnPlace ==
    \A t \in Types \ {"forums"} : t \in Places /\ \A p \in Places : TypeOf(p) = t <=> p = t
BY FeedConstants DEF TypeOf, Places, Types

LEMMA FirstRows ==
    ASSUME NEW S, NEW K \in FirstOf(S)
    PROVE  K \subseteq S /\ (Cardinality(S) <= MaxPerSource => K = S)
BY DEF FirstOf

\* What a collector makes of a place are rows of the place, and all that are in range
\* of a place that has no more than it reads.
LEMMA Collects ==
    ASSUME rows \in [Places -> SUBSET Row], NEW p \in Places, NEW K \in Collected(p)
    PROVE  /\ K \subseteq rows[p] /\ IsFiniteSet(K)
           /\ Cardinality(rows[p]) <= MaxPerSource => \A r \in rows[p] : InRange(r) => r \in K
<1>1. rows[p] \in SUBSET Row /\ IsFiniteSet(rows[p])
  BY FiniteRows
<1>2. Within(rows[p]) \subseteq rows[p]
  BY DEF Within
<1>3. Cardinality(rows[p]) <= MaxPerSource => Cardinality(Within(rows[p])) <= MaxPerSource
  <2>1. /\ Cardinality(Within(rows[p])) <= Cardinality(rows[p])
        /\ Cardinality(Within(rows[p])) \in Nat /\ Cardinality(rows[p]) \in Nat
    BY <1>1, <1>2, FS_Subset, FS_CardinalityType
  <2> QED
    BY <2>1, FeedConstants
<1>4. SUFFICES /\ K \subseteq rows[p]
               /\ Cardinality(rows[p]) <= MaxPerSource => Within(rows[p]) \subseteq K
  BY <1>1, FS_Subset DEF Within
<1>5. CASE K \in FirstOf(Within(rows[p]))
  BY <1>2, <1>3, <1>5, FirstRows
<1>6. CASE K = Within(rows[p])
  BY <1>2, <1>6
<1>7. ASSUME NEW L \in FirstOf(rows[p]), K = Within(L)
      PROVE  /\ K \subseteq rows[p]
             /\ Cardinality(rows[p]) <= MaxPerSource => Within(rows[p]) \subseteq K
  <2>1. L \subseteq rows[p] /\ (Cardinality(rows[p]) <= MaxPerSource => L = rows[p])
    BY FirstRows
  <2> QED
    BY <1>7, <2>1 DEF Within
<1>8. \A S : Newest(S) \subseteq FirstOf(S)
  BY DEF Newest
<1>9. \/ p \in {"issues", "time_entries"} /\ Collected(p) = Newest(Within(rows[p]))
      \/ p = "news" /\ Collected(p) = {Within(L) : L \in Newest(rows[p])}
      \/ p = "wiki" /\ Collected(p) = FirstOf(Within(rows[p]))
      \/ p = "files" /\ Collected(p) = {Within(rows[p])}
      \/ p \in Boards /\ Collected(p) = {Within(L) : L \in FirstOf(rows[p])}
  <2>1. p \in {"issues", "news", "wiki", "time_entries", "files"} \/ p \in Boards
    BY DEF Places, Types
  <2>2. p \in Boards => p \notin {"issues", "news", "wiki", "time_entries", "files"}
    BY FeedConstants DEF Types
  <2> QED
    BY <2>1, <2>2 DEF Collected
<1> QED
  BY <1>5, <1>6, <1>7, <1>8, <1>9

\* A type that is asked for once is asked for at one turn.
LEMMA OneTurnEach ==
    ASSUME FeedTypes, NEW t, AskedOnce(t)
    PROVE  \A j, k \in DOMAIN ask.types : ask.types[j] = t /\ ask.types[k] = t => j = k
<1> DEFINE S == {k \in DOMAIN ask.types : ask.types[k] = t}
<1>1. Cardinality(S) = 1
  BY DEF AskedOnce
<1>2. IsFiniteSet(S)
  <2>1. ask.types \in Seq(Types)
    BY FeedConstants DEF FeedTypes
  <2>2. DOMAIN ask.types = 1 .. Len(ask.types) /\ Len(ask.types) \in Nat
    BY <2>1, LenProperties
  <2>3. IsFiniteSet(DOMAIN ask.types)
    BY <2>2, FS_Interval
  <2> QED
    BY <2>3, FS_Subset
<1>3. \E x : S = {x}
  BY <1>1, <1>2, FS_Singleton
<1> QED
  BY <1>3

LEMMA InitFeed == FeedInit => FeedInv
<1> SUFFICES ASSUME FeedInit PROVE FeedInv
  OBVIOUS
<1>1. ask.types \in Seq(Types) /\ ask.types # <<>> /\ ask \in FeedRequests
  BY FeedConstants DEF FeedInit
<1>2. 1 \in DOMAIN ask.types
  <2>1. Len(ask.types) \in Nat /\ Len(ask.types) # 0 /\ DOMAIN ask.types = 1 .. Len(ask.types)
    BY <1>1, LenProperties, EmptySeq
  <2> QED
    BY <2>1
<1>3. IsFiniteSet({})
  BY FS_EmptySet
<1>4. FeedTypes
  BY <1>1, <1>2, <1>3, FeedConstants DEF FeedTypes, FeedInit, Failed
<1>5. Turns /\ Counts /\ BoardsRead
  BY DEF FeedInit, Turns, Counts, BoardsRead, OfType, Failed
<1>6. Rested
  BY TypesOf DEF FeedInit, Rested, Failed
<1>7. Answered
  BY DEF FeedInit, Answered, NoFeed
<1> QED
  BY <1>4, <1>5, <1>6, <1>7 DEF FeedInv

\* A turn ends: its events are all of its type, are counted, and are none when it failed.
LEMMA EndsTurn ==
    ASSUME FeedInv, at \in {"source", "board"},
           NEW new \in SUBSET Events, IsFiniteSet(new),
           \A e \in new : e.turn = turn /\ TypeOf(e.place) = ask.types[turn],
           NEW report \in [ok : BOOLEAN, count : Nat],
           IF report.ok THEN report.count = Cardinality(new) ELSE new = {},
           quiet' => quiet,
           quiet' /\ report.ok =>
               \A p \in Places : TypeOf(p) = ask.types[turn] => Seen(p, new),
           quiet' \in BOOLEAN, UNCHANGED rows, EndTurn(report, merged \cup new)
    PROVE  FeedInv'
<1> DEFINE t == ask.types[turn]
           E == merged \cup new
<1>1. /\ ask' = ask /\ sources' = [sources EXCEPT ![t] = report] /\ merged' = E
      /\ boards' = {} /\ partial' = {}
  BY DEF EndTurn
<1>2. /\ turn < Len(ask.types) /\ turn' = turn + 1 /\ at' = "source" /\ feed' = feed
      \/ /\ ~(turn < Len(ask.types)) /\ at' = "done" /\ turn' = turn
         /\ \E K \in Cut(E) :
               feed' = [kind |-> "ok", truncated |-> Cardinality(E) > ask.limit, events |-> K]
  BY DEF EndTurn
<1>3. FeedTypes /\ Turns /\ Counts /\ Rested /\ Answered
  BY DEF FeedInv
<1>4. /\ ask.types \in Seq(Types) /\ DOMAIN ask.types = 1 .. Len(ask.types)
      /\ Len(ask.types) \in Nat /\ turn \in 1 .. Len(ask.types) /\ t \in Types
  <2>1. ask.types \in Seq(Types) /\ turn \in DOMAIN ask.types
    BY <1>3, FeedConstants DEF FeedTypes
  <2> QED
    BY <2>1, LenProperties, ElementOfSeq
<1>5. E \in SUBSET Events /\ IsFiniteSet(E)
  BY <1>3, FS_Union DEF FeedTypes
<1>6. sources \in [Types -> [ok : BOOLEAN, count : Nat]]
  BY <1>3 DEF FeedTypes
<1>7. /\ sources'[t] = report
      /\ \A u \in Types : u # t => sources'[u] = sources[u]
      /\ sources' \in [Types -> [ok : BOOLEAN, count : Nat]]
  BY <1>1, <1>4, <1>6
<1>8. at' \in {"source", "done"} /\ turn' \in DOMAIN ask.types
  BY <1>2, <1>4
<1>9. FeedTypes'
  <2>1. IsFiniteSet({}) /\ {} \in SUBSET Events
    BY FS_EmptySet
  <2> QED
    BY <1>1, <1>3, <1>5, <1>7, <1>8, <2>1 DEF FeedTypes
<1>10. \A e \in merged :
          e.turn \in DOMAIN ask.types /\ e.turn < turn /\ TypeOf(e.place) = ask.types[e.turn]
  BY <1>3 DEF Turns
<1>11. Turns'
  <2>1. CASE at' = "done"
    BY <2>1 DEF Turns
  <2>2. CASE at' # "done"
    <3>1. turn' = turn + 1
      BY <1>2, <2>2
    <3>2. ASSUME NEW e \in E
          PROVE  e.turn \in DOMAIN ask.types /\ e.turn < turn'
                 /\ TypeOf(e.place) = ask.types[e.turn]
      <4>1. CASE e \in merged
        <5>1. e.turn \in DOMAIN ask.types /\ e.turn < turn
              /\ TypeOf(e.place) = ask.types[e.turn]
          BY <1>10, <4>1
        <5> QED
          BY <1>4, <3>1, <5>1
      <4>2. CASE e \in new
        <5>1. e.turn = turn /\ TypeOf(e.place) = ask.types[turn]
          BY <4>2
        <5> QED
          BY <1>4, <3>1, <5>1
      <4> QED
        BY <4>1, <4>2
    <3> QED
      BY <1>1, <3>2 DEF Turns
  <2> QED
    BY <2>1, <2>2
<1>12. \A u : u # t => OfType(E, u) = OfType(merged, u)
  BY DEF OfType
<1>13. AskedOnce(t) => OfType(E, t) = new
  <2> SUFFICES ASSUME AskedOnce(t), NEW e \in merged, TypeOf(e.place) = t PROVE FALSE
    BY DEF OfType
  <2>1. e.turn \in DOMAIN ask.types /\ e.turn < turn /\ ask.types[e.turn] = t
    BY <1>10
  <2>2. e.turn = turn
    BY <1>3, <1>4, <2>1, OneTurnEach
  <2> QED
    BY <1>4, <2>1, <2>2
<1>14. Counts'
  <2> SUFFICES ASSUME NEW u \in Types, AskedOnce(u)
               PROVE  IF sources'[u].ok THEN sources'[u].count = Cardinality(OfType(E, u))
                      ELSE OfType(E, u) = {}
    BY <1>1 DEF Counts, AskedOnce, OfType
  <2>1. CASE u = t
    <3>1. OfType(E, u) = new
      BY <1>13, <2>1
    <3> QED
      BY <1>7, <2>1, <3>1
  <2>2. CASE u # t
    <3>1. OfType(E, u) = OfType(merged, u) /\ sources'[u] = sources[u]
      BY <1>7, <1>12, <2>2
    <3> QED
      BY <1>3, <3>1 DEF Counts
  <2> QED
    BY <2>1, <2>2
<1>15. Rested'
  <2> SUFFICES ASSUME quiet', NEW p \in Places, sources'[TypeOf(p)].ok,
                      Cardinality(rows[p]) <= MaxPerSource, NEW r \in rows[p], InRange(r)
               PROVE  \E e \in E : e.place = p /\ e.row = r
    BY <1>1 DEF Rested, Seen, InRange
  <2>1. TypeOf(p) \in Types
    BY TypesOf
  <2>2. CASE TypeOf(p) = t
    <3>1. Seen(p, new)
      BY <1>7, <2>2
    <3>2. PICK e \in new : e.place = p /\ e.row = r
      BY <3>1 DEF Seen
    <3> QED
      BY <3>2
  <2>3. CASE TypeOf(p) # t
    <3>1. Seen(p, merged)
      BY <1>3, <1>7, <2>1, <2>3 DEF Rested
    <3>2. PICK e \in merged : e.place = p /\ e.row = r
      BY <3>1 DEF Seen
    <3> QED
      BY <3>2
  <2> QED
    BY <2>2, <2>3
<1>16. BoardsRead'
  BY <1>1, <1>8 DEF BoardsRead
<1>17. Answered'
  <2>1. CASE at' = "source"
    <3>1. feed' = feed
      BY <1>2, <2>1
    <3>2. feed.kind # "ok"
      BY <1>3 DEF Answered
    <3> QED
      BY <3>1, <3>2 DEF Answered
  <2>2. CASE at' = "done"
    <3>1. PICK K \in Cut(E) :
             feed' = [kind |-> "ok", truncated |-> Cardinality(E) > ask.limit, events |-> K]
      BY <1>2, <2>2
    <3>2. feed'.events \in Cut(E) /\ feed'.truncated = (Cardinality(E) > ask.limit)
      BY <3>1
    <3> QED
      BY <1>1, <2>2, <3>2 DEF Answered, Cut
  <2> QED
    BY <1>8, <2>1, <2>2
<1> QED
  BY <1>9, <1>11, <1>14, <1>15, <1>16, <1>17 DEF FeedInv

\* A source failed.
LEMMA FailedTurn ==
    ASSUME FeedInv, at \in {"source", "board"}, UNCHANGED <<rows, quiet>>, EndError
    PROVE  FeedInv'
<1>1. Failed \in [ok : BOOLEAN, count : Nat] /\ ~Failed.ok
  BY DEF Failed
<1>2. IsFiniteSet({}) /\ merged \cup {} = merged /\ quiet' \in BOOLEAN
  BY FS_EmptySet DEF FeedInv, FeedTypes
<1>3. EndTurn(Failed, merged \cup {})
  BY <1>2 DEF EndError
<1> QED
  BY <1>1, <1>2, <1>3, EndsTurn

\* A source was read.
LEMMA CountedTurn ==
    ASSUME FeedInv, at \in {"source", "board"}, UNCHANGED rows,
           NEW new \in SUBSET Events, IsFiniteSet(new),
           \A e \in new : e.turn = turn /\ TypeOf(e.place) = ask.types[turn],
           quiet' \in BOOLEAN, quiet' => quiet,
           quiet' => \A p \in Places : TypeOf(p) = ask.types[turn] => Seen(p, new),
           EndOk(new)
    PROVE  FeedInv'
<1>1. PICK report : report = Counted(Cardinality(new))
  OBVIOUS
<1>2. report \in [ok : BOOLEAN, count : Nat] /\ report.ok /\ report.count = Cardinality(new)
  BY <1>1, FS_CardinalityType DEF Counted
<1>3. EndTurn(report, merged \cup new)
  BY <1>1 DEF EndOk
<1> QED
  BY <1>2, <1>3, EndsTurn

LEMMA ResolveStep == FeedInv /\ Resolve => FeedInv'
<1> SUFFICES ASSUME FeedInv, Resolve PROVE FeedInv'
  OBVIOUS
<1>1. /\ UNCHANGED <<ask, turn, boards, partial, merged, sources, rows, quiet>>
      /\ at = "resolve" /\ at' \in {"source", "done"}
      /\ feed' = feed \/ feed'.kind \in {"project_not_found", "api_error"}
  BY DEF Resolve, NoFeed
<1>2. FeedTypes'
  BY <1>1 DEF FeedInv, FeedTypes
<1>3. Turns' /\ BoardsRead'
  BY <1>1 DEF FeedInv, Turns, BoardsRead
<1>4. Counts'
  BY <1>1 DEF FeedInv, Counts, AskedOnce, OfType
<1>5. Rested'
  BY <1>1 DEF FeedInv, Rested, Seen, InRange
<1>6. Answered'
  BY <1>1 DEF FeedInv, Answered
<1> QED
  BY <1>2, <1>3, <1>4, <1>5, <1>6 DEF FeedInv

EventsAt(p, K) == {Event(turn, p, r) : r \in K}

\* The events of the rows of one place.
LEMMA EventsOf ==
    ASSUME FeedTypes, NEW p \in Places, NEW K, K \subseteq rows[p], IsFiniteSet(K)
    PROVE  LET new == EventsAt(p, K) IN
           /\ new \in SUBSET Events /\ IsFiniteSet(new)
           /\ \A e \in new : e.turn = turn /\ e.place = p
           /\ \A r \in K : \E e \in new : e.place = p /\ e.row = r
<1> DEFINE new == {Event(turn, p, r) : r \in K}
<1>1. turn \in Nat
  <2>1. ask.types \in Seq(Types) /\ turn \in DOMAIN ask.types
    BY FeedConstants DEF FeedTypes
  <2> QED
    BY <2>1, LenProperties
<1>2. rows[p] \in SUBSET Row
  BY DEF FeedTypes
<1>3. new \in SUBSET Events
  BY <1>1, <1>2 DEF Event, Events
<1>4. IsFiniteSet(new)
  <2> DEFINE f == [r \in K |-> Event(turn, p, r)]
  <2>1. f \in Surjection(K, new)
    BY DEF Surjection
  <2> QED
    BY <2>1, FS_Surjection
<1>5. \A e \in new : e.turn = turn /\ e.place = p
  BY DEF Event
<1>6. \A r \in K : Event(turn, p, r) \in new /\ Event(turn, p, r).place = p
                  /\ Event(turn, p, r).row = r
  BY DEF Event
<1> QED
  BY <1>3, <1>4, <1>5, <1>6 DEF EventsAt

LEMMA ReadSourceStep == FeedInv /\ ReadSource => FeedInv'
<1> SUFFICES ASSUME FeedInv, ReadSource PROVE FeedInv'
  OBVIOUS
<1> DEFINE t == ask.types[turn]
<1>1. /\ at \in {"source", "board"} /\ UNCHANGED rows /\ FeedTypes /\ quiet \in BOOLEAN
      /\ rows \in [Places -> SUBSET Row]
  BY DEF ReadSource, FeedInv, FeedTypes
<1>2. t \in Types \ {"forums"}
  <2>1. ask.types \in Seq(Types) /\ turn \in DOMAIN ask.types
    BY <1>1, FeedConstants DEF FeedTypes
  <2>2. t \in Types
    BY <2>1, ElementOfSeq, LenProperties
  <2> QED
    BY <2>2 DEF ReadSource
<1>3. t \in Places /\ \A p \in Places : TypeOf(p) = t <=> p = t
  BY <1>2, OwnPlace
<1>4. CASE EndError /\ UNCHANGED quiet
  BY <1>1, <1>4, FailedTurn
<1>5. CASE EndOk({}) /\ quiet' = FALSE
  <2>1. IsFiniteSet({}) /\ {} \in SUBSET Events
    BY FS_EmptySet
  <2> QED
    BY <1>1, <1>5, <2>1, CountedTurn
<1>6. ASSUME NEW K \in Collected(t), EndOk({Event(turn, t, r) : r \in K}), UNCHANGED quiet
      PROVE  FeedInv'
  <2>1. PICK new : new = {Event(turn, t, r) : r \in K}
    OBVIOUS
  <2>2. PICK p \in Places : p = t
    BY <1>3
  <2>3. /\ K \subseteq rows[p] /\ IsFiniteSet(K)
        /\ Cardinality(rows[p]) <= MaxPerSource => \A r \in rows[p] : InRange(r) => r \in K
    BY <1>1, <1>6, <2>2, Collects
  <2>4. new = EventsAt(p, K)
    BY <2>1, <2>2 DEF EventsAt
  <2>5. /\ new \in SUBSET Events /\ IsFiniteSet(new)
        /\ \A e \in new : e.turn = turn /\ e.place = p
        /\ \A r \in K : \E e \in new : e.place = p /\ e.row = r
    BY <1>1, <2>3, <2>4, EventsOf
  <2>6. Seen(p, new)
    BY <2>3, <2>5 DEF Seen
  <2>7. \A q \in Places : TypeOf(q) = t => Seen(q, new)
    BY <1>3, <2>2, <2>6
  <2>8. \A e \in new : e.turn = turn /\ TypeOf(e.place) = t
    BY <1>3, <2>2, <2>5
  <2>9. EndOk(new) /\ quiet' = quiet
    BY <1>6, <2>1
  <2> QED
    BY <1>1, <2>5, <2>7, <2>8, <2>9, CountedTurn
<1> QED
  BY <1>4, <1>5, <1>6 DEF ReadSource

LEMMA ListBoardsStep == FeedInv /\ ListBoards => FeedInv'
<1> SUFFICES ASSUME FeedInv, ListBoards PROVE FeedInv'
  OBVIOUS
<1>1. /\ at = "source" /\ UNCHANGED <<rows, changes>> /\ FeedTypes /\ quiet \in BOOLEAN
      /\ ask.types[turn] = "forums" /\ partial = {}
  BY DEF ListBoards, FeedInv, FeedTypes, BoardsRead
<1>2. CASE EndError /\ UNCHANGED quiet
  BY <1>1, <1>2, FailedTurn
<1>3. CASE /\ Boards # {} /\ at' = "board" /\ boards' = Boards
           /\ UNCHANGED <<ask, turn, partial, merged, sources, feed, quiet>>
  <2>1. FeedTypes'
    BY <1>1, <1>3 DEF FeedTypes
  <2>2. Turns' /\ BoardsRead'
    BY <1>1, <1>3 DEF FeedInv, Turns, BoardsRead
  <2>3. Counts'
    BY <1>3 DEF FeedInv, Counts, AskedOnce, OfType
  <2>4. Rested'
    BY <1>1, <1>3 DEF FeedInv, Rested, Seen, InRange
  <2>5. Answered'
    BY <1>1, <1>3 DEF FeedInv, Answered
  <2> QED
    BY <2>1, <2>2, <2>3, <2>4, <2>5 DEF FeedInv
<1>4. CASE EndOk({}) /\ quiet' = (quiet /\ Boards = {})
  <2>1. IsFiniteSet({}) /\ {} \in SUBSET Events
    BY FS_EmptySet
  <2>2. quiet' \in BOOLEAN /\ (quiet' => quiet)
    BY <1>1, <1>4
  <2>3. quiet' => \A p \in Places : TypeOf(p) = ask.types[turn] => Seen(p, {})
    BY <1>1, <1>4, TypesOf
  <2> QED
    BY <1>1, <1>4, <2>1, <2>2, <2>3, CountedTurn
<1> QED
  BY <1>2, <1>3, <1>4 DEF ListBoards

LEMMA ReadBoardStep == FeedInv /\ ReadBoard => FeedInv'
<1> SUFFICES ASSUME FeedInv, ReadBoard PROVE FeedInv'
  OBVIOUS
<1>1. /\ at = "board" /\ UNCHANGED <<rows, changes>> /\ FeedTypes /\ quiet \in BOOLEAN
      /\ ask.types[turn] = "forums" /\ rows \in [Places -> SUBSET Row]
      /\ partial \in SUBSET Events /\ IsFiniteSet(partial)
      /\ \A e \in partial : e.turn = turn /\ e.place \in Boards
      /\ quiet => \A c \in Boards \ boards : Seen(c, partial)
  BY DEF ReadBoard, FeedInv, FeedTypes, BoardsRead
<1>2. PICK b \in boards :
        \/ EndError /\ UNCHANGED quiet
        \/ \E K \in Collected(b) \cup {{}} :
            LET found == partial \cup {Event(turn, b, r) : r \in K} IN
            /\ quiet' = (quiet /\ K \in Collected(b))
            /\ IF boards = {b} THEN EndOk(found)
               ELSE /\ boards' = boards \ {b} /\ partial' = found
                    /\ UNCHANGED <<ask, at, turn, merged, sources, feed>>
  BY DEF ReadBoard
<1>3. CASE EndError /\ UNCHANGED quiet
  BY <1>1, <1>3, FailedTurn
<1>4. ASSUME NEW K, K \in Collected(b) \/ K = {},
             LET found == partial \cup {Event(turn, b, r) : r \in K} IN
             /\ quiet' = (quiet /\ K \in Collected(b))
             /\ IF boards = {b} THEN EndOk(found)
                ELSE /\ boards' = boards \ {b} /\ partial' = found
                     /\ UNCHANGED <<ask, at, turn, merged, sources, feed>>
      PROVE  FeedInv'
  <2>1. b \in Boards /\ b \in Places
    BY DEF FeedInv, BoardsRead, Places
  <2>2. /\ K \subseteq rows[b] /\ IsFiniteSet(K)
        /\ K \in Collected(b) /\ Cardinality(rows[b]) <= MaxPerSource =>
               \A r \in rows[b] : InRange(r) => r \in K
    <3>1. CASE K \in Collected(b)
      BY <1>1, <2>1, <3>1, Collects
    <3>2. CASE K = {} /\ K \notin Collected(b)
      BY <3>2, FS_EmptySet
    <3> QED
      BY <1>4, <3>1, <3>2
  <2>3. PICK new : new = {Event(turn, b, r) : r \in K} /\ new = EventsAt(b, K)
    BY DEF EventsAt
  <2>4. /\ new \in SUBSET Events /\ IsFiniteSet(new)
        /\ \A e \in new : e.turn = turn /\ e.place = b
        /\ \A r \in K : \E e \in new : e.place = b /\ e.row = r
    <3>1. FeedTypes
      BY <1>1
    <3>2. b \in Places
      BY <2>1
    <3>3. K \subseteq rows[b]
      BY <2>2
    <3>4. IsFiniteSet(K)
      BY <2>2
    <3>5. PICK p \in Places : p = b
      BY <3>2
    <3>6. K \subseteq rows[p]
      BY <3>3, <3>5
    <3> DEFINE E == EventsAt(p, K)
    <3>7. /\ E \in SUBSET Events /\ IsFiniteSet(E)
          /\ \A e \in E : e.turn = turn /\ e.place = p
          /\ \A r \in K : \E e \in E : e.place = p /\ e.row = r
      BY <3>1, <3>4, <3>6, EventsOf
    <3>8. E = new
      BY <2>3, <3>5
    <3> HIDE DEF E
    <3> QED
      BY <3>5, <3>7, <3>8
  <2> DEFINE found == partial \cup new
  <2>5. /\ found \in SUBSET Events /\ IsFiniteSet(found)
        /\ \A e \in found : e.turn = turn /\ e.place \in Boards
    BY <1>1, <2>1, <2>3, <2>4, FS_Union
  <2>6. quiet' => quiet /\ \A c \in (Boards \ boards) \cup {b} : Seen(c, found)
    <3> SUFFICES ASSUME quiet', NEW c \in (Boards \ boards) \cup {b},
                        Cardinality(rows[c]) <= MaxPerSource, NEW r \in rows[c], InRange(r)
                 PROVE  quiet /\ \E e \in found : e.place = c /\ e.row = r
      BY <1>4 DEF Seen
    <3>1. quiet /\ K \in Collected(b)
      BY <1>4
    <3>2. CASE c \in Boards \ boards
      <4>1. PICK e \in partial : e.place = c /\ e.row = r
        BY <1>1, <3>1, <3>2 DEF Seen
      <4> QED
        BY <2>3, <3>1, <4>1
    <3>3. CASE c = b
      <4>1. r \in K
        BY <2>2, <3>1, <3>3
      <4>2. PICK e \in new : e.place = b /\ e.row = r
        BY <2>4, <4>1
      <4> QED
        BY <2>3, <3>1, <3>3, <4>2
    <3> QED
      BY <3>2, <3>3
  <2>7. quiet' \in BOOLEAN
    BY <1>1, <1>4
  <2>8. CASE boards = {b}
    <3>1. EndOk(found)
      BY <1>4, <2>3, <2>8
    <3>2. \A e \in found : e.turn = turn /\ TypeOf(e.place) = ask.types[turn]
      BY <1>1, <2>5 DEF TypeOf
    <3>3. quiet' => \A p \in Places : TypeOf(p) = ask.types[turn] => Seen(p, found)
      BY <1>1, <2>6, <2>8, TypesOf
    <3> QED
      BY <1>1, <2>5, <2>6, <2>7, <3>1, <3>2, <3>3, CountedTurn
  <2>9. CASE boards # {b}
    <3>1. /\ boards' = boards \ {b} /\ partial' = found
          /\ UNCHANGED <<ask, at, turn, merged, sources, feed>>
      BY <1>4, <2>3, <2>9
    <3>2. FeedTypes'
      BY <1>1, <2>5, <2>7, <3>1 DEF FeedTypes
    <3>3. Turns'
      BY <3>1 DEF FeedInv, Turns
    <3>4. BoardsRead'
      <4>0. boards \subseteq Boards /\ boards' \subseteq Boards
        BY <3>1 DEF FeedInv, BoardsRead
      <4> SUFFICES ASSUME quiet', NEW c \in Boards \ (boards \ {b}),
                          Cardinality(rows[c]) <= MaxPerSource, NEW r \in rows[c], InRange(r)
                   PROVE  \E e \in found : e.place = c /\ e.row = r
        BY <1>1, <2>5, <3>1, <4>0 DEF BoardsRead, Seen, InRange
      <4>1. Seen(c, found)
        BY <2>6
      <4> QED
        BY <4>1 DEF Seen
    <3>5. Counts'
      BY <3>1 DEF FeedInv, Counts, AskedOnce, OfType
    <3>6. Rested'
      <4>1. quiet' => quiet
        BY <2>6
      <4> QED
        BY <1>1, <3>1, <4>1 DEF FeedInv, Rested, Seen, InRange
    <3>7. Answered'
      BY <1>1, <3>1 DEF FeedInv, Answered
    <3> QED
      BY <3>2, <3>3, <3>4, <3>5, <3>6, <3>7 DEF FeedInv
  <2> QED
    BY <2>8, <2>9
<1> QED
  BY <1>2, <1>3, <1>4

LEMMA RowsChangeStep == FeedInv /\ RowsChange => FeedInv'
<1> SUFFICES ASSUME FeedInv, RowsChange PROVE FeedInv'
  OBVIOUS
<1>1. /\ UNCHANGED <<ask, at, turn, boards, partial, merged, sources, feed>>
      /\ quiet' = FALSE /\ at # "done"
  BY DEF RowsChange, reading
<1>2. rows' \in [Places -> SUBSET Row]
  <2>1. PICK p \in Places, r \in Row :
         \/ rows' = [rows EXCEPT ![p] = {x \in @ : x.id # r.id} \cup {r}]
         \/ rows' = [rows EXCEPT ![p] = @ \ {r}]
    BY DEF RowsChange
  <2>2. rows \in [Places -> SUBSET Row]
    BY DEF FeedInv, FeedTypes
  <2> QED
    BY <2>1, <2>2
<1>3. FeedTypes'
  BY <1>1, <1>2 DEF FeedInv, FeedTypes
<1>4. Turns' /\ BoardsRead'
  BY <1>1 DEF FeedInv, Turns, BoardsRead
<1>5. Counts'
  BY <1>1 DEF FeedInv, Counts, AskedOnce, OfType
<1>6. Rested' /\ Answered'
  BY <1>1 DEF FeedInv, Rested, Answered
<1> QED
  BY <1>3, <1>4, <1>5, <1>6 DEF FeedInv

LEMMA FeedStutters == FeedInv /\ UNCHANGED feedVars => FeedInv'
<1> SUFFICES ASSUME FeedInv, UNCHANGED feedVars PROVE FeedInv'
  OBVIOUS
<1>1. UNCHANGED <<ask, at, turn, boards, partial, merged, sources, feed, rows, quiet>>
  BY DEF feedVars, reading
<1>2. FeedTypes' /\ Turns'
  BY <1>1 DEF FeedInv, FeedTypes, Turns
<1>3. Counts'
  BY <1>1 DEF FeedInv, Counts, AskedOnce, OfType
<1>4. Rested' /\ BoardsRead'
  BY <1>1 DEF FeedInv, Rested, BoardsRead, Seen, InRange
<1>5. Answered'
  BY <1>1 DEF FeedInv, Answered, Cut
<1> QED
  BY <1>2, <1>3, <1>4, <1>5 DEF FeedInv

LEMMA FeedInvHolds == FeedSpec => []FeedInv
<1>1. FeedInv /\ [FeedNext]_feedVars => FeedInv'
  BY ResolveStep, ReadSourceStep, ListBoardsStep, ReadBoardStep, RowsChangeStep, FeedStutters
     DEF FeedNext
<1> QED
  BY <1>1, InitFeed, PTL DEF FeedSpec

\* What the newest events leave out of a set is no newer than what they keep.
LEMMA CutKeeps ==
    ASSUME NEW E \in SUBSET Events, IsFiniteSet(E), NEW K \in Cut(E), ask.limit \in Nat
    PROVE  /\ K \subseteq E
           /\ ~(Cardinality(E) > ask.limit) => K = E
           /\ \A k \in K, e \in E \ K : k.row.day >= e.row.day
<1>1. /\ K \subseteq E
      /\ Cardinality(K) = IF Cardinality(E) <= ask.limit THEN Cardinality(E) ELSE ask.limit
      /\ \A k \in K, e \in E \ K : k.row.day >= e.row.day
  BY DEF Cut
<1>2. Cardinality(E) \in Nat
  BY FS_CardinalityType
<1>3. ~(Cardinality(E) > ask.limit) => K = E
  <2> SUFFICES ASSUME ~(Cardinality(E) > ask.limit) PROVE K = E
    OBVIOUS
  <2>1. Cardinality(K) = Cardinality(E)
    BY <1>1, <1>2
  <2> QED
    BY <1>1, <2>1, FS_Subset
<1> QED
  BY <1>1, <1>3

\* "Inclusive" is the range the collectors read.
LEMMA FeedAgrees == FeedInv => FeedAgreesWithSources
<1> SUFFICES ASSUME FeedInv, feed.kind = "ok" PROVE FeedAgreesWithSources
  BY DEF FeedAgreesWithSources
<1>1. /\ feed.events \in Cut(merged) /\ feed.truncated = (Cardinality(merged) > ask.limit)
      /\ merged \in SUBSET Events /\ IsFiniteSet(merged) /\ ask \in FeedRequests
      /\ rows \in [Places -> SUBSET Row]
  BY DEF FeedInv, Answered, FeedTypes
<1>2. ask.limit \in Nat /\ ask.from \in Nat /\ ask.to \in Nat
  BY <1>1, FeedConstants
<1>3. PICK K \in Cut(merged) : K = feed.events
  BY <1>1
<1>4. /\ K \subseteq merged /\ (~feed.truncated => K = merged)
      /\ \A k \in K, e \in merged \ K : k.row.day >= e.row.day
  BY <1>1, <1>2, CutKeeps
<1>5. ASSUME NEW t \in Types, AskedOnce(t)
      PROVE  /\ ~sources[t].ok => OfType(K, t) = {}
             /\ sources[t].ok /\ ~feed.truncated => sources[t].count = Cardinality(OfType(K, t))
  <2>1. IF sources[t].ok THEN sources[t].count = Cardinality(OfType(merged, t))
        ELSE OfType(merged, t) = {}
    BY <1>5 DEF FeedInv, Counts
  <2>2. OfType(K, t) \subseteq OfType(merged, t)
    BY <1>4 DEF OfType
  <2> QED
    BY <1>4, <2>1, <2>2
<1>6. ASSUME quiet, NEW j \in DOMAIN ask.types, NEW p \in Places,
             TypeOf(p) = ask.types[j], sources[ask.types[j]].ok,
             Cardinality(rows[p]) <= MaxPerSource, NEW r \in rows[p], Inclusive(r)
      PROVE  \/ \E e \in K : e.place = p /\ e.row = r
             \/ feed.truncated /\ \A e \in K : e.row.day >= r.day
  <2>1. r.day \in Nat
    BY <1>1, FeedConstants DEF Row
  <2>2. InRange(r)
    BY <1>2, <1>6, <2>1 DEF InRange, Inclusive
  <2>3. Seen(p, merged)
    BY <1>6 DEF FeedInv, Rested
  <2>4. PICK e \in merged : e.place = p /\ e.row = r
    BY <1>6, <2>2, <2>3 DEF Seen
  <2>5. CASE e \in K
    BY <2>4, <2>5
  <2>6. CASE e \notin K
    <3>1. \A k \in K : k.row.day >= r.day
      BY <1>4, <2>4, <2>6
    <3>2. feed.truncated
      BY <1>1, <1>4, <2>6
    <3> QED
      BY <3>1, <3>2
  <2> QED
    BY <2>5, <2>6
<1> QED
  BY <1>3, <1>5, <1>6 DEF FeedAgreesWithSources, OfType

\* The feed agrees with its sources map, for any rows, boards, requests and answers and
\* whatever other users do meanwhile: a type that failed has no event, counts add up, and
\* at rest nothing in range is missing that the answer does not own up to.
THEOREM TheFeedAgrees == FeedSpec => []FeedAgreesWithSources
BY FeedInvHolds, FeedAgrees, PTL

----------------------------------------------------------------------------
(***************************************************************************)
(* The composition.  The readers share no state, so each of them makes its *)
(* own steps, or none, when any one of them runs.                          *)
(***************************************************************************)
LEMMA ReadersStart == ReadsInit => Init /\ FeedInit /\ SearchInit /\ ProjectInit /\ DumpInit
BY DEF ReadsInit, NoPaging, NoFeeding, NoSearching, NoReferring, NoDumping

LEMMA ReadersStep ==
    [ReadsNext]_<<reader, vars, feedVars, searchVars, projectVars, dumpVars>> =>
        /\ [Next]_vars /\ [FeedNext]_feedVars /\ [SearchNext]_searchVars
        /\ [ProjectNext]_projectVars /\ [DumpNext]_dumpVars
BY DEF ReadsNext

\* Whatever tool reads, each component behaves as its own specification allows.
THEOREM ReadersRunAlone ==
    ReadsSpec => Spec /\ FeedSpec /\ SearchSpec /\ ProjectSpec /\ DumpSpec
BY ReadersStart, ReadersStep, PTL DEF ReadsSpec, Spec, FeedSpec, SearchSpec, ProjectSpec, DumpSpec

\* What the reading tools promise, together and for every value of the constants, if
\* Redmine keeps identifiers of projects unique.
THEOREM ReadersKeepTheirPromises ==
    ASSUME UniqueSlugs
    PROVE  ReadsSpec =>
               /\ []QuietListsAreExact /\ []PagesCostOnlyChanges
               /\ []FeedAgreesWithSources
               /\ []NoFilterIsDropped /\ MissingIsTrue
               /\ []ReadsSeeWrites /\ []SlugBeatsName /\ []CacheFailsOnlyOnReuse
               /\ []CapIsHonoredAndUsed /\ []SearchHalves
BY ReadersRunAlone, QuietListsAreReadExactly, OnlyChangesCostRows, TheFeedAgrees,
   FiltersReachRedmine, MissingNamesAreMissing, WritesAreSeen, SlugsComeFirst, OnlyReuseBreaks,
   AnswersFit, SearchEnds, PTL
=============================================================================
