--------------------------- MODULE CoalesceProofs ---------------------------
(***************************************************************************)
(* Theorems of Coalesce and CoalesceHistory, for any length of the chain,  *)
(* any number of locators, blocks and sectors, and any failures.           *)
(*                                                                         *)
(* The invariant says that a set S of parents, fixed but for two steps, is *)
(* a whole chain: each file of it leads to the next of S and the last to   *)
(* the head.  The locators of the tail lead into S, in the order in which  *)
(* they are tried, and each call stands at files of S.  The parent of the  *)
(* tail leaves S in WriteHeader, that of the temporary file in Rename.     *)
(*                                                                         *)
(* The second half is about what is in these files: no step changes the    *)
(* content of the disk, for all ways from the tail to parents show it.     *)
(***************************************************************************)
EXTENDS CoalesceHistory, NaturalsLemmas, SequenceTheorems

-----------------------------------------------------------------------------
(***************************************************************************)
(* Parents                                                                 *)
(***************************************************************************)

NextParents ==
    [f \in Names \cup {NoName} |-> IF f = NoName THEN NoName ELSE OpenParentVHD(files[f])]

\* The function up of ParentsOf.
IsUp(v, up) ==
    up = [n \in 1 .. NumDiffs + 1 |->
            IF n = 1 THEN OpenParentVHD(v) ELSE NextParents[up[n - 1]]]

(* The parent of a file is a name of the directory or none. *)
LEMMA ParentIsName ==
  ASSUME NEW v
  PROVE  DoFindParentFile(v) \in Names \cup {NoName} /\ OpenParentVHD(v) \in Names \cup {NoName}
<1> DEFINE found == {i \in Locators : v.locs[i] \in Names /\ files[v.locs[i]].kind # "none"}
<1>1. ASSUME found # {}
      PROVE  (CHOOSE i \in found : \A j \in found : i <= j) \in found
  <2>1. found \subseteq Nat BY ChainAssumption DEF Locators
  <2>2. PICK m \in found : \A n \in found : m <= n BY <1>1, <2>1, LeastNatural
  <2> QED BY <2>2
<1>2. DoFindParentFile(v) \in Names \cup {NoName}
  BY <1>1 DEF DoFindParentFile
<1> QED BY <1>2 DEF OpenParentVHD

(* The names of the parents, one after the other, are defined. *)
LEMMA UpExists ==
  ASSUME NEW v
  PROVE  \E up \in [1 .. NumDiffs + 1 -> Names \cup {NoName}] : IsUp(v, up)
<1> DEFINE Good(k, u) == /\ u \in [1 .. k + 1 -> Names \cup {NoName}]
                         /\ \A n \in 1 .. k + 1 :
                               u[n] = IF n = 1 THEN OpenParentVHD(v) ELSE NextParents[u[n - 1]]
           I == {k \in Nat : \E u : Good(k, u)}
<1>1. 0 \in I
  <2> DEFINE u == [n \in 1 .. 1 |-> OpenParentVHD(v)]
  <2>1. Good(0, u) BY ParentIsName
  <2> QED BY <2>1
<1>2. ASSUME NEW k \in Nat, k \in I PROVE k + 1 \in I
  <2>1. PICK u : Good(k, u) BY <1>2
  <2> DEFINE w == [n \in 1 .. k + 2 |-> IF n = k + 2 THEN NextParents[u[k + 1]] ELSE u[n]]
  <2>2. \A f \in Names \cup {NoName} : NextParents[f] \in Names \cup {NoName}
    BY ParentIsName DEF NextParents
  <2>3. k + 1 \in 1 .. k + 1 /\ k + 2 \in 1 .. k + 2 /\ (k + 1) + 1 = k + 2 OBVIOUS
  <2>4. w \in [1 .. k + 2 -> Names \cup {NoName}]
    <3> SUFFICES ASSUME NEW n \in 1 .. k + 2 PROVE w[n] \in Names \cup {NoName} OBVIOUS
    <3> QED BY <2>1, <2>2, <2>3
  <2>5. ASSUME NEW n \in 1 .. k + 2
        PROVE  w[n] = IF n = 1 THEN OpenParentVHD(v) ELSE NextParents[w[n - 1]]
    <3>1. CASE n = k + 2
      <4>1. w[n] = NextParents[u[k + 1]] /\ n # 1 /\ n - 1 = k + 1 BY <3>1
      <4>2. w[k + 1] = u[k + 1] BY <2>3
      <4> QED BY <4>1, <4>2
    <3>2. CASE n # k + 2
      <4>1. n \in 1 .. k + 1 /\ w[n] = u[n] BY <3>2
      <4>2. n # 1 => n - 1 \in 1 .. k + 1 /\ w[n - 1] = u[n - 1] BY <4>1
      <4> QED BY <4>1, <4>2, <2>1
    <3> QED BY <3>1, <3>2
  <2>6. Good(k + 1, w)
    <3> HIDE DEF w
    <3> QED BY <2>3, <2>4, <2>5
  <2> HIDE DEF Good, w
  <2> QED BY <2>6
<1>3. NumDiffs \in I
  <2> HIDE DEF I
  <2> QED BY <1>1, <1>2, SetInduction, ChainAssumption
<1>4. PICK u : Good(NumDiffs, u) BY <1>3
<1>5. IsUp(v, u) BY <1>4 DEF IsUp
<1> QED BY <1>4, <1>5

(* What ParentsOf returns: parent after parent, as far as they can be opened. *)
LEMMA ParentsShape ==
  ASSUME NEW v
  PROVE  /\ ParentsOf(v) \in Seq(Names) /\ Len(ParentsOf(v)) <= NumDiffs + 1
         /\ OpenParentVHD(v) = NoName => ParentsOf(v) = << >>
         /\ OpenParentVHD(v) # NoName =>
              ParentsOf(v) # << >> /\ ParentsOf(v)[1] = OpenParentVHD(v)
         /\ \A i \in 1 .. Len(ParentsOf(v)) : i + 1 <= Len(ParentsOf(v)) =>
              ParentsOf(v)[i + 1] = OpenParentVHD(files[ParentsOf(v)[i]])
         /\ ParentsOf(v) # << >> /\ Len(ParentsOf(v)) < NumDiffs + 1 =>
              OpenParentVHD(files[ParentsOf(v)[Len(ParentsOf(v))]]) = NoName
<1> DEFINE N == NumDiffs + 1
           up == CHOOSE u : IsUp(v, u)
           K == {n \in 1 .. N : up[n] # NoName}
<1>0. N \in Nat /\ N >= 1 /\ NoName \notin Names
  BY ChainAssumption DEF Names, NoName, Tmp
<1>1. IsUp(v, up) BY UpExists
<1>2. ParentsOf(v) = SubSeq(up, 1, Cardinality(K))
  BY DEF ParentsOf, IsUp, NextParents
<1> HIDE DEF up
<1>3. /\ up[1] = OpenParentVHD(v)
      /\ \A n \in 1 .. N : n # 1 => up[n] = NextParents[up[n - 1]]
  BY <1>0, <1>1 DEF IsUp
<1>4. \A n \in 1 .. N : up[n] \in Names \cup {NoName}
  <2> DEFINE I == {k \in Nat : k + 1 \in 1 .. N => up[k + 1] \in Names \cup {NoName}}
  <2>1. 0 \in I BY <1>3, ParentIsName
  <2>2. ASSUME NEW k \in Nat, k \in I PROVE k + 1 \in I
    <3>1. SUFFICES ASSUME (k + 1) + 1 \in 1 .. N PROVE up[(k + 1) + 1] \in Names \cup {NoName}
      OBVIOUS
    <3>2. k + 1 \in 1 .. N /\ ((k + 1) + 1) - 1 = k + 1 /\ (k + 1) + 1 # 1 BY <1>0, <3>1
    <3>3. up[k + 1] \in Names \cup {NoName} BY <2>2, <3>2
    <3>4. up[(k + 1) + 1] = NextParents[up[k + 1]] BY <1>3, <3>1, <3>2
    <3> QED BY <3>3, <3>4, ParentIsName DEF NextParents
  <2>3. Nat \subseteq I
    <3> HIDE DEF I
    <3> QED BY <2>1, <2>2, SetInduction
  <2> QED
    <3> SUFFICES ASSUME NEW n \in 1 .. N PROVE up[n] \in Names \cup {NoName} OBVIOUS
    <3>1. n - 1 \in Nat /\ (n - 1) + 1 = n BY <1>0
    <3> QED BY <2>3, <3>1
<1>5. \A n \in 1 .. N : n + 1 \in 1 .. N /\ up[n] = NoName => up[n + 1] = NoName
  <2> SUFFICES ASSUME NEW n \in 1 .. N, n + 1 \in 1 .. N, up[n] = NoName PROVE up[n + 1] = NoName
    OBVIOUS
  <2>1. up[n + 1] = NextParents[up[(n + 1) - 1]] /\ (n + 1) - 1 = n BY <1>0, <1>3
  <2> QED BY <2>1 DEF NextParents
<1>6. PICK k \in 0 .. N : K = 1 .. k
  <2>1. CASE K = 1 .. N BY <2>1, <1>0
  <2>2. CASE K # 1 .. N
    <3> DEFINE T == {n \in 1 .. N : up[n] = NoName}
    <3>1. T # {} /\ T \in SUBSET Nat BY <2>2
    <3>2. PICK m \in T : \A n \in T : m <= n BY <3>1, LeastNatural
    <3> DEFINE I == {j \in Nat : m + j \in 1 .. N => m + j \in T}
    <3>3. 0 \in I BY <3>2
    <3>4. ASSUME NEW j \in Nat, j \in I PROVE j + 1 \in I
      <4>1. SUFFICES ASSUME m + (j + 1) \in 1 .. N PROVE up[m + (j + 1)] = NoName
        OBVIOUS
      <4>2. m + j \in 1 .. N /\ m + (j + 1) = (m + j) + 1 BY <1>0, <3>2, <4>1
      <4> QED BY <4>1, <4>2, <3>4, <1>5
    <3>5. Nat \subseteq I
      <4> HIDE DEF I
      <4> QED BY <3>3, <3>4, SetInduction
    <3>6. ASSUME NEW n \in 1 .. N, m <= n PROVE n \in T
      <4>1. n - m \in Nat /\ m + (n - m) = n BY <3>2, <3>6
      <4> QED BY <4>1, <3>5
    <3>7. K = 1 .. m - 1
      <4>1. ASSUME NEW n \in K PROVE n \in 1 .. m - 1 BY <3>6, <3>2, <1>0
      <4>2. ASSUME NEW n \in 1 .. m - 1 PROVE n \in K
        <5>1. n \in 1 .. N /\ ~(m <= n) BY <3>2, <1>0
        <5> QED BY <5>1, <3>2
      <4> QED BY <4>1, <4>2
    <3> QED BY <3>2, <3>7, <1>0
  <2> QED BY <2>1, <2>2
<1>7. Cardinality(K) = k
  <2>1. Cardinality(1 .. k) = k BY FS_Interval
  <2> QED BY <2>1, <1>6
<1> DEFINE P == [i \in 1 .. k |-> up[i]]
<1>8. ParentsOf(v) = P
  <2>1. up = [n \in 1 .. N |-> up[n]] BY <1>1 DEF IsUp
  <2>2. up \in Seq(Names \cup {NoName}) /\ Len(up) = N
    <3>1. up \in [1 .. N -> Names \cup {NoName}] BY <2>1, <1>4
    <3> QED BY <3>1, <1>0
  <2>3. SubSeq(up, 1, k) = P BY <2>2, <1>6, SubSeqProperties
  <2> QED BY <1>2, <1>7, <2>3
<1>9. \A i \in 1 .. k : up[i] \in Names
  BY <1>4, <1>6
<1>10. P \in Seq(Names) /\ Len(P) = k
  BY <1>9
<1>11. \A i \in 1 .. k : NextParents[up[i]] = OpenParentVHD(files[up[i]])
  BY <1>9, <1>0 DEF NextParents
<1>12. OpenParentVHD(v) = NoName => P = << >>
  <2> SUFFICES ASSUME OpenParentVHD(v) = NoName PROVE k = 0 BY <1>10
  <2>1. 1 \notin K BY <1>3
  <2> QED BY <2>1, <1>6
<1>13. OpenParentVHD(v) # NoName => P # << >> /\ P[1] = OpenParentVHD(v)
  <2> SUFFICES ASSUME OpenParentVHD(v) # NoName PROVE k >= 1 /\ P[1] = OpenParentVHD(v)
    BY <1>10
  <2>1. 1 \in K BY <1>0, <1>3
  <2> QED BY <2>1, <1>6, <1>3
<1>14. \A i \in 1 .. k : i + 1 <= k => P[i + 1] = OpenParentVHD(files[P[i]])
  <2> SUFFICES ASSUME NEW i \in 1 .. k, i + 1 <= k PROVE up[i + 1] = OpenParentVHD(files[up[i]])
    BY <1>6
  <2>1. i + 1 \in 1 .. N /\ (i + 1) - 1 = i /\ i + 1 # 1 BY <1>6, <1>0
  <2> QED BY <2>1, <1>3, <1>11
<1>15. P # << >> /\ k < N => OpenParentVHD(files[P[k]]) = NoName
  <2> SUFFICES ASSUME P # << >>, k < N PROVE OpenParentVHD(files[up[k]]) = NoName
    BY <1>10, <1>6
  <2>1. k \in 1 .. k BY <1>6, <1>10
  <2>2. k + 1 \in 1 .. N /\ (k + 1) - 1 = k /\ k + 1 # 1 /\ k + 1 \notin K
    BY <2>1, <1>0, <1>6
  <2>3. up[k + 1] = NoName BY <2>2
  <2>4. up[k + 1] = NextParents[up[k]] BY <2>2, <1>3
  <2> QED BY <2>1, <2>3, <2>4, <1>11
<1> QED
  <2> HIDE DEF P
  <2> QED BY <1>6, <1>8, <1>10, <1>12, <1>13, <1>14, <1>15

-----------------------------------------------------------------------------
(***************************************************************************)
(* The inductive invariant                                                 *)
(***************************************************************************)

Least(T) == CHOOSE m \in T : \A n \in T : m <= n

\* In S, g comes right after f.
Follows(S, f, g) == g \in S /\ f < g /\ \A h \in S : h <= f \/ g <= h

\* The files with names in S are a chain: each is the child of the next, up to the head.
Path(S) ==
    /\ S \subseteq 1 .. NumDiffs /\ HeadVhd \in S
    /\ files[HeadVhd].kind = "head" /\ files[HeadVhd].uuid = HeadVhd
    /\ \A f \in S \ {HeadVhd} :
         /\ files[f].kind = "diff" /\ files[f].uuid = f
         /\ \E g \in S : /\ Follows(S, f, g) /\ files[f].parent = g
                         /\ \A i \in Locators : files[f].locs[i] = g

\* The value of sector s, read from file q of the chain and those above.
Below(S, q, s) == files[Least({f \in S : q <= f /\ s \in Bitmap(files[f])})].data[s]

TailLocs == files[TailVhd].locs

\* p is the file that the locators of the tail lead to.
Leads(p) == /\ \E i \in Locators : TailLocs[i] = p
            /\ \A i \in Locators : TailLocs[i] # NoName => TailLocs[i] <= p

\* All locators of the tail are in one chain; those of changes that failed come first.
TailInv(S) ==
    /\ files[TailVhd].kind \in {"diff", "bad"}
    /\ \A i \in Locators : TailLocs[i] \in S \cup {NoName}
    /\ \A i, j \in Locators : i < j /\ TailLocs[i] # NoName /\ TailLocs[j] # NoName =>
          TailLocs[j] <= TailLocs[i]

CopyPcs == {"block", "append", "copy", "flushBits", "detach"}
LinkPcs == {"locators", "header"}
TmpPcs == CopyPcs \cup LinkPcs \cup {"flushTmp"}
IntoTailPcs == CopyPcs \cup LinkPcs \cup {"unlink"}
SafelyPcs == TmpPcs \cup {"create", "generate", "giveUp", "closeTail", "rename", "reopen", "unlink"}

NamesIn(Q) == {Q[i] : i \in 1 .. Len(Q)}

StrayNames == NamesIn(call.strays)

\* How far the locators of file f have been changed.
LinkInv(f) ==
    /\ call.pc = "locators" => /\ \A i \in Locators : i < call.loc => files[f].locs[i] = call.parent
                               /\ call.loc > 1 => vhd[f].parent = call.parent
    /\ call.pc = "header" => /\ \A i \in Locators : files[f].locs[i] = call.parent
                             /\ vhd[f].parent = call.parent

CallInv(S) ==
    /\ call.op \in {"none", "intoTail", "safely"}
    /\ call.op = "none" => call = NoCall
    /\ call.op # "none" => handle /\ files[TailVhd].kind = "diff"
    /\ call.op # "none" /\ ~(call.op = "intoTail" /\ call.pc \in LinkPcs) =>
          vhd[TailVhd].parent \in S /\ Leads(vhd[TailVhd].parent)
    /\ vhd[TailVhd].open => handle
    /\ vhd[Tmp].open <=> call.op = "safely" /\ call.pc \in TmpPcs \cup {"giveUp"}

IntoTailInv(S) == call.op = "intoTail" =>
    /\ call.to = TailVhd /\ call.pc \in IntoTailPcs /\ vhd[TailVhd].open
    /\ call.parent \in S
    /\ call.pc \in CopyPcs =>
         /\ vhd[TailVhd].parent < call.parent
         /\ StrayNames = {f \in S : vhd[TailVhd].parent <= f /\ f < call.parent}
    /\ call.pc \in LinkPcs =>
         /\ \A f \in StrayNames : f < call.parent
         /\ \A i \in Locators : TailLocs[i] # NoName => TailLocs[i] <= call.parent
    /\ LinkInv(TailVhd)
    /\ call.pc = "unlink" => StrayNames \cap S = {}

SafelyInv(S) == call.op = "safely" =>
    /\ call.to = Tmp /\ call.pc \in SafelyPcs
    /\ vhd[TailVhd].open <=> call.pc \notin {"rename", "reopen"}
    /\ call.pc \in {"create", "generate"} =>
         LET P == ParentsOf(View(TailVhd))
         IN  /\ call.idx >= 1 /\ call.len >= 2 /\ call.idx + call.len - 1 <= Len(P)
             /\ StrayNames = {f \in S : P[call.idx] < f /\ f <= P[call.idx + call.len - 1]}
    /\ call.pc \in TmpPcs \cup {"closeTail", "rename"} =>
         /\ files[Tmp].kind = "diff"
         /\ files[Tmp].uuid \in S /\ call.parent \in S
         /\ vhd[TailVhd].parent <= files[Tmp].uuid /\ files[Tmp].uuid < call.parent
         /\ StrayNames = {f \in S : files[Tmp].uuid < f /\ f < call.parent}
    /\ call.pc \in CopyPcs =>
         /\ files[Tmp].parent = files[Tmp].uuid /\ vhd[Tmp].parent = files[Tmp].uuid
         /\ \A i \in Locators : files[Tmp].locs[i] = files[Tmp].uuid
    /\ LinkInv(Tmp)
    /\ call.pc \in {"flushTmp", "closeTail", "rename"} =>
         files[Tmp].parent = call.parent /\ \A i \in Locators : files[Tmp].locs[i] = call.parent
    /\ call.pc \in {"reopen", "unlink"} => files[Tmp] = NoFile /\ StrayNames \cap S = {}

Struct(S) == Path(S) /\ TailInv(S) /\ CallInv(S) /\ IntoTailInv(S) /\ SafelyInv(S)

VhdObjects ==
    [open : BOOLEAN, flags : SUBSET Flags, parent : 0 .. NoUuid, present : SUBSET Blocks,
     bits : SUBSET Sectors, dirty : SUBSET Blocks]

Calls ==
    [op : {"none", "intoTail", "safely"}, pc : SafelyPcs \cup {"none"}, len : Nat, idx : Nat,
     to : Objects, parent : Names \cup {NoName}, block : Blocks, todo : SUBSET Sectors,
     loc : Locators, strays : Seq(1 .. NumDiffs)]

TypeInv ==
    /\ files \in [Names -> Vhds] /\ handle \in BOOLEAN
    /\ vhd \in [Objects -> VhdObjects] /\ \A f \in Objects : vhd[f].dirty \subseteq vhd[f].present
    /\ call \in Calls /\ reply \in {"none", "ok", "error", "died"}
    /\ call.pc = "copy" => call.block \in vhd[call.to].present

\* Before the parent of the tail is changed, all that names it says the same.
ParentNamed ==
    /\ files[TailVhd].kind = "diff"
    /\ \A i \in Locators : TailLocs[i] = files[TailVhd].parent
    /\ handle => vhd[TailVhd].parent = files[TailVhd].parent
    /\ call.op = "intoTail" => \/ call.pc \in CopyPcs
                               \/ call.pc = "locators" /\ call.loc = 1

SafeInv == ~risked => ParentNamed
-----------------------------------------------------------------------------
(***************************************************************************)
(* Paths                                                                   *)
(***************************************************************************)

(* The numbers that names are. *)
LEMMA NamesAreNumbers ==
  /\ NumDiffs \in Nat /\ NumDiffs >= 1 /\ HeadVhd = NumDiffs /\ TailVhd = 0 /\ Tmp = NumDiffs + 1
  /\ NoName = NumDiffs + 2 /\ NoUuid = NumDiffs + 1 /\ Names = 0 .. NumDiffs + 1
  /\ 1 \in Locators /\ Locators \subseteq Nat /\ NumLocators \in Locators
  /\ Objects = {0, NumDiffs + 1}
BY ChainAssumption DEF HeadVhd, TailVhd, Tmp, NoName, NoUuid, Names, Locators, Objects

(* When all locators are the same, they are followed. *)
LEMMA SameLocators ==
  ASSUME NEW v, NEW g \in Names, \A i \in Locators : v.locs[i] = g, files[g].kind # "none"
  PROVE  DoFindParentFile(v) = g
<1> DEFINE found == {i \in Locators : v.locs[i] \in Names /\ files[v.locs[i]].kind # "none"}
<1>1. found = Locators OBVIOUS
<1>2. found # {} /\ found \in SUBSET Nat BY <1>1, NamesAreNumbers
<1>3. PICK m \in found : \A n \in found : m <= n BY <1>2, LeastNatural
<1>4. (CHOOSE i \in found : \A j \in found : i <= j) \in Locators BY <1>1, <1>3
<1> QED BY <1>2, <1>4 DEF DoFindParentFile

(* A file of a path opens, and so does its parent, the next. *)
LEMMA PathOpens ==
  ASSUME NEW S, Path(S), NEW f \in S
  PROVE  /\ CanOpen(files[f]) /\ f \in Names /\ f # NoName /\ files[f].kind # "none" /\ files[f].uuid = f
         /\ f = HeadVhd => OpenParentVHD(files[f]) = NoName
         /\ f # HeadVhd => /\ OpenParentVHD(files[f]) \in S
                           /\ Follows(S, f, OpenParentVHD(files[f]))
<1>1. S \subseteq Names /\ NoName \notin Names /\ HeadVhd \in S
  BY NamesAreNumbers DEF Path
<1>2. \A g \in S : files[g].kind \in {"head", "diff"} /\ files[g].uuid = g
  BY DEF Path
<1>3. ASSUME NEW h \in S, h # HeadVhd, NEW g \in S,
             \A i \in Locators : files[h].locs[i] = g
      PROVE  DoFindParentFile(files[h]) = g
  BY <1>1, <1>2, <1>3, SameLocators
<1>4. ASSUME NEW h \in S PROVE CanOpen(files[h])
  <2>1. CASE h = HeadVhd BY <2>1 DEF CanOpen, Path
  <2>2. CASE h # HeadVhd
    <3>1. PICK g \in S : \A i \in Locators : files[h].locs[i] = g BY <2>2 DEF Path, Follows
    <3> QED BY <3>1, <2>2, <1>3, <1>1, <1>2 DEF CanOpen, Path
  <2> QED BY <2>1, <2>2
<1>5. f = HeadVhd => OpenParentVHD(files[f]) = NoName
  BY DEF OpenParentVHD, Path
<1>6. ASSUME f # HeadVhd
      PROVE  OpenParentVHD(files[f]) \in S /\ Follows(S, f, OpenParentVHD(files[f]))
  <2>1. PICK g \in S : /\ Follows(S, f, g) /\ files[f].parent = g
                       /\ \A i \in Locators : files[f].locs[i] = g
    BY <1>6 DEF Path, Follows
  <2>2. DoFindParentFile(files[f]) = g BY <2>1, <1>3, <1>6
  <2>3. OpenParentVHD(files[f]) = g
    BY <2>1, <2>2, <1>1, <1>2, <1>4, <1>6 DEF OpenParentVHD, Path
  <2> QED BY <2>1, <2>3
<1> QED BY <1>1, <1>2, <1>4, <1>5, <1>6

\* P names the files of S from q on, in order.
Enumerates(P, S, q) ==
    /\ P \in Seq(S) /\ P # << >> /\ P[1] = q /\ P[Len(P)] = HeadVhd
    /\ \A i \in 1 .. Len(P) : i + 1 <= Len(P) => Follows(S, P[i], P[i + 1])

(* A sequence that ascends step by step ascends. *)
LEMMA Ascending ==
  ASSUME NEW P \in Seq(Nat), \A i \in 1 .. Len(P) : i + 1 <= Len(P) => P[i] < P[i + 1]
  PROVE  \A i, j \in 1 .. Len(P) : i < j => P[i] < P[j]
<1> DEFINE I == {k \in Nat : \A i \in 1 .. Len(P) : i + k + 1 <= Len(P) => P[i] < P[i + k + 1]}
<1>1. 0 \in I OBVIOUS
<1>2. ASSUME NEW k \in Nat, k \in I PROVE k + 1 \in I
  <2> SUFFICES ASSUME NEW i \in 1 .. Len(P), i + (k + 1) + 1 <= Len(P)
               PROVE  P[i] < P[i + (k + 1) + 1]
    OBVIOUS
  <2>1. i + k + 1 \in 1 .. Len(P) /\ (i + k + 1) + 1 = i + (k + 1) + 1 OBVIOUS
  <2>2. P[i] < P[i + k + 1] BY <1>2, <2>1
  <2>3. P[i + k + 1] < P[(i + k + 1) + 1] BY <2>1
  <2>4. P[i] \in Nat /\ P[i + k + 1] \in Nat /\ P[(i + k + 1) + 1] \in Nat BY <2>1
  <2> QED BY <2>1, <2>2, <2>3, <2>4
<1>3. Nat \subseteq I
  <2> HIDE DEF I
  <2> QED BY <1>1, <1>2, SetInduction
<1> SUFFICES ASSUME NEW i \in 1 .. Len(P), NEW j \in 1 .. Len(P), i < j PROVE P[i] < P[j]
  OBVIOUS
<1>4. (j - i) - 1 \in Nat /\ i + ((j - i) - 1) + 1 = j OBVIOUS
<1>5. (j - i) - 1 \in I BY <1>3, <1>4
<1> QED BY <1>4, <1>5

(* An enumeration meets every file of the path from q on, in ascending order. *)
LEMMA EnumerationShape ==
  ASSUME NEW S \in SUBSET (1 .. NumDiffs), NEW q, NEW P, Enumerates(P, S, q)
  PROVE  /\ P \in Seq(S) /\ Len(P) \in Nat \ {0} /\ q \in S
         /\ \A i \in 1 .. Len(P) : P[i] \in S /\ P[i] \in 1 .. NumDiffs /\ q <= P[i] /\ i <= P[i]
         /\ \A i, j \in 1 .. Len(P) : i < j <=> P[i] < P[j]
<1>0. NumDiffs \in Nat /\ HeadVhd = NumDiffs BY NamesAreNumbers
<1>1. P \in Seq(S) /\ Len(P) \in Nat /\ Len(P) # 0 /\ P \in Seq(Nat)
  <2>1. P \in Seq(S) /\ Len(P) \in Nat /\ Len(P) # 0 BY DEF Enumerates
  <2>2. \A i \in 1 .. Len(P) : P[i] \in S BY <2>1
  <2>3. \A f \in S : f \in Nat BY <1>0
  <2>4. \A i \in 1 .. Len(P) : P[i] \in Nat BY <2>2, <2>3
  <2> QED BY <2>1, <2>4
<1>2. \A i \in 1 .. Len(P) : P[i] \in S /\ P[i] \in 1 .. NumDiffs
  BY <1>1
<1>3. \A i, j \in 1 .. Len(P) : i < j => P[i] < P[j]
  BY <1>1, Ascending DEF Enumerates, Follows
<1>4. \A i, j \in 1 .. Len(P) : P[i] < P[j] => i < j
  <2> SUFFICES ASSUME NEW i \in 1 .. Len(P), NEW j \in 1 .. Len(P), P[i] < P[j], ~(i < j)
               PROVE  FALSE
    OBVIOUS
  <2>1. i = j \/ j < i OBVIOUS
  <2> QED BY <2>1, <1>2, <1>3, <1>0
<1>5. q = P[1] /\ 1 \in 1 .. Len(P) BY <1>1 DEF Enumerates
<1>6. \A i \in 1 .. Len(P) : q <= P[i]
  <2> SUFFICES ASSUME NEW i \in 1 .. Len(P) PROVE q <= P[i] OBVIOUS
  <2>1. i = 1 \/ 1 < i OBVIOUS
  <2> QED BY <2>1, <1>0, <1>2, <1>3, <1>5
<1>7. \A i \in 1 .. Len(P) : i <= P[i]
  <2> DEFINE I == {k \in Nat : k + 1 <= Len(P) => k + 1 <= P[k + 1]}
  <2>1. 0 \in I BY <1>1, <1>2
  <2>2. ASSUME NEW k \in Nat, k \in I PROVE k + 1 \in I
    <3> SUFFICES ASSUME (k + 1) + 1 <= Len(P) PROVE (k + 1) + 1 <= P[(k + 1) + 1] OBVIOUS
    <3>1. k + 1 \in 1 .. Len(P) /\ (k + 1) + 1 \in 1 .. Len(P) /\ k + 1 < (k + 1) + 1 BY <1>1
    <3>2. P[k + 1] < P[(k + 1) + 1] BY <3>1, <1>3
    <3> QED BY <3>1, <3>2, <2>2, <1>0, <1>2
  <2>3. Nat \subseteq I
    <3> HIDE DEF I
    <3> QED BY <2>1, <2>2, SetInduction
  <2> SUFFICES ASSUME NEW i \in 1 .. Len(P) PROVE i <= P[i] OBVIOUS
  <2>4. i - 1 \in Nat /\ (i - 1) + 1 = i OBVIOUS
  <2> QED BY <2>3, <2>4
<1> QED BY <1>1, <1>2, <1>3, <1>4, <1>5, <1>6, <1>7

(* A chain enumerated from q on has every file of S that is not below q. *)
LEMMA EnumerationMeets ==
  ASSUME NEW S \in SUBSET (1 .. NumDiffs), NEW q, NEW P, Enumerates(P, S, q),
         NEW f \in S, q <= f
  PROVE  \E i \in 1 .. Len(P) : P[i] = f
<1> DEFINE T == {i \in 1 .. Len(P) : P[i] <= f}
<1>0. NumDiffs \in Nat /\ HeadVhd = NumDiffs BY NamesAreNumbers
<1>1. /\ P \in Seq(S) /\ Len(P) \in Nat \ {0} /\ P[1] = q
      /\ \A i \in 1 .. Len(P) : P[i] \in S /\ P[i] \in 1 .. NumDiffs
  BY EnumerationShape DEF Enumerates
<1>2. T # {} /\ T \in SUBSET (0 .. Len(P)) BY <1>1
<1>3. PICK m \in T : \A n \in T : n <= m BY <1>1, <1>2, GreatestNatural
<1>4. CASE m = Len(P)
  <2>1. P[m] = NumDiffs BY <1>4, <1>0 DEF Enumerates
  <2> QED BY <2>1, <1>3, <1>0
<1>5. CASE m # Len(P)
  <2>1. m \in 1 .. Len(P) /\ m + 1 \in 1 .. Len(P) BY <1>5, <1>3, <1>1
  <2>2. m + 1 \notin T BY <2>1, <1>3
  <2>3. Follows(S, P[m], P[m + 1]) BY <2>1 DEF Enumerates
  <2>4. f <= P[m] BY <2>1, <2>2, <2>3, <1>1, <1>0 DEF Follows
  <2> QED BY <2>1, <2>4, <1>3, <1>0, <1>1
<1> QED BY <1>4, <1>5

(* There is one enumeration only. *)
LEMMA EnumerationUnique ==
  ASSUME NEW S \in SUBSET (1 .. NumDiffs), NEW q, NEW P, NEW Q,
         Enumerates(P, S, q), Enumerates(Q, S, q)
  PROVE  P = Q
<1>0. NumDiffs \in Nat /\ HeadVhd = NumDiffs BY NamesAreNumbers
<1>1. ASSUME NEW A, NEW B, Enumerates(A, S, q), Enumerates(B, S, q)
      PROVE  Len(A) <= Len(B) /\ \A i \in 1 .. Len(A) : A[i] = B[i]
  <2>1. /\ Len(A) \in Nat \ {0} /\ Len(B) \in Nat \ {0}
        /\ \A i \in 1 .. Len(A) : A[i] \in S /\ A[i] \in 1 .. NumDiffs
        /\ \A i \in 1 .. Len(B) : B[i] \in S /\ B[i] \in 1 .. NumDiffs
    BY <1>1, EnumerationShape
  <2> DEFINE I == {k \in Nat : k + 1 <= Len(A) => k + 1 <= Len(B) /\ A[k + 1] = B[k + 1]}
  <2>2. 0 \in I BY <1>1, <2>1 DEF Enumerates
  <2>3. ASSUME NEW k \in Nat, k \in I PROVE k + 1 \in I
    <3> SUFFICES ASSUME (k + 1) + 1 <= Len(A)
                 PROVE  (k + 1) + 1 <= Len(B) /\ A[(k + 1) + 1] = B[(k + 1) + 1]
      OBVIOUS
    <3>1. k + 1 \in 1 .. Len(A) /\ k + 1 \in 1 .. Len(B) /\ A[k + 1] = B[k + 1] BY <2>1, <2>3
    <3>2. Follows(S, A[k + 1], A[(k + 1) + 1]) BY <3>1, <1>1 DEF Enumerates
    <3>3. (k + 1) + 1 <= Len(B)
      <4> SUFFICES ASSUME k + 1 = Len(B) PROVE FALSE BY <3>1, <2>1
      <4>1. A[k + 1] = NumDiffs BY <3>1, <1>1, <1>0 DEF Enumerates
      <4>2. A[(k + 1) + 1] \in 1 .. NumDiffs BY <2>1
      <4> QED BY <4>1, <4>2, <3>2, <1>0 DEF Follows
    <3>4. Follows(S, B[k + 1], B[(k + 1) + 1]) BY <3>1, <3>3, <1>1 DEF Enumerates
    <3>5. A[(k + 1) + 1] \in 1 .. NumDiffs /\ B[(k + 1) + 1] \in 1 .. NumDiffs
          /\ A[k + 1] \in 1 .. NumDiffs
      BY <2>1, <3>1, <3>3
    <3> QED BY <3>1, <3>2, <3>3, <3>4, <3>5, <1>0 DEF Follows
  <2>4. Nat \subseteq I
    <3> HIDE DEF I
    <3> QED BY <2>2, <2>3, SetInduction
  <2>5. ASSUME NEW i \in 1 .. Len(A) PROVE i <= Len(B) /\ A[i] = B[i]
    <3>1. i - 1 \in Nat /\ (i - 1) + 1 = i OBVIOUS
    <3> QED BY <2>4, <3>1
  <2> QED BY <2>1, <2>5
<1>2. Len(P) <= Len(Q) /\ Len(Q) <= Len(P) /\ \A i \in 1 .. Len(P) : P[i] = Q[i]
  BY <1>1
<1>3. P \in Seq(S) /\ Q \in Seq(S) BY DEF Enumerates
<1> QED BY <1>2, <1>3

(* The parents of a file whose parent is in a path are the path from there on. *)
LEMMA ParentsEnumerate ==
  ASSUME NEW S, Path(S), NEW v, OpenParentVHD(v) \in S
  PROVE  Enumerates(ParentsOf(v), S, OpenParentVHD(v))
<1> DEFINE P == ParentsOf(v)
<1>0. NumDiffs \in Nat /\ HeadVhd = NumDiffs /\ NoName \notin Names /\ S \subseteq 1 .. NumDiffs
      /\ S \subseteq Names
  BY NamesAreNumbers DEF Path
<1>1. OpenParentVHD(v) # NoName BY <1>0
<1>2. /\ P \in Seq(Names) /\ Len(P) <= NumDiffs + 1 /\ P # << >> /\ P[1] = OpenParentVHD(v)
      /\ \A i \in 1 .. Len(P) : i + 1 <= Len(P) => P[i + 1] = OpenParentVHD(files[P[i]])
      /\ Len(P) < NumDiffs + 1 => OpenParentVHD(files[P[Len(P)]]) = NoName
  BY <1>1, ParentsShape
<1> HIDE DEF P
<1>3. Len(P) \in Nat \ {0} /\ \A i \in 1 .. Len(P) : P[i] \in Names /\ P[i] # NoName
  BY <1>0, <1>2
<1>4. ASSUME NEW i \in 1 .. Len(P), i + 1 <= Len(P), P[i] \in S
      PROVE  P[i + 1] \in S /\ Follows(S, P[i], P[i + 1])
  <2>1. i + 1 \in 1 .. Len(P) BY <1>3, <1>4
  <2>2. P[i + 1] = OpenParentVHD(files[P[i]]) /\ P[i + 1] # NoName BY <2>1, <1>2, <1>3, <1>4
  <2> QED BY <2>2, <1>4, PathOpens
<1>5. \A i \in 1 .. Len(P) : P[i] \in S
  <2> DEFINE I == {k \in Nat : k + 1 <= Len(P) => P[k + 1] \in S}
  <2>1. 0 \in I BY <1>2
  <2>2. ASSUME NEW k \in Nat, k \in I PROVE k + 1 \in I
    <3> SUFFICES ASSUME (k + 1) + 1 <= Len(P) PROVE P[(k + 1) + 1] \in S OBVIOUS
    <3>1. k + 1 \in 1 .. Len(P) /\ P[k + 1] \in S BY <2>2, <1>3
    <3> QED BY <3>1, <1>4
  <2>3. Nat \subseteq I
    <3> HIDE DEF I
    <3> QED BY <2>1, <2>2, SetInduction
  <2> SUFFICES ASSUME NEW i \in 1 .. Len(P) PROVE P[i] \in S OBVIOUS
  <2>4. i - 1 \in Nat /\ (i - 1) + 1 = i OBVIOUS
  <2> QED BY <2>3, <2>4
<1>6. \A i \in 1 .. Len(P) : i + 1 <= Len(P) => Follows(S, P[i], P[i + 1])
  BY <1>4, <1>5
<1>7. P[Len(P)] = HeadVhd
  <2>1. Len(P) < NumDiffs + 1
    <3> DEFINE I == {k \in Nat : k + 1 <= Len(P) => k + 1 <= P[k + 1]}
    <3>1. 0 \in I
      <4>1. 1 \in 1 .. Len(P) BY <1>3
      <4>2. P[1] \in 1 .. NumDiffs BY <4>1, <1>0, <1>5
      <4> QED BY <4>2, <1>0
    <3>2. ASSUME NEW k \in Nat, k \in I PROVE k + 1 \in I
      <4> SUFFICES ASSUME (k + 1) + 1 <= Len(P) PROVE (k + 1) + 1 <= P[(k + 1) + 1] OBVIOUS
      <4>1. k + 1 \in 1 .. Len(P) /\ (k + 1) + 1 \in 1 .. Len(P) BY <1>3
      <4>2. P[k + 1] < P[(k + 1) + 1] BY <4>1, <1>6 DEF Follows
      <4>3. P[k + 1] \in 1 .. NumDiffs /\ P[(k + 1) + 1] \in 1 .. NumDiffs BY <4>1, <1>0, <1>5
      <4> QED BY <4>1, <4>2, <4>3, <3>2, <1>0
    <3>3. Nat \subseteq I
      <4> HIDE DEF I
      <4> QED BY <3>1, <3>2, SetInduction
    <3>4. Len(P) - 1 \in Nat /\ (Len(P) - 1) + 1 = Len(P) BY <1>3
    <3>5. Len(P) <= P[Len(P)] BY <3>3, <3>4
    <3>6. P[Len(P)] \in 1 .. NumDiffs
      <4>1. Len(P) \in 1 .. Len(P) BY <1>3
      <4>2. P[Len(P)] \in S BY <4>1, <1>5
      <4> QED BY <4>2, <1>0
    <3> QED BY <3>5, <3>6, <1>0, <1>3
  <2>2. OpenParentVHD(files[P[Len(P)]]) = NoName BY <2>1, <1>2
  <2>3. P[Len(P)] \in S BY <1>3, <1>5
  <2> QED BY <2>2, <2>3, <1>0, PathOpens
<1> QED
  <2>1. P \in Seq(S) BY <1>2, <1>5
  <2> QED BY <2>1, <1>2, <1>6, <1>7 DEF Enumerates, P

-----------------------------------------------------------------------------
(***************************************************************************)
(* What is read through a path                                             *)
(***************************************************************************)

(* The least of some numbers. *)
LEMMA LeastOf ==
  ASSUME NEW T \in SUBSET Nat
  PROVE  /\ T # {} => Least(T) \in T /\ \A n \in T : Least(T) <= n
         /\ \A m \in T : (\A n \in T : m <= n) => Least(T) = m
<1>1. ASSUME T # {} PROVE Least(T) \in T /\ \A n \in T : Least(T) <= n
  <2>1. PICK m \in T : \A n \in T : m <= n BY <1>1, LeastNatural
  <2> QED BY <2>1 DEF Least
<1>2. ASSUME NEW m \in T, \A n \in T : m <= n PROVE Least(T) = m
  <2>1. Least(T) \in T /\ Least(T) <= m BY <1>1, <1>2
  <2>2. m <= Least(T) /\ m \in Nat /\ Least(T) \in Nat BY <2>1, <1>2
  <2> QED BY <2>1, <2>2
<1> QED BY <1>1, <1>2

\* g is the first file of the path, from q on, that has sector s.
FirstWith(S, q, s, g) ==
    /\ g \in S /\ q <= g /\ s \in Bitmap(files[g])
    /\ \A h \in S : q <= h /\ h < g => s \notin Bitmap(files[h])

(* A value read from the path is that of the first file that has the sector. *)
LEMMA BelowIs ==
  ASSUME NEW S \in SUBSET (1 .. NumDiffs), NEW q \in S, NEW s, NEW g, FirstWith(S, q, s, g)
  PROVE  Below(S, q, s) = files[g].data[s]
<1> DEFINE T == {f \in S : q <= f /\ s \in Bitmap(files[f])}
<1>0. \A f \in S : f \in Nat BY NamesAreNumbers
<1>1. T \in SUBSET Nat /\ g \in T /\ S \subseteq Nat BY <1>0 DEF FirstWith
<1>2. \A n \in T : g <= n BY <1>1 DEF FirstWith
<1>3. Least(T) = g BY <1>1, <1>2, LeastOf
<1> QED BY <1>3 DEF Below

(* There is such a file, for the head has all sectors. *)
LEMMA BelowFrom ==
  ASSUME NEW S, Path(S), NEW q \in S, NEW s \in Sectors
  PROVE  \E g \in S : FirstWith(S, q, s, g)
<1> DEFINE T == {f \in S : q <= f /\ s \in Bitmap(files[f])}
<1>0. S \in SUBSET (1 .. NumDiffs) BY DEF Path
<1>1. S \subseteq Nat /\ T \in SUBSET Nat
  <2>1. \A f \in S : f \in Nat BY <1>0, NamesAreNumbers
  <2> QED BY <2>1
<1>2. HeadVhd \in T
  <2>1. HeadVhd \in S /\ q <= HeadVhd BY <1>0, NamesAreNumbers DEF Path
  <2> QED BY <2>1 DEF Path, Bitmap
<1>3. PICK m \in T : \A n \in T : m <= n BY <1>1, <1>2, LeastNatural
<1>4. FirstWith(S, q, s, m)
  <2> SUFFICES ASSUME NEW h \in S, q <= h, h < m, s \in Bitmap(files[h]) PROVE FALSE
    BY <1>3 DEF FirstWith
  <2>1. m <= h /\ h \in Nat /\ m \in Nat BY <1>1, <1>3
  <2> QED BY <2>1
<1> QED BY <1>3, <1>4

(* Reading through parents that are a path. *)
LEMMA ReadFromPath ==
  ASSUME NEW S, Path(S), NEW v, OpenParentVHD(v) \in S, NEW s \in Sectors
  PROVE  ReadFrom(ParentsOf(v), s, FALSE) = Below(S, OpenParentVHD(v), s)
<1>0. S \in SUBSET (1 .. NumDiffs) BY DEF Path
<1>p. PICK P : P = ParentsOf(v) OBVIOUS
<1>q. PICK q : q = OpenParentVHD(v) OBVIOUS
<1> DEFINE hits == {i \in 1 .. Len(P) : FromFile(files[P[i]], s, FALSE)}
<1>1. Enumerates(P, S, q) BY <1>p, <1>q, ParentsEnumerate
<1>2. /\ Len(P) \in Nat /\ q \in S
      /\ \A i \in 1 .. Len(P) : P[i] \in S /\ P[i] \in Nat /\ q <= P[i]
      /\ \A i, j \in 1 .. Len(P) : i < j <=> P[i] < P[j]
      /\ \A f \in S : q <= f => \E i \in 1 .. Len(P) : P[i] = f
  <2>1. \A f \in 1 .. NumDiffs : f \in Nat BY NamesAreNumbers
  <2>2. Len(P) \in Nat \ {0} /\ q \in S
    BY <1>0, <1>1, EnumerationShape
  <2>3. \A i \in 1 .. Len(P) : P[i] \in S /\ P[i] \in 1 .. NumDiffs /\ q <= P[i]
    BY <1>0, <1>1, EnumerationShape
  <2>4. \A i, j \in 1 .. Len(P) : i < j <=> P[i] < P[j]
    BY <1>0, <1>1, EnumerationShape
  <2>5. ASSUME NEW f \in S, q <= f PROVE \E i \in 1 .. Len(P) : P[i] = f
    BY <1>0, <1>1, <2>5, EnumerationMeets
  <2> QED BY <2>1, <2>2, <2>3, <2>4, <2>5
<1>3. \A f : FromFile(files[f], s, FALSE) <=> s \in Bitmap(files[f])
  BY DEF FromFile, Bitmap
<1>4. PICK g \in S : FirstWith(S, q, s, g) BY <1>2, BelowFrom
<1>5. PICK m \in 1 .. Len(P) : P[m] = g BY <1>2, <1>4 DEF FirstWith
<1>6. m \in hits BY <1>3, <1>4, <1>5 DEF FirstWith
<1>7. \A j \in hits : m <= j
  <2> SUFFICES ASSUME NEW j \in hits, ~(m <= j) PROVE FALSE OBVIOUS
  <2>0. j \in 1 .. Len(P) /\ j < m BY <1>2
  <2>1. P[j] \in S /\ q <= P[j] /\ P[j] < g /\ s \in Bitmap(files[P[j]]) BY <2>0, <1>2, <1>3, <1>5
  <2> QED BY <2>1, <1>4 DEF FirstWith
<1>8. (CHOOSE i \in hits : \A j \in hits : i <= j) = m
  <2>1. hits \subseteq 1 .. Len(P) OBVIOUS
  <2>3. 1 .. Len(P) \subseteq Nat BY <1>2
  <2> HIDE DEF hits
  <2>2. Least(hits) = m BY <2>1, <2>3, <1>6, <1>7, LeastOf
  <2> QED BY <2>2 DEF Least
<1>9. ReadFrom(P, s, FALSE) = files[g].data[s] BY <1>5, <1>6, <1>8 DEF ReadFrom
<1>10. Below(S, q, s) = files[g].data[s] BY <1>0, <1>2, <1>4, BelowIs
<1> QED BY <1>9, <1>10, <1>p, <1>q

(* The disk that the top of a path is. *)
LEMMA ContentsOfPath ==
  ASSUME NEW S, Path(S), NEW v, OpenParentVHD(v) \in S, v.kind # "head"
  PROVE  /\ Contents(v, FALSE) = [s \in Sectors |-> IF s \in Bitmap(v) THEN v.data[s]
                                                   ELSE Below(S, OpenParentVHD(v), s)]
         /\ Complete(ParentsOf(v))
<1>1. \A s \in Sectors : FromFile(v, s, FALSE) <=> s \in Bitmap(v)
  BY DEF FromFile, Bitmap
<1>2. \A s \in Sectors : ReadFrom(ParentsOf(v), s, FALSE) = Below(S, OpenParentVHD(v), s)
  BY ReadFromPath
<1>3. Complete(ParentsOf(v))
  <2>1. Enumerates(ParentsOf(v), S, OpenParentVHD(v)) BY ParentsEnumerate
  <2> QED BY <2>1 DEF Complete, Enumerates, Path
<1> QED BY <1>1, <1>2, <1>3 DEF Contents

(* Nothing of a path changes with other files. *)
LEMMA PathFrame ==
  ASSUME NEW S, Path(S), \A f \in S : files'[f] = files[f]
  PROVE  Path(S)' /\ \A q \in S, s \in Sectors : Below(S, q, s)' = Below(S, q, s)
<1>0. S \in SUBSET (1 .. NumDiffs) BY DEF Path
<1>2. \A f \in S : files'[f] = files[f] OBVIOUS
<1>3. Path(S)'
  <2>1. HeadVhd \in S /\ files'[HeadVhd] = files[HeadVhd] BY <1>2 DEF Path
  <2>2. S \subseteq 1 .. NumDiffs BY DEF Path
  <2>3. ASSUME NEW f \in S \ {HeadVhd}
        PROVE  /\ files'[f].kind = "diff" /\ files'[f].uuid = f
               /\ \E g \in S : /\ Follows(S, f, g) /\ files'[f].parent = g
                               /\ \A i \in Locators : files'[f].locs[i] = g
    BY <1>2 DEF Path
  <2> QED BY <2>1, <2>2, <2>3 DEF Path
<1>4. ASSUME NEW q \in S, NEW s \in Sectors PROVE Below(S, q, s)' = Below(S, q, s)
  <2>1. PICK g \in S : FirstWith(S, q, s, g) BY BelowFrom
  <2> DEFINE T == {f \in S : q <= f /\ s \in Bitmap(files[f])}
             U == {f \in S : q <= f /\ s \in Bitmap(files'[f])}
  <2>2. T = U BY <1>2
  <2>3. Below(S, q, s) = files[Least(T)].data[s] BY DEF Below
  <2>4. Below(S, q, s)' = files'[Least(U)].data[s] BY DEF Below, Bitmap, Least
  <2>5. Least(T) \in S
    <3>1. T \in SUBSET Nat /\ T # {}
      <4>1. \A f \in S : f \in Nat BY <1>0, NamesAreNumbers
      <4> QED BY <4>1, <2>1 DEF FirstWith
    <3> HIDE DEF T
    <3>2. Least(T) \in T BY <3>1, LeastOf
    <3> QED BY <3>2 DEF T
  <2> QED BY <2>2, <2>3, <2>4, <2>5, <1>2
<1> QED BY <1>3, <1>4
-----------------------------------------------------------------------------
(***************************************************************************)
(* Files, objects and the parent of the tail                               *)
(***************************************************************************)

(* The fields of files and objects. *)
LEMMA Fields ==
  ASSUME TypeInv
  PROVE  /\ \A f \in Names :
               /\ files[f] \in Vhds /\ files[f].kind \in {"none", "bad", "diff", "head"}
               /\ files[f].uuid \in 0 .. NoUuid /\ files[f].parent \in 0 .. NoUuid
               /\ files[f].locs \in [Locators -> Names \cup {NoName}]
               /\ files[f].present \subseteq Blocks /\ files[f].bits \subseteq Sectors
               /\ files[f].data \in [Sectors -> Data]
         /\ \A f \in Objects :
               /\ vhd[f] \in VhdObjects /\ vhd[f].open \in BOOLEAN /\ vhd[f].flags \subseteq Flags
               /\ vhd[f].parent \in 0 .. NoUuid /\ vhd[f].present \subseteq Blocks
               /\ vhd[f].bits \subseteq Sectors /\ vhd[f].dirty \subseteq Blocks
               /\ vhd[f].dirty \subseteq vhd[f].present
         /\ Objects \subseteq Names /\ TailVhd \in Objects /\ Tmp \in Objects /\ TailVhd # Tmp
<1>1. Objects \subseteq Names /\ TailVhd \in Objects /\ Tmp \in Objects /\ TailVhd # Tmp
  BY NamesAreNumbers
<1> QED BY <1>1 DEF TypeInv, Vhds, VhdObjects

(* What an object shows of its file. *)
LEMMA ViewFields ==
  ASSUME TypeInv, NEW f \in Objects
  PROVE  /\ View(f).kind = files[f].kind /\ View(f).uuid = files[f].uuid
         /\ View(f).locs = files[f].locs /\ View(f).data = files[f].data
         /\ View(f).parent = vhd[f].parent /\ View(f).present = vhd[f].present
         /\ View(f).bits = vhd[f].bits
<1>1. files[f] \in Vhds BY Fields
<1> QED BY <1>1 DEF View, Vhds

(* The block of a sector. *)
LEMMA BlockOfSector ==
  ASSUME NEW s \in Sectors
  PROVE  SectorToBlockNumber(s) \in Blocks /\ SectorToBlockNumber(s) <= NumBlocks - 1
         /\ s \in SectorsOf(SectorToBlockNumber(s))
<1> DEFINE q == s \div SectorsPerBlock
<1>1. SectorsPerBlock \in Nat \ {0} /\ NumBlocks \in Nat \ {0} BY ChainAssumption
<1>2. NumBlocks * SectorsPerBlock \in Nat BY <1>1
<1>3. s \in Nat /\ s < NumBlocks * SectorsPerBlock BY <1>2 DEF Sectors
<1>4. q \in Nat /\ s % SectorsPerBlock \in Nat /\ s = q * SectorsPerBlock + (s % SectorsPerBlock)
  <2>1. PICK b : b = SectorsPerBlock OBVIOUS
  <2>2. b \in Nat \ {0} /\ s \in Nat BY <1>1, <1>3, <2>1
  <2>3. s \div b \in Nat /\ s % b \in 0 .. b - 1 /\ s = (s \div b) * b + (s % b)
    BY <2>2, Division
  <2>4. s % b \in Nat BY <2>2, <2>3
  <2> QED BY <2>1, <2>3, <2>4
<1>5. q * SectorsPerBlock \in Nat /\ q * SectorsPerBlock <= s BY <1>1, <1>4
<1>6. ~(NumBlocks < q)
  <2> SUFFICES ASSUME NumBlocks < q PROVE FALSE OBVIOUS
  <2> HIDE DEF q
  <2>1. NumBlocks * SectorsPerBlock + SectorsPerBlock <= q * SectorsPerBlock
    BY <1>1, <1>4, ProductOrder
  <2> QED BY <2>1, <1>1, <1>2, <1>3, <1>5
<1>7. q # NumBlocks BY <1>2, <1>3, <1>5
<1>8. q \in 0 .. NumBlocks - 1
  <2> HIDE DEF q
  <2> QED BY <1>1, <1>4, <1>6, <1>7
<1>9. SectorToBlockNumber(s) = q BY DEF SectorToBlockNumber
<1> HIDE DEF q
<1> QED BY <1>1, <1>8, <1>9 DEF Blocks, SectorsOf

(* The parent that is found for the tail, by its file or by its object. *)
LEMMA TailParent ==
  ASSUME NEW S, Path(S), TailInv(S), NEW v, v.locs = TailLocs, v.kind \in {"diff", "bad"},
         v.parent \in 0 .. NoUuid
  PROVE  /\ DoFindParentFile(v) # NoName <=> \E i \in Locators : TailLocs[i] # NoName
         /\ OpenParentVHD(v) # NoName =>
              v.kind = "diff" /\ Leads(v.parent) /\ OpenParentVHD(v) = v.parent
         /\ v.kind = "diff" /\ Leads(v.parent) =>
              v.parent \in S /\ OpenParentVHD(v) = v.parent /\ CanOpen(v)
<1> DEFINE found == {i \in Locators : v.locs[i] \in Names /\ files[v.locs[i]].kind # "none"}
           m == CHOOSE i \in found : \A j \in found : i <= j
           p == DoFindParentFile(v)
<1>0. /\ NoName \notin Names /\ NoName \notin 0 .. NoUuid /\ NoName \notin S
      /\ \A f \in S : f \in 1 .. NumDiffs /\ f \in Nat
  <2>1. S \subseteq 1 .. NumDiffs BY DEF Path
  <2> QED BY <2>1, NamesAreNumbers
<1>1. \A f \in S : CanOpen(files[f]) /\ f \in Names /\ files[f].kind # "none" /\ files[f].uuid = f
  BY PathOpens
<1>2. found = {i \in Locators : TailLocs[i] # NoName}
  BY <1>0, <1>1 DEF TailInv
<1>3. found \in SUBSET Nat BY NamesAreNumbers
<1>4. found = {} => p = NoName BY DEF DoFindParentFile
<1>5. ASSUME found # {}
      PROVE  m \in found /\ (\A j \in found : m <= j) /\ p = TailLocs[m]
  <2>1. PICK k \in found : \A n \in found : k <= n BY <1>3, <1>5, LeastNatural
  <2>2. m \in found /\ \A j \in found : m <= j BY <2>1
  <2>3. p = v.locs[m] BY <1>5 DEF DoFindParentFile
  <2> QED BY <2>2, <2>3
<1>6. ASSUME found # {} PROVE p \in S /\ Leads(p)
  <2>0. PICK k : k = m /\ k \in found /\ (\A j \in found : k <= j) /\ p = TailLocs[k]
    BY <1>5, <1>6
  <2>1. k \in Locators /\ TailLocs[k] # NoName BY <2>0, <1>2
  <2>2. TailLocs[k] \in S /\ TailLocs[k] \in Nat BY <2>1, <1>0 DEF TailInv
  <2>3. ASSUME NEW i \in Locators, TailLocs[i] # NoName PROVE TailLocs[i] <= TailLocs[k]
    <3>1. i \in found BY <2>3, <1>2
    <3> HIDE DEF found
    <3>2. k <= i /\ k \in Nat /\ i \in Nat BY <3>1, <2>0, <2>1, NamesAreNumbers
    <3>3. CASE k = i BY <3>3, <2>2
    <3>4. CASE k # i
      <4>1. k < i BY <3>2, <3>4
      <4> QED BY <4>1, <2>1, <2>3 DEF TailInv
    <3> QED BY <3>3, <3>4
  <2> HIDE DEF p
  <2> QED BY <2>0, <2>1, <2>2, <2>3 DEF Leads
<1> HIDE DEF found, m
<1>7. p # NoName <=> \E i \in Locators : TailLocs[i] # NoName
  BY <1>0, <1>2, <1>4, <1>6
<1>8. ASSUME OpenParentVHD(v) # NoName
      PROVE  v.kind = "diff" /\ Leads(v.parent) /\ OpenParentVHD(v) = v.parent
  <2>1. v.kind = "diff" /\ p # NoName /\ OpenParentVHD(v) = p /\ files[p].uuid = v.parent
    BY <1>8 DEF OpenParentVHD
  <2>2. p \in S /\ Leads(p) BY <2>1, <1>4, <1>6
  <2>3. v.parent = p BY <2>1, <2>2, <1>1
  <2> HIDE DEF p
  <2> QED BY <2>1, <2>2, <2>3
<1>9. ASSUME v.kind = "diff", Leads(v.parent)
      PROVE  v.parent \in S /\ OpenParentVHD(v) = v.parent /\ CanOpen(v)
  <2>1. PICK i \in Locators : TailLocs[i] = v.parent BY <1>9 DEF Leads
  <2>2. v.parent \in S BY <2>1, <1>0 DEF TailInv
  <2>3. i \in found BY <2>1, <2>2, <1>0, <1>2
  <2>4. p \in S /\ Leads(p) BY <2>3, <1>6
  <2>5. p <= v.parent /\ v.parent <= p
    <3>1. PICK j \in Locators : TailLocs[j] = p BY <2>4 DEF Leads
    <3> HIDE DEF p
    <3> QED BY <3>1, <2>1, <2>2, <2>4, <1>0, <1>9 DEF Leads
  <2>6. p = v.parent
    <3>1. p \in Nat /\ v.parent \in Nat BY <1>0, <2>2, <2>4
    <3> HIDE DEF p
    <3> QED BY <3>1, <2>5
  <2>7. OpenParentVHD(v) = p BY <2>4, <2>6, <1>0, <1>1, <1>9 DEF OpenParentVHD
  <2> QED BY <2>2, <2>4, <2>6, <2>7, <1>0, <1>9 DEF CanOpen
<1> QED BY <1>7, <1>8, <1>9

-----------------------------------------------------------------------------
(***************************************************************************)
(* What caches do to their file                                            *)
(***************************************************************************)

\* Only blocks, bits and data differ.
SameFrame(v, w) ==
    /\ w.kind = v.kind /\ w.uuid = v.uuid /\ w.parent = v.parent /\ w.locs = v.locs

\* The bitmaps of D and the table are written to f.
WroteBack(f, D, table) ==
    /\ files' \in [Names -> Vhds]
    /\ \A g \in Names \ {f} : files'[g] = files[g]
    /\ SameFrame(files[f], files'[f])
    /\ files'[f].data = files[f].data /\ files'[f].present = table
    /\ \A s \in Sectors : s \in files'[f].bits <=>
          IF SectorToBlockNumber(s) \in D THEN s \in vhd[f].bits ELSE s \in files[f].bits

\* The bitmaps of D are not dirty any more.
Cleaned(f, D) ==
    /\ vhd' \in [Objects -> VhdObjects]
    /\ \A g \in Objects \ {f} : vhd'[g] = vhd[g]
    /\ vhd'[f].open = vhd[f].open /\ vhd'[f].flags = vhd[f].flags
    /\ vhd'[f].parent = vhd[f].parent /\ vhd'[f].present = vhd[f].present
    /\ vhd'[f].bits = vhd[f].bits /\ vhd'[f].dirty = vhd[f].dirty \ D

(* One file changes. *)
LEMMA OneFile ==
  ASSUME TypeInv, NEW f \in Names, NEW w \in Vhds, files' = [files EXCEPT ![f] = w]
  PROVE  files' \in [Names -> Vhds] /\ files'[f] = w /\ \A g \in Names \ {f} : files'[g] = files[g]
BY DEF TypeInv

(* One object changes. *)
LEMMA OneObject ==
  ASSUME TypeInv, NEW f \in Objects, NEW o \in VhdObjects, vhd' = [vhd EXCEPT ![f] = o]
  PROVE  /\ vhd' \in [Objects -> VhdObjects] /\ vhd'[f] = o
         /\ \A g \in Objects \ {f} : vhd'[g] = vhd[g]
BY DEF TypeInv

(* Writing back the blocks of D and the table changes nothing else of the file. *)
LEMMA WritesBack ==
  ASSUME TypeInv, NEW f \in Objects, NEW D, NEW table \in SUBSET Blocks,
         files' = [files EXCEPT ![f] = [Written(f, D) EXCEPT !.present = table]]
  PROVE  WroteBack(f, D, table)
<1> DEFINE B == {s \in Sectors : IF SectorToBlockNumber(s) \in D
                                 THEN s \in vhd[f].bits ELSE s \in files[f].bits}
<1>1. files[f] \in Vhds /\ f \in Names BY Fields
<1>2. PICK b : b = B OBVIOUS
<1>3. b \in SUBSET Sectors /\ \A s \in Sectors : s \in b <=>
          IF SectorToBlockNumber(s) \in D THEN s \in vhd[f].bits ELSE s \in files[f].bits
  BY <1>2
<1>4. Written(f, D) = [files[f] EXCEPT !.present = vhd[f].present, !.bits = b]
  BY <1>1, <1>2 DEF Written, Vhds
<1> HIDE DEF B
<1>5. PICK w : w = [Written(f, D) EXCEPT !.present = table] OBVIOUS
<1>6. w \in Vhds /\ SameFrame(files[f], w) /\ w.data = files[f].data /\ w.present = table /\ w.bits = b
  BY <1>1, <1>3, <1>4, <1>5 DEF Vhds, SameFrame
<1>7. files' \in [Names -> Vhds] /\ files'[f] = w /\ \A g \in Names \ {f} : files'[g] = files[g]
  BY <1>1, <1>5, <1>6, OneFile
<1> QED BY <1>3, <1>6, <1>7 DEF WroteBack

(* What is written is a file. *)
LEMMA WrittenType ==
  ASSUME TypeInv, NEW f \in Objects, NEW D
  PROVE  Written(f, D) \in Vhds
<1>1. files[f] \in Vhds /\ vhd[f].present \in SUBSET Blocks BY Fields
<1>2. PICK b \in SUBSET Sectors : b = {s \in Sectors : IF SectorToBlockNumber(s) \in D
                                 THEN s \in vhd[f].bits ELSE s \in files[f].bits}
  OBVIOUS
<1>3. Written(f, D) = [files[f] EXCEPT !.present = vhd[f].present, !.bits = b]
  BY <1>1, <1>2 DEF Written, Vhds
<1> QED BY <1>1, <1>3 DEF Vhds

(* Marking the blocks of D clean changes nothing else of the object. *)
LEMMA Cleans ==
  ASSUME TypeInv, NEW f \in Objects, NEW D, vhd' = [vhd EXCEPT ![f].dirty = @ \ D]
  PROVE  Cleaned(f, D)
<1>1. vhd[f] \in VhdObjects BY Fields
<1>2. PICK o : o = [vhd[f] EXCEPT !.dirty = @ \ D] OBVIOUS
<1>3. /\ o \in VhdObjects /\ o.open = vhd[f].open /\ o.flags = vhd[f].flags
      /\ o.parent = vhd[f].parent /\ o.present = vhd[f].present
      /\ o.bits = vhd[f].bits /\ o.dirty = vhd[f].dirty \ D
  BY <1>1, <1>2 DEF VhdObjects
<1>4. vhd' = [vhd EXCEPT ![f] = o] BY <1>2
<1> QED BY <1>3, <1>4, OneObject DEF Cleaned

(* Flushing, with success. *)
LEMMA FlushesOk ==
  ASSUME TypeInv, NEW f \in Objects, FlushOk(f)
  PROVE  WroteBack(f, vhd[f].dirty, vhd[f].present) /\ Cleaned(f, vhd[f].dirty)
<1>1. files[f] \in Vhds /\ f \in Names /\ vhd[f].present \in SUBSET Blocks BY Fields
<1>2. Written(f, vhd[f].dirty)
        = [Written(f, vhd[f].dirty) EXCEPT !.present = vhd[f].present]
  BY <1>1 DEF Written, Vhds
<1>3. WroteBack(f, vhd[f].dirty, vhd[f].present)
  BY <1>1, <1>2, WritesBack DEF FlushOk
<1>4. vhd' = [vhd EXCEPT ![f].dirty = @ \ vhd[f].dirty]
  BY DEF FlushOk
<1>5. Cleaned(f, vhd[f].dirty) BY <1>4, Cleans
<1> QED BY <1>3, <1>5

(* Flushing, as far as it goes, ... *)
LEMMA FlushesPartly ==
  ASSUME TypeInv, NEW f \in Objects, FlushFails(f)
  PROVE  \E D \in SUBSET vhd[f].dirty, table \in {vhd[f].present, files[f].present} :
            WroteBack(f, D, table) /\ Cleaned(f, D)
<1>1. PICK D \in SUBSET vhd[f].dirty, table \in {vhd[f].present, files[f].present} :
        /\ files' = [files EXCEPT ![f] = [Written(f, D) EXCEPT !.present = table]]
        /\ vhd' = [vhd EXCEPT ![f].dirty = @ \ D]
  BY DEF FlushFails
<1>2. table \in SUBSET Blocks BY <1>1, Fields
<1> QED BY <1>1, <1>2, WritesBack, Cleans

(* ... and writing pages back to make place. *)
LEMMA Evicts ==
  ASSUME TypeInv, NEW f \in Objects, NEW b, EvictBut(f, b)
  PROVE  \E D \in SUBSET (vhd[f].dirty \ {b}) :
            WroteBack(f, D, files[f].present) /\ Cleaned(f, D)
<1>1. PICK D \in SUBSET (vhd[f].dirty \ {b}) :
        /\ files' = [files EXCEPT ![f] = [Written(f, D) EXCEPT !.present = files[f].present]]
        /\ vhd' = [vhd EXCEPT ![f].dirty = @ \ D]
  BY DEF EvictBut
<1>2. files[f].present \in SUBSET Blocks BY Fields
<1> QED BY <1>1, <1>2, WritesBack, Cleans

(* A process that dies in closing has flushed a part. *)
LEMMA DiesClosing ==
  ASSUME TypeInv, NEW f \in Objects, CloseDies(f)
  PROVE  /\ \E D \in SUBSET vhd[f].dirty, table \in {vhd[f].present, files[f].present} :
              WroteBack(f, D, table) /\ (D # vhd[f].dirty \/ table # vhd[f].present)
         /\ handle' = FALSE /\ vhd' = [g \in Objects |-> Closed]
         /\ call' = NoCall /\ reply' = "died"
<1>1. PICK D \in SUBSET vhd[f].dirty, table \in {vhd[f].present, files[f].present} :
        /\ files' = [files EXCEPT ![f] = [Written(f, D) EXCEPT !.present = table]]
        /\ D # vhd[f].dirty \/ table # vhd[f].present
  BY DEF CloseDies
<1>2. table \in SUBSET Blocks BY <1>1, Fields
<1>3. WroteBack(f, D, table) BY <1>1, <1>2, WritesBack
<1> QED BY <1>1, <1>3 DEF CloseDies, Return

-----------------------------------------------------------------------------
(***************************************************************************)
(* Calls                                                                   *)
(***************************************************************************)

NamesFrom(P, m, n) == {P[i] : i \in m .. n}

(* The files a stretch of an enumeration names. *)
LEMMA Stretch ==
  ASSUME NEW S \in SUBSET (1 .. NumDiffs), NEW q, NEW P, Enumerates(P, S, q),
         NEW m \in 1 .. Len(P) + 1, NEW n \in 0 .. Len(P), NEW Q, Q = SubSeq(P, m, n)
  PROVE  /\ Q \in Seq(1 .. NumDiffs)
         /\ NamesIn(Q) = NamesFrom(P, m, n)
<1>1. /\ P \in Seq(S) /\ Len(P) \in Nat
      /\ \A i \in 1 .. Len(P) : P[i] \in S /\ P[i] \in 1 .. NumDiffs
  BY EnumerationShape
<1>2. \A i \in m .. n : P[i] \in 1 .. NumDiffs BY <1>1
<1>3. /\ Q \in Seq(1 .. NumDiffs) /\ Len(Q) = IF m <= n THEN n - m + 1 ELSE 0
      /\ \A i \in 1 .. n - m + 1 : Q[i] = P[m + i - 1]
  BY <1>1, <1>2, SubSeqProperties
<1>4. ASSUME NEW i \in 1 .. Len(Q) PROVE \E j \in m .. n : Q[i] = P[j]
  <2>1. m + i - 1 \in m .. n /\ i \in 1 .. n - m + 1 BY <1>1, <1>3
  <2> QED BY <2>1, <1>3
<1>5. ASSUME NEW j \in m .. n PROVE \E i \in 1 .. Len(Q) : Q[i] = P[j]
  <2>1. j - m + 1 \in 1 .. n - m + 1 /\ m + (j - m + 1) - 1 = j /\ j - m + 1 \in 1 .. Len(Q)
    BY <1>1, <1>3
  <2>2. Q[j - m + 1] = P[m + (j - m + 1) - 1] BY <2>1, <1>3
  <2> QED BY <2>1, <2>2
<1>6. ASSUME NEW f, f \in NamesIn(Q) PROVE \E j \in m .. n : P[j] = f
  <2>1. PICK i \in 1 .. Len(Q) : f = Q[i] BY <1>6 DEF NamesIn
  <2> QED BY <2>1, <1>4
<1>7. ASSUME NEW f, NEW j \in m .. n, P[j] = f PROVE f \in NamesIn(Q)
  <2>1. PICK i \in 1 .. Len(Q) : Q[i] = P[j] BY <1>5
  <2> QED BY <2>1, <1>7 DEF NamesIn
<1>8. NamesIn(Q) = NamesFrom(P, m, n) BY <1>6, <1>7, Zenon DEF NamesFrom
<1> QED BY <1>3, <1>8

(* The tail's parents, as its object sees them. *)
LEMMA TailEnumerated ==
  \A T \in SUBSET (1 .. NumDiffs) :
     /\ TypeInv /\ Path(T) /\ TailInv(T)
     /\ files[TailVhd].kind = "diff" /\ Leads(vhd[TailVhd].parent)
     => Enumerates(ParentsOf(View(TailVhd)), T, vhd[TailVhd].parent)
<1> SUFFICES ASSUME NEW S \in SUBSET (1 .. NumDiffs), TypeInv, Path(S), TailInv(S),
                    files[TailVhd].kind = "diff", Leads(vhd[TailVhd].parent)
             PROVE  Enumerates(ParentsOf(View(TailVhd)), S, vhd[TailVhd].parent)
  OBVIOUS
<1>1. /\ View(TailVhd).kind = "diff" /\ View(TailVhd).locs = TailLocs
      /\ View(TailVhd).parent = vhd[TailVhd].parent /\ vhd[TailVhd].parent \in 0 .. NoUuid
  BY ViewFields, Fields DEF TailLocs
<1>2. vhd[TailVhd].parent \in S /\ OpenParentVHD(View(TailVhd)) = vhd[TailVhd].parent
  BY <1>1, TailParent
<1> QED BY <1>2, ParentsEnumerate

(* So will they be after any step. *)
LEMMA TailEnumeratedNext ==
  (\A T \in SUBSET (1 .. NumDiffs) :
     /\ TypeInv /\ Path(T) /\ TailInv(T)
     /\ files[TailVhd].kind = "diff" /\ Leads(vhd[TailVhd].parent)
     => Enumerates(ParentsOf(View(TailVhd)), T, vhd[TailVhd].parent))'
BY TailEnumerated, PTL

\* The files of S from f up to before g.
Between(S, f, g) == {h \in S : f <= h /\ h < g}

\* The calls that VHD_CoalesceChain starts.
\* p is the file of S that is n files further up than q.
Ahead(S, q, n, p) == \E P : Enumerates(P, S, q) /\ n + 1 \in 1 .. Len(P) /\ P[n + 1] = p

StartsIntoTail(S) ==
    /\ call' \in Calls
    /\ call'.op = "intoTail" /\ call'.pc = "block" /\ call'.to = TailVhd /\ call'.block = 0
    /\ call'.todo = {} /\ call'.loc = 1
    /\ vhd[TailVhd].parent \in S /\ call'.parent \in S /\ vhd[TailVhd].parent < call'.parent
    /\ NamesIn(call'.strays)
         = Between(S, vhd[TailVhd].parent, call'.parent)
    /\ Ahead(S, vhd[TailVhd].parent, call'.len, call'.parent)

StartsSafely(S) ==
    /\ call' \in Calls
    /\ call'.op = "safely" /\ call'.pc = "create" /\ call'.to = Tmp /\ call'.block = 0
    /\ call'.todo = {} /\ call'.loc = 1
    /\ \E P : /\ Enumerates(P, S, vhd[TailVhd].parent)
              /\ call'.idx >= 1 /\ call'.len >= 2 /\ call'.idx + call'.len - 1 <= Len(P)
              /\ NamesIn(call'.strays)
                   = {f \in S : P[call'.idx] < f /\ f <= P[call'.idx + call'.len - 1]}

(* VHD_CoalesceChain starts one of them, or returns. *)
LEMMA CoalesceChainStarts ==
  ASSUME TypeInv, NEW S, Struct(S), NEW args \in Args, CoalesceChain(args)
  PROVE  /\ UNCHANGED <<files, handle, vhd>> /\ reply' \in {"none", "ok", "error"}
         /\ call = NoCall /\ handle /\ vhd[TailVhd].open
         /\ \/ call' = call
            \/ /\ files[TailVhd].kind = "diff" /\ Leads(vhd[TailVhd].parent)
               /\ \/ StartsIntoTail(S)
                  \/ StartsSafely(S)
<1>0. /\ args[1] \in Nat /\ args[2] \in Nat /\ S \in SUBSET (1 .. NumDiffs)
      /\ NumDiffs \in Nat /\ NoName = NumDiffs + 2 /\ 0 \in Blocks /\ 1 \in Locators
      /\ TailVhd \in Objects /\ Tmp \in Objects /\ HeadVhd = NumDiffs /\ Names = 0 .. NumDiffs + 1
  BY CallsAssumption, ChainAssumption, NamesAreNumbers, Fields DEF Struct, Path, Blocks
<1> DEFINE Par == ParentsOf(View(TailVhd))
           idx == args[2]
           needed(n) == IF idx = 0 THEN n + 1 ELSE idx + n - 1
<1>1. PICK P : P = Par OBVIOUS
<1>2. PICK n : n = ChainLength(args[1], P) OBVIOUS
<1>3. /\ UNCHANGED <<files, handle, vhd>> /\ reply' \in {"none", "ok", "error"}
      /\ call = NoCall /\ handle /\ vhd[TailVhd].open
  BY DEF CoalesceChain, Ready, Refuse
<1>4. \/ call' = call
      \/ /\ args[1] = 0 => Complete(P)
         /\ ~(n < (IF idx = 0 THEN 1 ELSE 2)) /\ Len(P) >= needed(n)
         /\ call' = IF idx > 0
                    THEN [NoCall EXCEPT !.op = "safely", !.pc = "create", !.len = n, !.idx = idx,
                                        !.to = Tmp, !.strays = Strays(n, idx, P)]
                    ELSE [NoCall EXCEPT !.op = "intoTail", !.pc = "block", !.len = n,
                                        !.strays = Strays(n, 0, P), !.parent = NewParent(n, 0, P)]
  BY <1>1, <1>2 DEF CoalesceChain, Refuse
<1>5. ASSUME call' # call
      PROVE  /\ files[TailVhd].kind = "diff" /\ Leads(vhd[TailVhd].parent)
             /\ StartsIntoTail(S) \/ StartsSafely(S)
  <2>1. /\ args[1] = 0 => Complete(P)
        /\ ~(n < (IF idx = 0 THEN 1 ELSE 2)) /\ Len(P) >= needed(n)
    BY <1>4, <1>5
  <2>2. P \in Seq(Names) /\ Len(P) \in Nat BY <1>1, ParentsShape
  <2>3. n \in Nat /\ n >= (IF idx = 0 THEN 1 ELSE 2)
    <3>1. CASE args[1] = 0
      <4>1. n = Len(P) - 1 /\ P # << >> BY <3>1, <1>2, <2>1 DEF ChainLength, Complete
      <4> QED BY <4>1, <2>1, <2>2
    <3>2. CASE args[1] # 0
      <4>1. n = args[1] BY <3>2, <1>2 DEF ChainLength
      <4> QED BY <4>1, <2>1, <1>0
    <3> QED BY <3>1, <3>2
  <2>4. P # << >> BY <2>1, <2>2, <2>3, <1>0
  <2>5. /\ View(TailVhd).kind = files[TailVhd].kind /\ View(TailVhd).locs = TailLocs
        /\ View(TailVhd).parent = vhd[TailVhd].parent /\ vhd[TailVhd].parent \in 0 .. NoUuid
    BY ViewFields, Fields DEF TailLocs
  <2>6. OpenParentVHD(View(TailVhd)) # NoName BY <2>4, <1>1, ParentsShape
  <2>7. /\ files[TailVhd].kind = "diff" /\ Leads(vhd[TailVhd].parent)
        /\ vhd[TailVhd].parent \in S
    BY <2>5, <2>6, TailParent DEF Struct, TailInv
  <2>q. PICK q : q = vhd[TailVhd].parent OBVIOUS
  <2>8. Enumerates(P, S, q)
    BY <2>7, <2>q, <1>1, <1>0, TailEnumerated DEF Struct
  <2>9. /\ P \in Seq(S) /\ Len(P) \in Nat \ {0} /\ q \in S
        /\ \A i \in 1 .. Len(P) : P[i] \in S /\ P[i] \in 1 .. NumDiffs /\ q <= P[i]
        /\ \A i, j \in 1 .. Len(P) : i < j <=> P[i] < P[j]
    BY <1>0, <2>8, EnumerationShape
  <2>10. ASSUME NEW f \in S, q <= f PROVE \E i \in 1 .. Len(P) : P[i] = f
    BY <1>0, <2>8, <2>10, EnumerationMeets
  <2>11. CASE idx = 0
    <3>1. n + 1 <= Len(P) /\ n >= 1 /\ n + 1 \in 1 .. Len(P) /\ n \in 0 .. Len(P)
      BY <2>1, <2>3, <2>9, <2>11
    <3>2. PICK Q : Q = SubSeq(P, 1, n) OBVIOUS
    <3>3. call' = [NoCall EXCEPT !.op = "intoTail", !.pc = "block", !.len = n,
                                 !.strays = Q, !.parent = P[n + 1]]
      BY <1>4, <1>5, <2>11, <3>2, <2>3 DEF Strays, NewParent
    <3>4. Q \in Seq(1 .. NumDiffs) /\ \A f : f \in NamesIn(Q) <=> \E i \in 1 .. n : P[i] = f
      <4>1. 1 \in 1 .. Len(P) + 1 BY <2>9
      <4>2. S \in SUBSET (1 .. NumDiffs) /\ n \in 0 .. Len(P) BY <1>0, <3>1
      <4>3. PICK a, b : a = 1 /\ b = n OBVIOUS
      <4>4. Q = SubSeq(P, a, b) /\ a \in 1 .. Len(P) + 1 /\ b \in 0 .. Len(P) BY <3>2, <4>1, <4>2, <4>3
      <4>5. Q \in Seq(1 .. NumDiffs) BY <2>8, <4>2, <4>4, Stretch
      <4>6. NamesIn(Q) = NamesFrom(P, a, b) BY <2>8, <4>2, <4>4, Stretch
      <4>7. \A f : f \in NamesIn(Q) <=> \E i \in a .. b : P[i] = f
        BY <4>6, Zenon DEF NamesFrom
      <4> QED BY <4>3, <4>5, <4>7
    <3>5. NamesIn(Q) = Between(S, q, P[n + 1])
      <4>1. ASSUME NEW i \in 1 .. n PROVE P[i] \in Between(S, q, P[n + 1])
        <5>1. i \in 1 .. Len(P) /\ i < n + 1 BY <3>1, <2>3
        <5> QED BY <5>1, <3>1, <2>9 DEF Between
      <4>2. ASSUME NEW f \in Between(S, q, P[n + 1]) PROVE \E i \in 1 .. n : P[i] = f
        <5>1. f \in S /\ q <= f /\ f < P[n + 1] BY <4>2 DEF Between
        <5>2. PICK i \in 1 .. Len(P) : P[i] = f BY <5>1, <2>10
        <5>3. i < n + 1 BY <5>1, <5>2, <3>1, <2>9
        <5>4. i \in 1 .. n BY <5>3, <2>3
        <5> QED BY <5>2, <5>4
      <4> QED BY <4>1, <4>2, <3>4
    <3>6. q < P[n + 1] /\ P[n + 1] \in S /\ P[n + 1] \in Names
      <4>1. P[1] = q /\ 1 \in 1 .. Len(P) /\ 1 < n + 1 BY <2>8, <2>9, <3>1 DEF Enumerates
      <4>2. P[n + 1] \in 1 .. NumDiffs BY <3>1, <2>9
      <4> QED BY <4>1, <4>2, <3>1, <2>9, <1>0
    <3>7. /\ call'.op = "intoTail" /\ call'.pc = "block" /\ call'.to = TailVhd /\ call'.block = 0
          /\ call'.todo = {} /\ call'.loc = 1 /\ call'.len = n /\ call'.idx = 0
          /\ call'.parent = P[n + 1] /\ call'.strays = Q
      BY <3>3 DEF NoCall
    <3>8. call' \in Calls
      BY <3>3, <3>4, <3>6, <2>3, <1>0 DEF NoCall, Calls, SafelyPcs, TmpPcs, CopyPcs
    <3>9. Ahead(S, q, n, P[n + 1]) BY <2>8, <3>1 DEF Ahead
    <3>10. StartsIntoTail(S)
      BY <3>4, <3>5, <3>6, <3>7, <3>8, <3>9, <2>7, <2>q DEF StartsIntoTail
    <3> QED BY <3>10, <2>7
  <2>12. CASE idx # 0
    <3>1. /\ idx + n - 1 <= Len(P) /\ n >= 2 /\ idx \in 1 .. Len(P) /\ idx > 0
          /\ idx + n - 1 \in 1 .. Len(P) /\ idx + 1 \in 1 .. Len(P) + 1 /\ idx < idx + n - 1
      BY <2>1, <2>3, <2>9, <2>12, <1>0
    <3>2. PICK Q : Q = SubSeq(P, idx + 1, idx + n - 1) OBVIOUS
    <3>3. call' = [NoCall EXCEPT !.op = "safely", !.pc = "create", !.len = n, !.idx = idx,
                                 !.to = Tmp, !.strays = Q]
      BY <1>4, <1>5, <2>12, <3>1, <3>2 DEF Strays
    <3>4. Q \in Seq(1 .. NumDiffs)
          /\ \A f : f \in NamesIn(Q) <=> \E i \in idx + 1 .. idx + n - 1 : P[i] = f
      <4>1. idx + n - 1 \in 0 .. Len(P) BY <3>1, <2>3, <1>0
      <4>2. S \in SUBSET (1 .. NumDiffs) /\ idx + 1 \in 1 .. Len(P) + 1 BY <1>0, <3>1
      <4>3. PICK a, b : a = idx + 1 /\ b = idx + n - 1 OBVIOUS
      <4>4. Q = SubSeq(P, a, b) /\ a \in 1 .. Len(P) + 1 /\ b \in 0 .. Len(P) BY <3>2, <4>1, <4>2, <4>3
      <4>5. Q \in Seq(1 .. NumDiffs) BY <2>8, <4>2, <4>4, Stretch
      <4>6. NamesIn(Q) = NamesFrom(P, a, b) BY <2>8, <4>2, <4>4, Stretch
      <4>7. \A f : f \in NamesIn(Q) <=> \E i \in a .. b : P[i] = f
        BY <4>6, Zenon DEF NamesFrom
      <4> QED BY <4>3, <4>5, <4>7
    <3>5. NamesIn(Q) = {f \in S : P[idx] < f /\ f <= P[idx + n - 1]}
      <4>1. ASSUME NEW i \in idx + 1 .. idx + n - 1
            PROVE  P[i] \in S /\ P[idx] < P[i] /\ P[i] <= P[idx + n - 1]
        <5>1. i \in 1 .. Len(P) /\ idx < i /\ (i < idx + n - 1 \/ i = idx + n - 1)
          BY <3>1, <2>3, <2>9, <1>0
        <5>2. P[i] \in 1 .. NumDiffs BY <5>1, <2>9
        <5> QED BY <5>1, <5>2, <3>1, <2>9, <1>0
      <4>2. ASSUME NEW f \in S, P[idx] < f, f <= P[idx + n - 1]
            PROVE  \E i \in idx + 1 .. idx + n - 1 : P[i] = f
        <5>1. q <= P[idx] /\ q \in Nat /\ f \in Nat /\ P[idx] \in Nat /\ P[idx + n - 1] \in Nat
          BY <3>1, <2>9, <1>0
        <5>2. PICK i \in 1 .. Len(P) : P[i] = f BY <5>1, <4>2, <2>10
        <5>3. idx < i BY <5>2, <4>2, <3>1, <2>9
        <5>4. ~(idx + n - 1 < i)
          <6>1. ~(P[idx + n - 1] < P[i]) BY <5>1, <5>2, <4>2
          <6> QED BY <6>1, <3>1, <2>9
        <5>5. i \in idx + 1 .. idx + n - 1 BY <5>3, <5>4, <3>1, <2>3, <1>0
        <5> QED BY <5>2, <5>5
      <4> QED BY <4>1, <4>2, <3>4
    <3>6. /\ call'.op = "safely" /\ call'.pc = "create" /\ call'.to = Tmp /\ call'.block = 0
          /\ call'.todo = {} /\ call'.loc = 1 /\ call'.len = n /\ call'.idx = idx
          /\ call'.strays = Q
      BY <3>3 DEF NoCall
    <3>7. call' \in Calls
      BY <3>3, <3>4, <2>3, <1>0 DEF NoCall, Calls, SafelyPcs
    <3>8. StartsSafely(S)
      <4> HIDE DEF idx
      <4>1. call'.idx >= 1 /\ call'.len >= 2 /\ call'.idx + call'.len - 1 <= Len(P)
        BY <3>1, <3>6
      <4>2. NamesIn(call'.strays)
              = {f \in S : P[call'.idx] < f /\ f <= P[call'.idx + call'.len - 1]}
        BY <3>4, <3>5, <3>6
      <4>3. Enumerates(P, S, vhd[TailVhd].parent) BY <2>8, <2>q
      <4> QED BY <3>6, <3>7, <4>1, <4>2, <4>3 DEF StartsSafely
    <3> QED BY <3>8, <2>7
  <2> QED BY <2>11, <2>12
<1> QED BY <1>3, <1>5

-----------------------------------------------------------------------------
(***************************************************************************)
(* Types                                                                   *)
(***************************************************************************)

(* What is read from parents is data. *)
LEMMA ReadFromData ==
  ASSUME TypeInv, NEW v, NEW s \in Sectors, NEW pure
  PROVE  ReadFrom(ParentsOf(v), s, pure) \in Data
<1>p. PICK P : P = ParentsOf(v) OBVIOUS
<1> DEFINE hits == {i \in 1 .. Len(P) : FromFile(files[P[i]], s, pure)}
<1>1. P \in Seq(Names) BY <1>p, ParentsShape
<1>2. Unreadable \in Data BY NamesAreNumbers DEF Unreadable, Data
<1>3. ASSUME hits # {}
      PROVE  (CHOOSE i \in hits : \A j \in hits : i <= j) \in 1 .. Len(P)
  <2>1. hits \in SUBSET Nat BY <1>1
  <2>2. PICK m \in hits : \A n \in hits : m <= n BY <1>3, <2>1, LeastNatural
  <2>3. (CHOOSE i \in hits : \A j \in hits : i <= j) \in hits BY <2>2
  <2> QED BY <2>3
<1>4. \A i \in 1 .. Len(P) : files[P[i]].data \in [Sectors -> Data]
  BY <1>1, Fields
<1>5. ReadFrom(P, s, pure) \in Data
  BY <1>2, <1>3, <1>4 DEF ReadFrom
<1> QED BY <1>5, <1>p

\* Sectors that are missing before sector t in what parent i reads.
Missing(parents, R, t, i, pure) ==
    {u \in R : u < t /\ \E w \in u .. t : FromFile(files[parents[i]], w, pure)}

\* The function place of Places.
IsPlace(parents, R, s, pure, place) ==
    place = [i \in 1 .. Len(parents) |->
                IF i = 1 THEN s
                ELSE LET t == place[i - 1]
                     IN  t - Cardinality({u \in R : u < t /\
                                \E w \in u .. t : FromFile(files[parents[i - 1]], w, pure)})]

(* A sector is looked for at a sector that is not above it. *)
LEMMA PlaceStays ==
  ASSUME NEW parents, NEW R \in SUBSET Nat, NEW t \in Nat, NEW i, NEW pure
  PROVE  t - Cardinality(Missing(parents, R, t, i, pure)) \in 0 .. t
<1> DEFINE T == Missing(parents, R, t, i, pure)
<1>1. T \in SUBSET (0 .. t - 1)
  <2>1. \A u \in T : u \in R /\ u < t BY DEF Missing
  <2> SUFFICES ASSUME NEW u \in T PROVE u \in 0 .. t - 1 OBVIOUS
  <2> HIDE DEF T
  <2>2. u \in R /\ u < t BY <2>1
  <2>3. u \in Nat BY <2>2
  <2> QED BY <2>2, <2>3
<1> HIDE DEF T
<1>2. IsFiniteSet(0 .. t - 1) /\ Cardinality(0 .. t - 1) = t
  <2>1. IsFiniteSet(0 .. t - 1) /\ Cardinality(0 .. t - 1) = IF 0 > t - 1 THEN 0 ELSE t - 1 - 0 + 1
    BY FS_Interval
  <2> QED BY <2>1
<1>3. IsFiniteSet(T) /\ Cardinality(T) <= t BY <1>1, <1>2, FS_Subset
<1>4. Cardinality(T) \in Nat BY <1>3, FS_CardinalityType
<1>5. t - Cardinality(T) \in 0 .. t BY <1>3, <1>4
<1> QED BY <1>5 DEF T

(* The places at which a sector is looked for are defined. *)
LEMMA PlaceExists ==
  ASSUME NEW parents, Len(parents) \in Nat, NEW R \in SUBSET Nat, NEW s \in Nat, NEW pure
  PROVE  \E place \in [1 .. Len(parents) -> 0 .. s] : IsPlace(parents, R, s, pure, place)
<1> DEFINE Down(i, t) == t - Cardinality(Missing(parents, R, t, i, pure))
           Good(k, p) == /\ p \in [1 .. k -> 0 .. s]
                         /\ \A i \in 1 .. k : p[i] = IF i = 1 THEN s ELSE Down(i - 1, p[i - 1])
           I == {k \in Nat : \E p : Good(k, p)}
<1>0. \A i : \A t \in 0 .. s : Down(i, t) \in 0 .. s
  <2> SUFFICES ASSUME NEW i, NEW t \in 0 .. s PROVE Down(i, t) \in 0 .. s OBVIOUS
  <2>1. t \in Nat OBVIOUS
  <2>2. Down(i, t) \in 0 .. t BY <2>1, PlaceStays
  <2> HIDE DEF Down
  <2> QED BY <2>1, <2>2
<1> HIDE DEF Down
<1>1. 0 \in I
  <2> DEFINE p == [i \in 1 .. 0 |-> 0]
  <2>1. Good(0, p) OBVIOUS
  <2> QED BY <2>1
<1>2. ASSUME NEW k \in Nat, k \in I PROVE k + 1 \in I
  <2>1. PICK p : Good(k, p) BY <1>2
  <2> DEFINE q == [i \in 1 .. k + 1 |-> IF i = k + 1 THEN IF k = 0 THEN s ELSE Down(k, p[k])
                                       ELSE p[i]]
  <2>2. q \in [1 .. k + 1 -> 0 .. s]
    <3> SUFFICES ASSUME NEW i \in 1 .. k + 1 PROVE q[i] \in 0 .. s OBVIOUS
    <3>1. k # 0 => Down(k, p[k]) \in 0 .. s
      <4>1. k # 0 => p[k] \in 0 .. s BY <2>1
      <4> QED BY <4>1, <1>0
    <3>2. s \in 0 .. s OBVIOUS
    <3>3. i # k + 1 => p[i] \in 0 .. s BY <2>1
    <3> QED BY <3>1, <3>2, <3>3
  <2>3. ASSUME NEW i \in 1 .. k + 1 PROVE q[i] = IF i = 1 THEN s ELSE Down(i - 1, q[i - 1])
    <3>1. CASE i = k + 1
      <4>1. q[i] = IF k = 0 THEN s ELSE Down(k, p[k]) BY <3>1
      <4>2. k # 0 => q[k] = p[k] /\ i - 1 = k BY <3>1
      <4>3. k = 0 <=> i = 1 BY <3>1
      <4> QED BY <4>1, <4>2, <4>3
    <3>2. CASE i # k + 1
      <4>1. i \in 1 .. k /\ q[i] = p[i] BY <3>2
      <4>2. i # 1 => i - 1 \in 1 .. k /\ q[i - 1] = p[i - 1] BY <4>1
      <4> QED BY <4>1, <4>2, <2>1
    <3> QED BY <3>1, <3>2
  <2>4. Good(k + 1, q)
    <3> HIDE DEF q
    <3> QED BY <2>2, <2>3
  <2> HIDE DEF Good, q
  <2> QED BY <2>4
<1>3. Len(parents) \in I
  <2> HIDE DEF I
  <2> QED BY <1>1, <1>2, SetInduction
<1>4. PICK p : Good(Len(parents), p) BY <1>3
<1>5. IsPlace(parents, R, s, pure, p) BY <1>4 DEF IsPlace, Down, Missing
<1> QED BY <1>4, <1>5

(* What Places returns. *)
LEMMA PlacesShape ==
  ASSUME NEW parents, Len(parents) \in Nat, NEW R \in SUBSET Nat, NEW s \in Nat, NEW pure
  PROVE  LET place == Places(parents, R, s, pure)
         IN  /\ \A i \in 1 .. Len(parents) : place[i] \in 0 .. s
             /\ Len(parents) # 0 => place[1] = s
             /\ \A i \in 1 .. Len(parents) : i # 1 =>
                  place[i] = place[i - 1] -
                             Cardinality(Missing(parents, R, place[i - 1], i - 1, pure))
<1> DEFINE place == CHOOSE p : IsPlace(parents, R, s, pure, p)
           Steps(p) == \A i \in 1 .. Len(parents) :
                         p[i] = IF i = 1 THEN s
                                ELSE p[i - 1] - Cardinality(Missing(parents, R, p[i - 1], i - 1, pure))
<1>1. PICK p0 \in [1 .. Len(parents) -> 0 .. s] : IsPlace(parents, R, s, pure, p0) BY PlaceExists
<1>2. IsPlace(parents, R, s, pure, place) BY <1>1
<1>3. Places(parents, R, s, pure) = place BY DEF Places, IsPlace
<1> HIDE DEF place
<1>4. Steps(place) BY <1>2 DEF IsPlace, Missing
<1>5. Len(parents) # 0 => place[1] = s BY <1>4
<1>6. \A i \in 1 .. Len(parents) : place[i] \in 0 .. s
  <2> DEFINE I == {k \in Nat : k + 1 \in 1 .. Len(parents) => place[k + 1] \in 0 .. s}
  <2>1. 0 \in I BY <1>5
  <2>2. ASSUME NEW k \in Nat, k \in I PROVE k + 1 \in I
    <3>1. SUFFICES ASSUME (k + 1) + 1 \in 1 .. Len(parents) PROVE place[(k + 1) + 1] \in 0 .. s
      OBVIOUS
    <3>2. k + 1 \in 1 .. Len(parents) /\ ((k + 1) + 1) - 1 = k + 1 /\ (k + 1) + 1 # 1 BY <3>1
    <3>3. place[k + 1] \in 0 .. s BY <2>2, <3>2
    <3>4. place[(k + 1) + 1]
            = place[k + 1] - Cardinality(Missing(parents, R, place[k + 1], k + 1, pure))
      BY <1>4, <3>1, <3>2
    <3>5. place[(k + 1) + 1] \in 0 .. place[k + 1] BY <3>3, <3>4, PlaceStays
    <3> QED BY <3>3, <3>5
  <2>3. Nat \subseteq I
    <3> HIDE DEF I
    <3> QED BY <2>1, <2>2, SetInduction
  <2> SUFFICES ASSUME NEW i \in 1 .. Len(parents) PROVE place[i] \in 0 .. s OBVIOUS
  <2>4. i - 1 \in Nat /\ (i - 1) + 1 = i OBVIOUS
  <2> QED BY <2>3, <2>4
<1>7. \A i \in 1 .. Len(parents) : i # 1 =>
        place[i] = place[i - 1] - Cardinality(Missing(parents, R, place[i - 1], i - 1, pure))
  BY <1>4
<1> QED BY <1>3, <1>5, <1>6, <1>7

\* The first parent that has a sector of R, or 0.
SourceOfAny(parents, R, pure) ==
    LET any == {i \in 1 .. Len(parents) : \E t \in R : FromFile(files[parents[i]], t, pure)}
    IN  IF any = {} THEN 0 ELSE Least(any)

(* Sectors that are read together come from one file, each from its own place, unless the request *)
(* meets a file that holds a part of it.                                                          *)
LEMMA ReadTogether ==
  ASSUME NEW parents, Len(parents) \in Nat, NEW R \in SUBSET Nat, NEW pure,
         \A a \in R, b \in R : a .. b \subseteq R,
         ~MeetsMixed(parents, R, pure), NEW s \in R
  PROVE  /\ ReadRange(parents, R, s, pure) = ReadFrom(parents, s, pure)
         /\ SourceOf(parents, R, s, pure) = SourceOfAny(parents, R, pure)
<1> DEFINE n == Len(parents)
           has(i, t) == FromFile(files[parents[i]], t, pure)
           place == Places(parents, R, s, pure)
           any == {i \in 1 .. n : \E t \in R : has(i, t)}
           hits == {i \in 1 .. n : has(i, s)}
           found == {i \in 1 .. n : has(i, place[i])}
<1>0. n \in Nat /\ s \in Nat OBVIOUS
<1>1. /\ \A i \in 1 .. n : place[i] \in 0 .. s
      /\ n # 0 => place[1] = s
      /\ \A i \in 1 .. n : i # 1 =>
           place[i] = place[i - 1] - Cardinality(Missing(parents, R, place[i - 1], i - 1, pure))
  BY PlacesShape
<1>2. ReadFrom(parents, s, pure)
        = IF hits = {} THEN Unreadable ELSE files[parents[Least(hits)]].data[s]
  BY DEF ReadFrom, Least
<1>3. SourceOf(parents, R, s, pure) = IF found = {} THEN 0 ELSE Least(found)
  BY DEF SourceOf, Least
<1>4. ReadRange(parents, R, s, pure)
        = IF SourceOf(parents, R, s, pure) = 0 THEN Unreadable
          ELSE files[parents[SourceOf(parents, R, s, pure)]].data[place[SourceOf(parents, R, s, pure)]]
  BY DEF ReadRange
<1>5. \A i \in 1 .. n : (\A j \in 1 .. i - 1 : \A t \in R : ~has(j, t))
                          => \/ \A t \in R : has(i, t)
                             \/ \A t \in R : ~has(i, t)
  BY DEF MeetsMixed
<1>s. SourceOfAny(parents, R, pure) = IF any = {} THEN 0 ELSE Least(any) BY DEF SourceOfAny
<1> HIDE DEF has, place
<1>6. ASSUME NEW m \in 1 .. n, \A j \in 1 .. m - 1 : \A t \in R : ~has(j, t)
      PROVE  \A i \in 1 .. m : place[i] = s
  <2> DEFINE I == {k \in Nat : k + 1 \in 1 .. m => place[k + 1] = s}
  <2>1. 0 \in I BY <1>1
  <2>2. ASSUME NEW k \in Nat, k \in I PROVE k + 1 \in I
    <3>1. SUFFICES ASSUME (k + 1) + 1 \in 1 .. m PROVE place[(k + 1) + 1] = s OBVIOUS
    <3>2. /\ k + 1 \in 1 .. m /\ (k + 1) + 1 \in 1 .. n /\ ((k + 1) + 1) - 1 = k + 1
          /\ (k + 1) + 1 # 1 /\ k + 1 \in 1 .. m - 1
      BY <3>1
    <3>3. place[k + 1] = s BY <2>2, <3>2
    <3>4. place[(k + 1) + 1] = s - Cardinality(Missing(parents, R, s, k + 1, pure))
      BY <1>1, <3>2, <3>3
    <3>5. Missing(parents, R, s, k + 1, pure) = {}
      <4> SUFFICES ASSUME NEW u \in R, u < s, NEW w \in u .. s, has(k + 1, w) PROVE FALSE
        BY DEF Missing, has
      <4>1. w \in R OBVIOUS
      <4> QED BY <4>1, <1>6, <3>2
    <3> QED BY <3>4, <3>5, FS_EmptySet
  <2>3. Nat \subseteq I
    <3> HIDE DEF I
    <3> QED BY <2>1, <2>2, SetInduction
  <2> SUFFICES ASSUME NEW i \in 1 .. m PROVE place[i] = s OBVIOUS
  <2>4. i - 1 \in Nat /\ (i - 1) + 1 = i OBVIOUS
  <2> QED BY <2>3, <2>4
<1>7. CASE any = {}
  <2>1. \A i \in 1 .. n : \A t \in R : ~has(i, t) BY <1>7
  <2>2. hits = {} BY <2>1
  <2>3. found = {}
    <3> SUFFICES ASSUME NEW i \in 1 .. n PROVE ~has(i, place[i]) OBVIOUS
    <3>1. \A j \in 1 .. i - 1 : \A t \in R : ~has(j, t) BY <2>1
    <3>2. i \in 1 .. i /\ place[i] = s BY <3>1, <1>6
    <3> QED BY <3>2, <2>1
  <2> QED BY <2>2, <2>3, <1>2, <1>3, <1>4, <1>7, <1>s
<1>8. CASE any # {}
  <2>1. any \in SUBSET Nat OBVIOUS
  <2>2. PICK m \in any : \A j \in any : m <= j BY <1>8, <2>1, LeastNatural
  <2>3. \A j \in 1 .. m - 1 : \A t \in R : ~has(j, t) BY <2>2
  <2>4. m \in 1 .. n /\ \A t \in R : has(m, t) BY <2>2, <2>3, <1>5
  <2>5. \A i \in 1 .. m : place[i] = s BY <2>3, <2>4, <1>6
  <2>6. m \in hits /\ m \in found BY <2>4, <2>5
  <2>7. (\A j \in hits : m <= j) /\ (\A j \in found : m <= j)
    <3>1. \A j \in hits : j \in any OBVIOUS
    <3>2. \A j \in found : m <= j
      <4> SUFFICES ASSUME NEW j \in 1 .. n, has(j, place[j]), j < m PROVE FALSE OBVIOUS
      <4>1. j \in 1 .. m /\ j \in 1 .. m - 1 BY <2>4
      <4>2. place[j] = s BY <4>1, <2>5
      <4> QED BY <4>1, <4>2, <2>3
    <3> QED BY <3>1, <3>2, <2>2
  <2>8. hits \in SUBSET Nat /\ found \in SUBSET Nat OBVIOUS
  <2> HIDE DEF hits, found, any
  <2>9. Least(hits) = m /\ Least(found) = m /\ Least(any) = m
    BY <2>1, <2>2, <2>6, <2>7, <2>8, LeastOf
  <2>10. m # 0 /\ place[m] = s BY <2>4, <2>5
  <2> QED BY <2>6, <2>9, <2>10, <1>2, <1>3, <1>4, <1>8, <1>s
<1> QED BY <1>7, <1>8

(* Then no error is missed either. *)
LEMMA NoErrorMissed ==
  ASSUME NEW parents, Len(parents) \in Nat, NEW R \in SUBSET Nat, NEW pure,
         \A a \in R, b \in R : a .. b \subseteq R, ~MeetsMixed(parents, R, pure)
  PROVE  ErrorsMissed(parents, R, pure) = {}
<1>1. \A s \in R : SourceOf(parents, R, s, pure) = SourceOfAny(parents, R, pure) BY ReadTogether
<1> QED BY <1>1 DEF ErrorsMissed

(* An extent has no gaps. *)
LEMMA ExtentIsWhole ==
  ASSUME NEW todo \in SUBSET Nat
  PROVE  /\ FirstExtent(todo) \subseteq todo
         /\ \A a \in FirstExtent(todo), b \in FirstExtent(todo) : a .. b \subseteq FirstExtent(todo)
<1> DEFINE X == {s \in todo : Least(todo) .. s \subseteq todo}
<1>1. FirstExtent(todo) = X BY DEF FirstExtent, Least
<1>2. ASSUME NEW a \in X, NEW b \in X, NEW w \in a .. b PROVE w \in X
  <2>1. Least(todo) \in Nat /\ Least(todo) <= a BY LeastOf
  <2>2. a \in Nat /\ b \in Nat /\ w \in Nat /\ w \in Least(todo) .. b BY <2>1
  <2>3. Least(todo) .. w \subseteq Least(todo) .. b BY <2>1, <2>2
  <2> QED BY <2>2, <2>3
<1> QED BY <1>1, <1>2

(* What is read from parents is data. *)
LEMMA ReadRangeData ==
  ASSUME TypeInv, NEW v, NEW R \in SUBSET Sectors, NEW s \in Sectors, NEW pure
  PROVE  ReadRange(ParentsOf(v), R, s, pure) \in Data
<1>p. PICK P : P = ParentsOf(v) OBVIOUS
<1>q. PICK place : place = Places(P, R, s, pure) OBVIOUS
<1> DEFINE hits == {i \in 1 .. Len(P) : FromFile(files[P[i]], place[i], pure)}
<1>1. P \in Seq(Names) /\ Len(P) \in Nat BY <1>p, ParentsShape
<1>2. Unreadable \in Data BY NamesAreNumbers DEF Unreadable, Data
<1>3. SourceOf(P, R, s, pure) = IF hits = {} THEN 0 ELSE CHOOSE i \in hits : \A j \in hits : i <= j
  BY <1>q DEF SourceOf
<1>4. SourceOf(P, R, s, pure) # 0 => SourceOf(P, R, s, pure) \in 1 .. Len(P)
  <2>1. hits \in SUBSET Nat BY <1>1
  <2>2. ASSUME hits # {} PROVE (CHOOSE i \in hits : \A j \in hits : i <= j) \in hits
    <3>1. PICK m \in hits : \A n \in hits : m <= n BY <2>1, <2>2, LeastNatural
    <3> QED BY <3>1
  <2> QED BY <2>2, <1>3
<1>5. \A i \in 1 .. Len(P) : place[i] \in Sectors
  <2>1. s \in Nat /\ \A t \in 0 .. s : t \in Sectors BY ChainAssumption DEF Sectors
  <2>2. R \in SUBSET Nat BY DEF Sectors
  <2>3. \A i \in 1 .. Len(P) : place[i] \in 0 .. s BY <2>1, <2>2, <1>1, <1>q, PlacesShape
  <2> QED BY <2>1, <2>3
<1>6. \A i \in 1 .. Len(P) : files[P[i]].data \in [Sectors -> Data] BY <1>1, Fields
<1>7. ReadRange(P, R, s, pure) \in Data
  <2>1. ReadRange(P, R, s, pure)
          = IF SourceOf(P, R, s, pure) = 0 THEN Unreadable
            ELSE files[P[SourceOf(P, R, s, pure)]].data[place[SourceOf(P, R, s, pure)]]
    BY <1>q DEF ReadRange
  <2> QED BY <2>1, <1>2, <1>4, <1>5, <1>6
<1> QED BY <1>7, <1>p

(* So is what a disk holds. *)
LEMMA ContentsData ==
  ASSUME TypeInv, NEW v, v.data \in [Sectors -> Data], NEW pure
  PROVE  Contents(v, pure) \in [Sectors -> Data]
<1>1. \A s \in Sectors : ReadFrom(ParentsOf(v), s, pure) \in Data BY ReadFromData
<1>2. \A s \in Sectors : v.data[s] \in Data OBVIOUS
<1> QED BY <1>1, <1>2 DEF Contents

(* Constants of the types. *)
LEMMA Constants ==
  /\ Closed \in VhdObjects /\ Closed.open = FALSE /\ Closed.dirty = {} /\ Closed.flags = {}
  /\ NoCall \in Calls /\ NoCall.op = "none" /\ NoCall.pc = "none" /\ NoCall.strays = << >>
  /\ NoCall.todo = {}
  /\ NoFile \in Vhds /\ BadFile \in Vhds
  /\ New \in Data /\ Junk \in Data
<1>0. /\ NumDiffs \in Nat /\ NoUuid = NumDiffs + 1 /\ NoName = NumDiffs + 2 /\ NoUuid \in 0 .. NoUuid
      /\ TailVhd \in Objects /\ 0 \in Blocks /\ 1 \in Locators
  BY NamesAreNumbers, ChainAssumption DEF Blocks
<1>1. New \in Data /\ Junk \in Data BY <1>0 DEF New, Junk, Data, Unreadable
<1>2. Closed \in VhdObjects /\ Closed.open = FALSE /\ Closed.dirty = {} /\ Closed.flags = {}
  <2>1. {} \in SUBSET Flags /\ {} \in SUBSET Blocks /\ {} \in SUBSET Sectors OBVIOUS
  <2> QED BY <2>1, <1>0 DEF Closed, VhdObjects
<1>3. NoCall \in Calls /\ NoCall.op = "none" /\ NoCall.pc = "none" /\ NoCall.strays = << >>
      /\ NoCall.todo = {}
  BY <1>0 DEF NoCall, Calls
<1>4. NoFile \in Vhds /\ NoFile.kind = "none"
  BY <1>0, <1>1 DEF NoFile, Vhds
<1>5. BadFile \in Vhds BY <1>4 DEF BadFile, Vhds
<1> QED BY <1>1, <1>2, <1>3, <1>4, <1>5

-----------------------------------------------------------------------------
(***************************************************************************)
(* What keeps the structure                                                *)
(***************************************************************************)

\* Of the files only f changes, and only in blocks, bits and data.
Kept(f) ==
    /\ files' \in [Names -> Vhds] /\ \A g \in Names \ {f} : files'[g] = files[g]
    /\ SameFrame(files[f], files'[f])

\* Of the objects only f changes, and only its caches.
ObjectKept(f) ==
    /\ vhd' \in [Objects -> VhdObjects] /\ \A g \in Objects : vhd'[g].dirty \subseteq vhd'[g].present
    /\ \A g \in Objects \ {f} : vhd'[g] = vhd[g]
    /\ vhd'[f].open = vhd[f].open /\ vhd'[f].flags = vhd[f].flags /\ vhd'[f].parent = vhd[f].parent

ChainKept ==
    /\ \A g \in 1 .. NumDiffs : files'[g] = files[g]
    /\ files'[TailVhd].kind = files[TailVhd].kind /\ files'[TailVhd].locs = files[TailVhd].locs

\* The call goes on; only its place changes, the block, what is to be copied and the locator.
SameCall ==
    /\ call' \in Calls /\ call'.op = call.op /\ call'.len = call.len /\ call'.idx = call.idx
    /\ call'.to = call.to /\ call'.parent = call.parent /\ call'.strays = call.strays

(* Caches of the tail or the temporary file are not part of the chain. *)
LEMMA KeptChain ==
  ASSUME NEW f \in Objects, Kept(f)
  PROVE  ChainKept
<1>1. 1 .. NumDiffs \subseteq Names \ {f} /\ TailVhd \in Names BY NamesAreNumbers
<1> QED BY <1>1 DEF Kept, SameFrame, ChainKept

(* Nor is the temporary file as a whole. *)
LEMMA TmpChain ==
  ASSUME \A g \in Names \ {Tmp} : files'[g] = files[g]
  PROVE  ChainKept
<1>1. 1 .. NumDiffs \subseteq Names \ {Tmp} /\ TailVhd \in Names \ {Tmp} BY NamesAreNumbers
<1> QED BY <1>1 DEF ChainKept

(* The chain keeps its shape. *)
LEMMA ChainFrame ==
  ASSUME NEW S, Path(S), TailInv(S), ChainKept
  PROVE  Path(S)' /\ TailInv(S)' /\ \A p : Leads(p)' <=> Leads(p)
<1>1. Path(S)' BY PathFrame DEF Path, ChainKept
<1>2. TailInv(S)' BY DEF TailInv, TailLocs, ChainKept
<1>3. \A p : Leads(p)' <=> Leads(p) BY DEF Leads, TailLocs, ChainKept
<1> QED BY <1>1, <1>2, <1>3

(* So does all when no call is being executed any more, ... *)
LEMMA StructNone ==
  ASSUME NEW S, Struct(S), ChainKept, call' = NoCall, vhd'[TailVhd].open => handle',
         ~vhd'[Tmp].open
  PROVE  Struct(S)'
<1>1. Path(S)' /\ TailInv(S)' BY ChainFrame DEF Struct
<1>2. call'.op = "none" /\ call'.pc = "none" BY Constants
<1>3. CallInv(S)' BY <1>2 DEF CallInv
<1>4. IntoTailInv(S)' /\ SafelyInv(S)' BY <1>2 DEF IntoTailInv, SafelyInv
<1> QED BY <1>1, <1>3, <1>4 DEF Struct

(* ... when the temporary file is given up, ... *)
LEMMA StructGivesUp ==
  ASSUME NEW S, Struct(S), ChainKept, call.op = "safely", SameCall, call'.pc = "giveUp",
         handle' = handle, vhd'[TailVhd].open = vhd[TailVhd].open, call.pc \notin {"rename", "reopen"},
         vhd'[TailVhd].parent = vhd[TailVhd].parent, vhd'[Tmp].open
  PROVE  Struct(S)'
<1>1. Path(S)' /\ TailInv(S)' BY ChainFrame DEF Struct
<1>2. call'.op = "safely" /\ call'.to = Tmp BY DEF SameCall, Struct, SafelyInv
<1>3. CallInv(S)'
  <2>1. handle /\ files[TailVhd].kind = "diff" /\ vhd[TailVhd].parent \in S
        /\ Leads(vhd[TailVhd].parent)
    BY DEF Struct, CallInv
  <2>2. Leads(vhd[TailVhd].parent)'
    <3>1. PICK p : p = vhd[TailVhd].parent OBVIOUS
    <3>2. Leads(p)' BY <2>1, <3>1, ChainFrame DEF Struct
    <3> QED BY <3>1, <3>2
  <2> QED BY <1>2, <2>1, <2>2 DEF CallInv, ChainKept
<1>4. IntoTailInv(S)' BY <1>2 DEF IntoTailInv
<1>5. SafelyInv(S)'
  <2>1. vhd'[TailVhd].open BY DEF Struct, SafelyInv
  <2>2. LinkInv(Tmp)' BY DEF LinkInv
  <2> QED BY <1>2, <2>1, <2>2 DEF SafelyInv, SafelyPcs, TmpPcs, CopyPcs, LinkPcs
<1> QED BY <1>1, <1>3, <1>4, <1>5 DEF Struct

(* ... and when data is copied. *)
LEMMA StructCopies ==
  ASSUME TypeInv, NEW S, Struct(S), call.op # "none", call.pc \in CopyPcs,
         NEW f, f = call.to, Kept(f), ObjectKept(f), SameCall, handle' = handle,
         call'.pc \in CopyPcs \/ (call'.pc = "locators" /\ call'.loc = 1)
  PROVE  Struct(S)'
<1>0. call.op \in {"intoTail", "safely"} /\ f \in Objects /\ call'.op = call.op /\ call'.to = f
      /\ call'.parent = call.parent /\ StrayNames' = StrayNames
  BY DEF Struct, CallInv, TypeInv, Calls, SameCall, StrayNames
<1>1. ChainKept BY <1>0, KeptChain
<1>2. Path(S)' /\ TailInv(S)' BY <1>1, ChainFrame DEF Struct
<1>3. /\ vhd'[TailVhd].open = vhd[TailVhd].open /\ vhd'[TailVhd].parent = vhd[TailVhd].parent
      /\ vhd'[Tmp].open = vhd[Tmp].open /\ vhd'[Tmp].parent = vhd[Tmp].parent
  BY NamesAreNumbers DEF ObjectKept, Objects
<1>4. /\ files'[Tmp].kind = files[Tmp].kind /\ files'[Tmp].uuid = files[Tmp].uuid
      /\ files'[Tmp].parent = files[Tmp].parent /\ files'[Tmp].locs = files[Tmp].locs
  BY Fields DEF Kept, SameFrame
<1>5. ~(call.op = "intoTail" /\ call.pc \in LinkPcs) BY DEF CopyPcs, LinkPcs
<1>6. /\ handle /\ files[TailVhd].kind = "diff" /\ vhd[TailVhd].parent \in S
      /\ Leads(vhd[TailVhd].parent)
  BY <1>0, <1>5 DEF Struct, CallInv
<1>7. call.pc \in TmpPcs /\ call'.pc \in TmpPcs /\ call'.pc \in CopyPcs \cup LinkPcs
  BY DEF TmpPcs, CopyPcs, LinkPcs
<1>8. CallInv(S)'
  <2>1. Leads(vhd[TailVhd].parent)'
    <3>1. PICK p : p = vhd[TailVhd].parent OBVIOUS
    <3>2. Leads(p)' BY <1>1, <1>6, <3>1, ChainFrame DEF Struct
    <3> QED BY <3>1, <3>2, <1>3
  <2>2. vhd[Tmp].open <=> call.op = "safely" BY <1>7 DEF Struct, CallInv
  <2> QED BY <2>1, <2>2, <1>0, <1>1, <1>3, <1>6, <1>7 DEF CallInv, ChainKept
<1>9. TailLocs' = TailLocs BY <1>1 DEF ChainKept, TailLocs
<1>10. LinkInv(f)'
  <2>1. call'.pc # "header" BY DEF CopyPcs
  <2>2. ASSUME call'.pc = "locators" PROVE call'.loc = 1 BY <2>2 DEF CopyPcs
  <2>3. \A i \in Locators : ~(i < 1) BY NamesAreNumbers DEF Locators
  <2> QED BY <2>1, <2>2, <2>3 DEF LinkInv
<1>11. IntoTailInv(S)'
  <2> SUFFICES ASSUME call.op = "intoTail" PROVE IntoTailInv(S)' BY <1>0 DEF IntoTailInv
  <2>1. /\ call.to = TailVhd /\ vhd[TailVhd].open /\ call.parent \in S
        /\ vhd[TailVhd].parent < call.parent
        /\ StrayNames = {g \in S : vhd[TailVhd].parent <= g /\ g < call.parent}
    BY DEF Struct, IntoTailInv
  <2>2. call'.pc \in IntoTailPcs /\ call'.pc # "unlink" BY <1>7 DEF IntoTailPcs, CopyPcs, LinkPcs
  <2>3. \A i \in Locators : TailLocs[i] # NoName => TailLocs[i] <= call.parent
    <3>1. \A g \in S : g \in Nat BY NamesAreNumbers DEF Struct, Path
    <3> QED BY <2>1, <1>6, <3>1 DEF Leads, Struct, TailInv
  <2> QED BY <2>1, <2>2, <2>3, <1>0, <1>3, <1>9, <1>10 DEF IntoTailInv
<1>12. SafelyInv(S)'
  <2> SUFFICES ASSUME call.op = "safely" PROVE SafelyInv(S)' BY <1>0 DEF SafelyInv
  <2>1. /\ call.to = Tmp /\ (vhd[TailVhd].open <=> call.pc \notin {"rename", "reopen"})
        /\ files[Tmp].kind = "diff"
        /\ files[Tmp].uuid \in S /\ call.parent \in S
        /\ vhd[TailVhd].parent <= files[Tmp].uuid /\ files[Tmp].uuid < call.parent
        /\ StrayNames = {g \in S : files[Tmp].uuid < g /\ g < call.parent}
        /\ files[Tmp].parent = files[Tmp].uuid /\ vhd[Tmp].parent = files[Tmp].uuid
        /\ \A i \in Locators : files[Tmp].locs[i] = files[Tmp].uuid
    BY <1>7 DEF Struct, SafelyInv
  <2>2. call'.pc \in SafelyPcs /\ call'.pc \notin {"rename", "reopen", "create", "generate",
          "closeTail", "flushTmp", "unlink"} /\ call.pc \notin {"rename", "reopen"}
    BY <1>7 DEF SafelyPcs, TmpPcs, CopyPcs, LinkPcs
  <2> QED BY <2>1, <2>2, <1>0, <1>3, <1>4, <1>7, <1>10 DEF SafelyInv
<1> QED BY <1>2, <1>8, <1>11, <1>12 DEF Struct

-----------------------------------------------------------------------------
(***************************************************************************)
(* Copying, step by step                                                   *)
(***************************************************************************)

(* The fields of a call. *)
LEMMA CallFields ==
  ASSUME TypeInv
  PROVE  /\ call \in Calls /\ call.op \in {"none", "intoTail", "safely"}
         /\ call.pc \in SafelyPcs \cup {"none"} /\ call.to \in Objects /\ call.len \in Nat
         /\ call.idx \in Nat /\ call.parent \in Names \cup {NoName} /\ call.block \in Blocks
         /\ call.todo \in SUBSET Sectors /\ call.loc \in Locators /\ call.strays \in Seq(1 .. NumDiffs)
BY DEF TypeInv, Calls

\* The call goes on at pc.
GoesOn(pc) == SameCall /\ call'.pc = pc /\ call'.block = call.block /\ call'.todo = call.todo
              /\ call'.loc = call.loc

(* Going on with a call. *)
LEMMA Gotos ==
  ASSUME TypeInv, NEW pc \in SafelyPcs, Goto(pc)
  PROVE  GoesOn(pc) /\ reply' = reply /\ call' = [call EXCEPT !.pc = pc]
<1>1. call' = [call EXCEPT !.pc = pc] /\ reply' = reply BY DEF Goto
<1> QED BY <1>1, CallFields DEF GoesOn, SameCall, Calls

(* A step that fails ends the call, or gives the temporary file up. *)
LEMMA Fails ==
  ASSUME TypeInv, Fail
  PROVE  /\ reply' \in {"none", "ok", "error", "died"} /\ call'.pc # "copy"
         /\ \/ call.to = TailVhd /\ call' = NoCall
            \/ call.to = Tmp /\ GoesOn("giveUp") /\ call' = [call EXCEPT !.pc = "giveUp"]
<1>1. "giveUp" \in SafelyPcs BY DEF SafelyPcs
<1>2. call.to = TailVhd \/ call.to = Tmp BY CallFields DEF Objects
<1>3. reply \in {"none", "ok", "error", "died"} BY DEF TypeInv
<1>4. CASE call.to = Tmp BY <1>1, <1>3, <1>4, Gotos DEF Fail, GoesOn
<1>5. CASE call.to # Tmp BY <1>2, <1>5, Constants DEF Fail, Return
<1> QED BY <1>4, <1>5

(* After a block comes the next. *)
LEMMA NextBlocks ==
  ASSUME TypeInv, NextBlock
  PROVE  /\ SameCall /\ call'.todo = call.todo /\ call'.loc = call.loc /\ reply' = reply
         /\ \/ call.block = NumBlocks - 1 /\ call'.pc = "detach" /\ call'.block = call.block
            \/ call.block < NumBlocks - 1 /\ call'.pc = "block" /\ call'.block = call.block + 1
<1>1. NumBlocks \in Nat /\ NumBlocks >= 1 /\ call.block \in 0 .. NumBlocks - 1
  BY ChainAssumption, CallFields DEF Blocks
<1>2. reply' = reply BY DEF NextBlock
<1>3. CASE call.block = NumBlocks - 1
  <2>1. call' = [call EXCEPT !.pc = "detach"] BY <1>3 DEF NextBlock
  <2>2. "detach" \in SafelyPcs BY DEF SafelyPcs, TmpPcs, CopyPcs
  <2> QED BY <2>1, <2>2, <1>2, <1>3, CallFields DEF SameCall, Calls
<1>4. CASE call.block # NumBlocks - 1
  <2>1. call' = [call EXCEPT !.pc = "block", !.block = @ + 1] BY <1>4 DEF NextBlock
  <2>2. call.block < NumBlocks - 1 /\ call.block + 1 \in Blocks BY <1>1, <1>4 DEF Blocks
  <2>3. "block" \in SafelyPcs BY DEF SafelyPcs, TmpPcs, CopyPcs
  <2> QED BY <2>1, <2>2, <2>3, <1>2, CallFields DEF SameCall, Calls
<1> QED BY <1>3, <1>4

(* Pages that are written back change nothing else. *)
LEMMA BackKept ==
  ASSUME TypeInv, NEW f \in Objects, NEW D, NEW table, WroteBack(f, D, table), Cleaned(f, D)
  PROVE  Kept(f) /\ ObjectKept(f)
<1>1. Kept(f) BY DEF WroteBack, Kept
<1>2. \A g \in Objects : vhd'[g].dirty \subseteq vhd'[g].present BY Fields DEF Cleaned
<1> QED BY <1>1, <1>2 DEF Cleaned, ObjectKept

\* How a step of copying may end.
CopyOutcome ==
    /\ Kept(call.to) /\ ObjectKept(call.to) /\ handle' = handle
    /\ reply' \in {"none", "ok", "error", "died"}
    /\ call'.pc = "copy" => call'.block \in vhd'[call.to].present
    /\ \/ call.to = TailVhd /\ call' = NoCall
       \/ call.to = Tmp /\ GoesOn("giveUp")
       \/ SameCall /\ (call'.pc \in CopyPcs \/ (call'.pc = "locators" /\ call'.loc = 1))

\* What is to be copied of a block is found, or the block needs nothing.
CoalescesBlock ==
    \E D \in SUBSET (vhd[call.to].dirty \ {call.block}) :
      /\ WroteBack(call.to, D, files[call.to].present) /\ Cleaned(call.to, D)
      /\ \/ call.to = TailVhd /\ call' = NoCall
         \/ call.to = Tmp /\ GoesOn("giveUp")
         \/ ToCopy(View(call.to), call.block, call.len) = {} /\ NextBlock
         \/ /\ ToCopy(View(call.to), call.block, call.len) # {}
            /\ SameCall /\ call'.block = call.block /\ call'.loc = call.loc
            /\ call'.todo = ToCopy(View(call.to), call.block, call.len)
            /\ call'.pc = IF call.block \in vhd[call.to].present THEN "copy" ELSE "append"

(* Looking for what is to be copied of a block. *)
LEMMA CoalesceBlockDoes ==
  ASSUME TypeInv, CoalesceBlock
  PROVE  CoalescesBlock /\ CopyOutcome
<1>1. PICK f : f = call.to OBVIOUS
<1>2. PICK todo : todo = ToCopy(View(f), call.block, call.len) OBVIOUS
<1>3. f \in Objects /\ call.block \in Blocks BY <1>1, CallFields
<1>4. PICK D \in SUBSET (vhd[f].dirty \ {call.block}) :
        WroteBack(f, D, files[f].present) /\ Cleaned(f, D)
  BY <1>1, <1>3, Evicts DEF CoalesceBlock
<1>5. Kept(f) /\ ObjectKept(f) BY <1>3, <1>4, BackKept
<1>6. handle' = handle BY DEF CoalesceBlock
<1>7. \/ Fail
      \/ todo = {} /\ NextBlock
      \/ /\ todo # {} /\ UNCHANGED reply
         /\ call' = [call EXCEPT !.todo = todo,
                                 !.pc = IF call.block \in vhd[f].present THEN "copy" ELSE "append"]
  BY <1>1, <1>2 DEF CoalesceBlock
<1>8. CASE Fail
  BY <1>1, <1>4, <1>5, <1>6, <1>8, Fails DEF CoalescesBlock, CopyOutcome
<1>9. CASE todo = {} /\ NextBlock
  <2>1. call'.pc \in CopyPcs /\ SameCall /\ reply' = reply /\ call'.pc # "copy"
    BY <1>9, NextBlocks DEF CopyPcs
  <2> QED BY <2>1, <1>1, <1>2, <1>4, <1>5, <1>6, <1>9 DEF CoalescesBlock, CopyOutcome, TypeInv
<1>10. CASE /\ todo # {} /\ UNCHANGED reply
            /\ call' = [call EXCEPT !.todo = todo,
                                    !.pc = IF call.block \in vhd[f].present THEN "copy" ELSE "append"]
  <2>1. todo \in SUBSET Sectors BY <1>2 DEF ToCopy, SectorsOf
  <2>2. {"copy", "append"} \subseteq CopyPcs /\ CopyPcs \subseteq SafelyPcs
    BY DEF CopyPcs, TmpPcs, SafelyPcs
  <2>3. /\ SameCall /\ call'.block = call.block /\ call'.todo = todo /\ call'.loc = call.loc
        /\ call'.pc = IF call.block \in vhd[f].present THEN "copy" ELSE "append"
    BY <2>1, <2>2, <1>10, CallFields DEF SameCall, Calls
  <2>4. call'.pc \in CopyPcs BY <2>2, <2>3
  <2>5. CoalescesBlock BY <2>3, <1>1, <1>2, <1>4, <1>10 DEF CoalescesBlock
  <2>6. call'.pc = "copy" => call'.block \in vhd'[f].present BY <2>3, <1>4 DEF Cleaned
  <2>7. CopyOutcome BY <2>3, <2>4, <2>6, <1>1, <1>5, <1>6, <1>10 DEF CopyOutcome, TypeInv
  <2> QED BY <2>5, <2>7
<1> QED BY <1>7, <1>8, <1>9, <1>10

\* The block of the call is new in the file of f, with no bits set.
Appended(f, table) ==
    /\ Kept(f) /\ ObjectKept(f)
    /\ files'[f].present = table /\ files'[f].bits = files[f].bits \ SectorsOf(call.block)
    /\ \A s \in Sectors \ SectorsOf(call.block) : files'[f].data[s] = files[f].data[s]
    /\ vhd'[f].present = vhd[f].present \cup {call.block}
    /\ vhd'[f].bits = vhd[f].bits \ SectorsOf(call.block) /\ vhd'[f].dirty = vhd[f].dirty

AppendsBlock ==
    LET f == call.to
        placed == vhd[f].present \cup {call.block}
    IN  \/ Appended(f, placed) /\ GoesOn("copy")
        \/ /\ UNCHANGED <<files, vhd>> \/ \E table \in {placed, files[f].present} : Appended(f, table)
           /\ \/ call.to = TailVhd /\ call' = NoCall
              \/ call.to = Tmp /\ GoesOn("giveUp")

(* Nothing changes. *)
LEMMA NothingKept ==
  ASSUME TypeInv, NEW f \in Objects, UNCHANGED <<files, vhd>>
  PROVE  Kept(f) /\ ObjectKept(f)
BY Fields DEF TypeInv, Kept, ObjectKept, SameFrame

(* Appending a block. *)
LEMMA AppendBlockDoes ==
  ASSUME TypeInv, AppendBlock
  PROVE  AppendsBlock /\ CopyOutcome
<1> DEFINE bits == vhd[call.to].bits \ SectorsOf(call.block)
           placed == vhd[call.to].present \cup {call.block}
           file(table) == [files[call.to] EXCEPT !.present = table, !.bits = @ \ SectorsOf(call.block),
                             !.data = [s \in Sectors |->
                                 IF s \in SectorsOf(call.block) THEN Junk ELSE @[s]]]
<1>1. PICK f : f = call.to OBVIOUS
<1>2. f \in Objects /\ f \in Names /\ call.block \in Blocks BY <1>1, CallFields, Fields
<1>3. ASSUME NEW table \in SUBSET Blocks, files' = [files EXCEPT ![f] = file(table)],
             vhd' = [vhd EXCEPT ![f].present = placed, ![f].bits = bits]
      PROVE  Appended(f, table)
  <2>1. PICK d : d = [s \in Sectors |-> IF s \in SectorsOf(call.block) THEN Junk
                                       ELSE files[f].data[s]]
    OBVIOUS
  <2>2. d \in [Sectors -> Data] /\ \A s \in Sectors \ SectorsOf(call.block) : d[s] = files[f].data[s]
    BY <2>1, <1>2, Fields, Constants
  <2>3. PICK w : w = [files[f] EXCEPT !.present = table, !.bits = @ \ SectorsOf(call.block), !.data = d]
    OBVIOUS
  <2>4. files[f] \in Vhds BY <1>2, Fields
  <2>5. /\ w \in Vhds /\ SameFrame(files[f], w) /\ w.present = table
        /\ w.bits = files[f].bits \ SectorsOf(call.block) /\ w.data = d
    BY <2>2, <2>3, <2>4 DEF Vhds, SameFrame
  <2>6. file(table) = w BY <1>1, <2>1, <2>3
  <2>7. files' \in [Names -> Vhds] /\ files'[f] = w /\ \A g \in Names \ {f} : files'[g] = files[g]
    BY <2>5, <2>6, <1>2, <1>3, OneFile
  <2>8. PICK o : o = [vhd[f] EXCEPT !.present = placed, !.bits = bits] OBVIOUS
  <2>9. /\ o \in VhdObjects /\ o.open = vhd[f].open /\ o.flags = vhd[f].flags
        /\ o.parent = vhd[f].parent /\ o.present = placed /\ o.bits = bits /\ o.dirty = vhd[f].dirty
    <3>1. vhd[f] \in VhdObjects /\ bits \in SUBSET Sectors /\ placed \in SUBSET Blocks
      BY <1>1, <1>2, Fields
    <3> QED BY <2>8, <3>1 DEF VhdObjects
  <2>10. vhd' = [vhd EXCEPT ![f] = o] BY <2>8, <1>3
  <2>11. vhd' \in [Objects -> VhdObjects] /\ vhd'[f] = o /\ \A g \in Objects \ {f} : vhd'[g] = vhd[g]
    BY <2>9, <2>10, <1>2, OneObject
  <2>12. \A g \in Objects : vhd'[g].dirty \subseteq vhd'[g].present
    BY <2>9, <2>11, <1>1, <1>2, Fields
  <2>13. Kept(f) BY <2>5, <2>7 DEF Kept
  <2>14. ObjectKept(f) BY <2>9, <2>11, <2>12 DEF ObjectKept
  <2> QED BY <2>2, <2>5, <2>7, <2>9, <2>11, <2>13, <2>14, <1>1 DEF Appended
<1>4. placed \in SUBSET Blocks /\ files[f].present \in SUBSET Blocks BY <1>1, <1>2, Fields
<1>5. handle' = handle BY DEF AppendBlock
<1>6. \/ Appended(f, placed) /\ Goto("copy")
      \/ UNCHANGED <<files, vhd>> /\ Fail
      \/ (\E table \in {placed, files[f].present} : Appended(f, table)) /\ Fail
  <2>1. \/ /\ files' = [files EXCEPT ![f] = file(placed)]
           /\ vhd' = [vhd EXCEPT ![f].present = placed, ![f].bits = bits]
           /\ Goto("copy")
        \/ UNCHANGED <<files, vhd>> /\ Fail
        \/ /\ \E table \in {placed, files[f].present} :
                /\ files' = [files EXCEPT ![f] = file(table)]
                /\ vhd' = [vhd EXCEPT ![f].present = placed, ![f].bits = bits]
           /\ Fail
    BY <1>1 DEF AppendBlock
  <2> HIDE DEF placed, file, bits
  <2> QED BY <2>1, <1>3, <1>4
<1> HIDE DEF placed, file, bits
<1>7. ASSUME NEW table, Appended(f, table) PROVE Kept(f) /\ ObjectKept(f) BY <1>7 DEF Appended
<1>8. "copy" \in CopyPcs /\ "copy" \in SafelyPcs BY DEF CopyPcs, TmpPcs, SafelyPcs
<1>9. CASE Appended(f, placed) /\ Goto("copy")
  <2>1. GoesOn("copy") /\ reply' = reply BY <1>8, <1>9, Gotos
  <2>2. call'.block \in vhd'[f].present BY <2>1, <1>9 DEF Appended, GoesOn
  <2>3. AppendsBlock BY <2>1, <1>1, <1>9 DEF AppendsBlock, placed
  <2>4. CopyOutcome BY <2>1, <2>2, <1>1, <1>5, <1>7, <1>8, <1>9 DEF CopyOutcome, GoesOn, TypeInv
  <2> QED BY <2>3, <2>4
<1>10. CASE Fail /\ (UNCHANGED <<files, vhd>>
                     \/ \E table \in {placed, files[f].present} : Appended(f, table))
  <2>1. Kept(f) /\ ObjectKept(f) BY <1>2, <1>7, <1>10, NothingKept
  <2>2. /\ reply' \in {"none", "ok", "error", "died"} /\ call'.pc # "copy"
        /\ \/ call.to = TailVhd /\ call' = NoCall
           \/ call.to = Tmp /\ GoesOn("giveUp")
    BY <1>10, Fails
  <2>3. AppendsBlock BY <2>2, <1>1, <1>10 DEF AppendsBlock, placed
  <2>4. CopyOutcome BY <2>1, <2>2, <1>1, <1>5 DEF CopyOutcome
  <2> QED BY <2>3, <2>4
<1> QED BY <1>6, <1>9, <1>10

\* Nothing but the data of the sectors W of f changes.
DataCopied(f, W) ==
    /\ Kept(f) /\ files'[f].present = files[f].present /\ files'[f].bits = files[f].bits
    /\ \A s \in Sectors : s \notin W => files'[f].data[s] = files[f].data[s]

\* Sectors of W hold what is read through the chain of f, sector by sector.
DataRead(f, W) ==
    \A s \in W : files'[f].data[s] = ReadFrom(ParentsOf(View(f)), s, Pure(f))

CopiesExtent ==
    LET f == call.to
        extent == FirstExtent(call.todo)
    IN  \/ /\ DataCopied(f, extent) /\ ObjectKept(f) /\ (~Misreads => DataRead(f, extent))
           /\ vhd'[f].present = vhd[f].present /\ vhd'[f].bits = vhd[f].bits \cup extent
           /\ vhd'[f].dirty = vhd[f].dirty \cup {call.block}
           /\ SameCall /\ call'.block = call.block /\ call'.todo = call.todo \ extent
           /\ call'.pc = IF extent = call.todo THEN "flushBits" ELSE "copy"
        \/ /\ \E W \in SUBSET extent : DataCopied(f, W)
           /\ UNCHANGED vhd
           /\ \/ call.to = TailVhd /\ call' = NoCall
              \/ call.to = Tmp /\ GoesOn("giveUp")

(* Copying an extent. *)
LEMMA CopyExtentDoes ==
  ASSUME TypeInv, CopyExtent
  PROVE  CopiesExtent /\ CopyOutcome
<1> DEFINE copied(W, F) == [files EXCEPT ![call.to].data = [s \in Sectors |->
                               IF s \in F THEN Junk
                               ELSE IF s \in W THEN ReadRange(ParentsOf(View(call.to)),
                                        FirstExtent(call.todo), s, Pure(call.to))
                               ELSE @[s]]]
           missed == IF CanFail("read")
                     THEN ErrorsMissed(ParentsOf(View(call.to)), FirstExtent(call.todo), Pure(call.to))
                     ELSE {}
<1>1. PICK f : f = call.to OBVIOUS
<1>e. PICK extent : extent = FirstExtent(call.todo) OBVIOUS
<1>p. PICK P, pure : P = ParentsOf(View(f)) /\ pure = Pure(f) OBVIOUS
<1>2. f \in Objects /\ f \in Names /\ call.block \in Blocks /\ files[f] \in Vhds /\ vhd[f] \in VhdObjects
      /\ extent \subseteq call.todo /\ extent \subseteq Sectors
  BY <1>1, <1>e, CallFields, Fields DEF FirstExtent
<1>m. missed \subseteq extent BY <1>e DEF ErrorsMissed
<1>w. ~Misreads => missed = {} /\ \A s \in extent : ReadRange(P, extent, s, pure) = ReadFrom(P, s, pure)
  <2>1. call.pc = "copy" BY DEF CopyExtent
  <2>2. SUFFICES ASSUME ~MeetsMixed(P, extent, pure)
                 PROVE  /\ missed = {}
                        /\ \A s \in extent : ReadRange(P, extent, s, pure) = ReadFrom(P, s, pure)
    BY <2>1, <1>1, <1>e, <1>p DEF Misreads
  <2>3. Len(P) \in Nat BY <1>p, ParentsShape
  <2>4. extent \in SUBSET Nat /\ \A a \in extent, b \in extent : a .. b \subseteq extent
    <3>1. call.todo \in SUBSET Nat BY CallFields DEF Sectors
    <3> QED BY <3>1, <1>e, ExtentIsWhole
  <2>5. ErrorsMissed(P, extent, pure) = {} BY <2>2, <2>3, <2>4, NoErrorMissed
  <2>6. \A s \in extent : ReadRange(P, extent, s, pure) = ReadFrom(P, s, pure)
    BY <2>2, <2>3, <2>4, ReadTogether
  <2> QED BY <2>5, <2>6, <1>1, <1>e, <1>p
<1>3. ASSUME NEW W \in SUBSET Sectors, NEW F \in SUBSET W, files' = copied(W, F)
      PROVE  /\ DataCopied(f, W)
             /\ \A s \in W : s \notin F => files'[f].data[s] = ReadRange(P, extent, s, pure)
  <2>1. PICK d : d = [s \in Sectors |-> IF s \in F THEN Junk
                                        ELSE IF s \in W THEN ReadRange(P, extent, s, pure)
                                        ELSE files[f].data[s]]
    OBVIOUS
  <2>2. Junk \in Data /\ \A s \in Sectors : ReadRange(P, extent, s, pure) \in Data
    BY <1>2, <1>p, ReadRangeData, Constants
  <2>3. d \in [Sectors -> Data] BY <2>1, <2>2, <1>2, Fields
  <2>4. PICK w : w = [files[f] EXCEPT !.data = d] OBVIOUS
  <2>5. /\ w \in Vhds /\ SameFrame(files[f], w) /\ w.present = files[f].present
        /\ w.bits = files[f].bits /\ w.data = d
    BY <2>3, <2>4, <1>2 DEF Vhds, SameFrame
  <2>6. files' = [files EXCEPT ![f] = w] BY <2>1, <2>4, <1>1, <1>3, <1>e, <1>p
  <2>7. files' \in [Names -> Vhds] /\ files'[f] = w /\ \A g \in Names \ {f} : files'[g] = files[g]
    BY <2>5, <2>6, <1>2, OneFile
  <2>8. Kept(f) BY <2>5, <2>7 DEF Kept
  <2>9. /\ \A s \in Sectors : s \notin W => d[s] = files[f].data[s]
        /\ \A s \in W : s \notin F => d[s] = ReadRange(P, extent, s, pure)
    BY <2>1
  <2> QED BY <2>5, <2>7, <2>8, <2>9 DEF DataCopied
<1>4. \/ /\ \E F \in SUBSET missed : files' = copied(extent, F)
         /\ vhd' = [vhd EXCEPT ![f].bits = @ \cup extent, ![f].dirty = @ \cup {call.block}]
         /\ call' = [call EXCEPT !.todo = @ \ extent,
                                 !.pc = IF extent = call.todo THEN "flushBits" ELSE "copy"]
         /\ UNCHANGED reply
      \/ /\ \E W \in SUBSET extent, F \in SUBSET missed : F \subseteq W /\ files' = copied(W, F)
         /\ UNCHANGED vhd /\ Fail
  <2>1. LET g == call.to
            X == FirstExtent(call.todo)
        IN  \/ /\ \E F \in SUBSET missed : files' = copied(X, F)
               /\ vhd' = [vhd EXCEPT ![g].bits = @ \cup X, ![g].dirty = @ \cup {call.block}]
               /\ call' = [call EXCEPT !.todo = @ \ X,
                                       !.pc = IF X = call.todo THEN "flushBits" ELSE "copy"]
               /\ UNCHANGED reply
            \/ /\ \E W \in SUBSET X, F \in SUBSET missed :
                    /\ CanFail("write") \/ (CanFail("read") /\ W # X)
                    /\ F \subseteq W
                    /\ files' = copied(W, F)
               /\ UNCHANGED vhd
               /\ Fail
    BY ONLY CopyExtent, Zenon DEF CopyExtent
  <2> HIDE DEF copied, missed
  <2> QED BY <2>1, <1>1, <1>e
<1>5. handle' = handle BY DEF CopyExtent
<1> HIDE DEF copied, missed
<1>6. CASE /\ \E F \in SUBSET missed : files' = copied(extent, F)
           /\ vhd' = [vhd EXCEPT ![f].bits = @ \cup extent, ![f].dirty = @ \cup {call.block}]
           /\ call' = [call EXCEPT !.todo = @ \ extent,
                                   !.pc = IF extent = call.todo THEN "flushBits" ELSE "copy"]
           /\ UNCHANGED reply
  <2>0. PICK F \in SUBSET missed : files' = copied(extent, F) BY <1>6
  <2>f. F \in SUBSET extent /\ extent \in SUBSET Sectors BY <1>2, <1>m
  <2>1. DataCopied(f, extent) /\ call.block \in vhd[f].present
    <3>1. call.pc = "copy" BY DEF CopyExtent
    <3>2. DataCopied(f, extent) BY <2>0, <2>f, <1>3
    <3> QED BY <3>1, <3>2, <1>1 DEF TypeInv
  <2>r. ~Misreads => DataRead(f, extent)
    <3> SUFFICES ASSUME ~Misreads, NEW s \in extent
                 PROVE  files'[f].data[s] = ReadFrom(ParentsOf(View(f)), s, Pure(f))
      BY DEF DataRead
    <3>1. F = {} /\ ReadRange(P, extent, s, pure) = ReadFrom(P, s, pure) BY <1>w
    <3>2. files'[f].data[s] = ReadRange(P, extent, s, pure) BY <2>0, <2>f, <3>1, <1>3
    <3> QED BY <3>1, <3>2, <1>p
  <2>2. PICK o : o = [vhd[f] EXCEPT !.bits = @ \cup extent, !.dirty = @ \cup {call.block}] OBVIOUS
  <2>3. /\ o \in VhdObjects /\ o.open = vhd[f].open /\ o.flags = vhd[f].flags
        /\ o.parent = vhd[f].parent /\ o.present = vhd[f].present
        /\ o.bits = vhd[f].bits \cup extent /\ o.dirty = vhd[f].dirty \cup {call.block}
    <3>1. vhd[f].bits \cup extent \in SUBSET Sectors /\ vhd[f].dirty \cup {call.block} \in SUBSET Blocks
      BY <1>2, Fields
    <3> QED BY <2>2, <3>1, <1>2 DEF VhdObjects
  <2>4. vhd' = [vhd EXCEPT ![f] = o] BY <2>2, <1>6
  <2>5. vhd' \in [Objects -> VhdObjects] /\ vhd'[f] = o /\ \A g \in Objects \ {f} : vhd'[g] = vhd[g]
    BY <2>3, <2>4, <1>2, OneObject
  <2>6. \A g \in Objects : vhd'[g].dirty \subseteq vhd'[g].present
    BY <2>1, <2>3, <2>5, <1>1, <1>2, Fields
  <2>7. ObjectKept(f) BY <2>3, <2>5, <2>6 DEF ObjectKept
  <2>8. {"flushBits", "copy"} \subseteq CopyPcs /\ CopyPcs \subseteq SafelyPcs
    BY DEF CopyPcs, TmpPcs, SafelyPcs
  <2>9. /\ SameCall /\ call'.block = call.block /\ call'.todo = call.todo \ extent
        /\ call'.pc = IF extent = call.todo THEN "flushBits" ELSE "copy"
    BY <1>6, <2>8, CallFields DEF SameCall, Calls
  <2>10. call'.pc \in CopyPcs /\ call'.block \in vhd'[f].present BY <2>1, <2>3, <2>5, <2>8, <2>9
  <2>11. CopiesExtent BY <2>1, <2>r, <2>3, <2>5, <2>7, <2>9, <1>1, <1>e DEF CopiesExtent
  <2>12. CopyOutcome BY <2>1, <2>7, <2>9, <2>10, <1>1, <1>5, <1>6 DEF CopyOutcome, DataCopied, TypeInv
  <2> QED BY <2>11, <2>12
<1>7. CASE /\ \E W \in SUBSET extent, F \in SUBSET missed : F \subseteq W /\ files' = copied(W, F)
           /\ UNCHANGED vhd /\ Fail
  <2>1. PICK W \in SUBSET extent, F \in SUBSET missed : F \subseteq W /\ files' = copied(W, F) BY <1>7
  <2>2. DataCopied(f, W)
    <3>1. W \in SUBSET Sectors /\ F \in SUBSET W BY <2>1, <1>2
    <3> QED BY <3>1, <2>1, <1>3
  <2>3. ObjectKept(f) BY <1>7, Fields DEF ObjectKept, TypeInv
  <2>4. /\ reply' \in {"none", "ok", "error", "died"} /\ call'.pc # "copy"
        /\ \/ call.to = TailVhd /\ call' = NoCall
           \/ call.to = Tmp /\ GoesOn("giveUp")
    BY <1>7, Fails
  <2>5. CopiesExtent BY <2>1, <2>2, <2>4, <1>1, <1>e, <1>7 DEF CopiesExtent
  <2>6. CopyOutcome BY <2>2, <2>3, <2>4, <1>1, <1>5 DEF CopyOutcome, DataCopied
  <2> QED BY <2>5, <2>6
<1> QED BY <1>4, <1>6, <1>7

\* The dirty bitmaps and the table of f are on file, or a part of them.
Flushed(f) == WroteBack(f, vhd[f].dirty, vhd[f].present) /\ Cleaned(f, vhd[f].dirty)

FlushedPartly(f) ==
    \E D \in SUBSET vhd[f].dirty, table \in {vhd[f].present, files[f].present} :
       WroteBack(f, D, table) /\ Cleaned(f, D)

(* Flushing changes nothing but caches and their file. *)
LEMMA FlushedKept ==
  ASSUME TypeInv, NEW f \in Objects, Flushed(f) \/ FlushedPartly(f)
  PROVE  Kept(f) /\ ObjectKept(f)
BY BackKept DEF Flushed, FlushedPartly

(* Flushing the bitmaps of a block. *)
LEMMA FlushBitsDoes ==
  ASSUME TypeInv, FlushBits
  PROVE  /\ \/ Flushed(call.to) /\ NextBlock
            \/ /\ FlushedPartly(call.to)
               /\ (call.to = TailVhd /\ call' = NoCall) \/ (call.to = Tmp /\ GoesOn("giveUp"))
         /\ CopyOutcome
<1>1. PICK f : f = call.to OBVIOUS
<1>2. f \in Objects BY <1>1, CallFields
<1>3. (FlushOk(f) /\ NextBlock) \/ (FlushFails(f) /\ Fail) BY <1>1 DEF FlushBits
<1>4. handle' = handle BY DEF FlushBits
<1>5. CASE FlushOk(f) /\ NextBlock
  <2>1. Flushed(f) BY <1>2, <1>5, FlushesOk DEF Flushed
  <2>2. Kept(f) /\ ObjectKept(f) BY <2>1, <1>2, FlushedKept
  <2>3. SameCall /\ reply' = reply /\ call'.pc \in CopyPcs /\ call'.pc # "copy"
    BY <1>5, NextBlocks DEF CopyPcs
  <2> QED BY <2>1, <2>2, <2>3, <1>1, <1>4, <1>5 DEF CopyOutcome, TypeInv
<1>6. CASE FlushFails(f) /\ Fail
  <2>1. FlushedPartly(f) BY <1>2, <1>6, FlushesPartly DEF FlushedPartly
  <2>2. Kept(f) /\ ObjectKept(f) BY <2>1, <1>2, FlushedKept
  <2>3. /\ reply' \in {"none", "ok", "error", "died"}
        /\ \/ call.to = TailVhd /\ call' = NoCall
           \/ call.to = Tmp /\ GoesOn("giveUp")
    BY <1>6, Fails
  <2> QED BY <2>1, <2>2, <2>3, <1>1, <1>4 DEF CopyOutcome, GoesOn, NoCall
<1> QED BY <1>3, <1>5, <1>6

(* Closing the old parents before the parent is changed. *)
LEMMA DetachDoes ==
  ASSUME TypeInv, Detach
  PROVE  /\ \/ /\ Flushed(call.to) /\ SameCall /\ call'.pc = "locators" /\ call'.loc = 1
               /\ call'.todo = call.todo
            \/ /\ Flushed(call.to) \/ FlushedPartly(call.to)
               /\ (call.to = TailVhd /\ call' = NoCall) \/ (call.to = Tmp /\ GoesOn("giveUp"))
         /\ CopyOutcome
<1>1. PICK f : f = call.to OBVIOUS
<1>2. f \in Objects BY <1>1, CallFields
<1>3. \/ FlushOk(f) /\ call' = [call EXCEPT !.pc = "locators", !.loc = 1] /\ UNCHANGED reply
      \/ FlushOk(f) /\ Fail
      \/ FlushFails(f) /\ Fail
  BY <1>1 DEF Detach
<1>4. handle' = handle BY DEF Detach
<1>5. ASSUME FlushOk(f) PROVE Flushed(f) BY <1>2, <1>5, FlushesOk DEF Flushed
<1>6. ASSUME FlushFails(f) PROVE FlushedPartly(f) BY <1>2, <1>6, FlushesPartly DEF FlushedPartly
<1>7. CASE FlushOk(f) /\ call' = [call EXCEPT !.pc = "locators", !.loc = 1] /\ UNCHANGED reply
  <2>1. Kept(f) /\ ObjectKept(f) BY <1>2, <1>5, <1>7, FlushedKept
  <2>2. "locators" \in SafelyPcs /\ 1 \in Locators
    BY NamesAreNumbers DEF SafelyPcs, TmpPcs, LinkPcs
  <2>3. SameCall /\ call'.pc = "locators" /\ call'.loc = 1 /\ call'.todo = call.todo
    BY <2>2, <1>7, CallFields DEF SameCall, Calls
  <2> QED BY <2>1, <2>3, <1>1, <1>4, <1>5, <1>7 DEF CopyOutcome, TypeInv
<1>8. CASE (FlushOk(f) \/ FlushFails(f)) /\ Fail
  <2>1. Flushed(f) \/ FlushedPartly(f) BY <1>5, <1>6, <1>8
  <2>2. Kept(f) /\ ObjectKept(f) BY <2>1, <1>2, FlushedKept
  <2>3. /\ reply' \in {"none", "ok", "error", "died"}
        /\ \/ call.to = TailVhd /\ call' = NoCall
           \/ call.to = Tmp /\ GoesOn("giveUp")
    BY <1>8, Fails
  <2> QED BY <2>1, <2>2, <2>3, <1>1, <1>4 DEF CopyOutcome, GoesOn, NoCall
<1> QED BY <1>3, <1>7, <1>8

(* Copying keeps the types and the structure. *)
LEMMA CopyingKeeps ==
  ASSUME TypeInv, NEW S, Struct(S), call.op # "none", call.pc \in CopyPcs, CopyOutcome
  PROVE  TypeInv' /\ Struct(S)'
<1>1. PICK f : f = call.to OBVIOUS
<1>2. f \in Objects BY <1>1, CallFields
<1>3. Kept(f) /\ ObjectKept(f) /\ handle' = handle BY <1>1 DEF CopyOutcome
<1>4. TypeInv'
  <2>1. call' \in Calls BY Constants DEF CopyOutcome, SameCall, GoesOn
  <2>2. call'.pc = "copy" => call'.block \in vhd'[call'.to].present
    BY Constants DEF CopyOutcome, SameCall, GoesOn
  <2> QED BY <2>1, <2>2, <1>3 DEF TypeInv, Kept, ObjectKept, CopyOutcome
<1>5. ChainKept BY <1>2, <1>3, KeptChain
<1>6. /\ vhd'[TailVhd].open = vhd[TailVhd].open /\ vhd'[TailVhd].parent = vhd[TailVhd].parent
      /\ vhd'[Tmp].open = vhd[Tmp].open
  BY <1>3, NamesAreNumbers DEF ObjectKept, Objects
<1>7. vhd[TailVhd].open => handle BY DEF Struct, CallInv
<1>8. call.op = "intoTail" \/ call.op = "safely" BY CallFields
<1>9. CASE call.to = TailVhd /\ call' = NoCall
  <2>1. call.op # "safely" BY <1>9, NamesAreNumbers DEF Struct, SafelyInv
  <2>2. ~vhd'[Tmp].open BY <2>1, <1>6 DEF Struct, CallInv
  <2> QED BY <2>2, <1>3, <1>4, <1>5, <1>6, <1>7, <1>9, StructNone
<1>10. CASE call.to = Tmp /\ GoesOn("giveUp")
  <2>1. call.op = "safely" BY <1>8, <1>10, NamesAreNumbers DEF Struct, IntoTailInv
  <2>2. call.pc \in TmpPcs /\ call.pc \notin {"rename", "reopen"} BY DEF TmpPcs, CopyPcs
  <2>3. vhd'[Tmp].open BY <2>1, <2>2, <1>6 DEF Struct, CallInv
  <2> QED BY <2>1, <2>2, <2>3, <1>3, <1>4, <1>5, <1>6, <1>10, StructGivesUp DEF GoesOn
<1>11. CASE SameCall /\ (call'.pc \in CopyPcs \/ (call'.pc = "locators" /\ call'.loc = 1))
  BY <1>1, <1>3, <1>4, <1>11, StructCopies
<1> QED BY <1>9, <1>10, <1>11 DEF CopyOutcome

-----------------------------------------------------------------------------
(***************************************************************************)
(* The client                                                              *)
(***************************************************************************)

(* Opening fills bitmaps at most. *)
LEMMA FilledType ==
  ASSUME TypeInv, NEW v \in Vhds, NEW flags
  PROVE  /\ Filled(v, flags) \in Vhds /\ SameFrame(v, Filled(v, flags))
         /\ "PURE" \notin flags => Filled(v, flags) = v
<1>1. CASE {"RDWR", "PURE"} \subseteq flags
  <2> DEFINE missing == {s \in Sectors \ v.bits : SectorToBlockNumber(s) \in v.present}
             d == [s \in Sectors |-> IF s \in missing THEN ReadFrom(ParentsOf(v), s, TRUE)
                                     ELSE v.data[s]]
  <2>1. \A s \in Sectors : ReadFrom(ParentsOf(v), s, TRUE) \in Data BY ReadFromData
  <2>2. d \in [Sectors -> Data] BY <2>1 DEF Vhds
  <2>3. v.bits \cup missing \in SUBSET Sectors BY DEF Vhds
  <2>4. Filled(v, flags) = [v EXCEPT !.bits = v.bits \cup missing, !.data = d]
    BY <1>1 DEF Filled
  <2> HIDE DEF missing, d
  <2> QED BY <1>1, <2>2, <2>3, <2>4 DEF Vhds, SameFrame
<1>2. CASE ~({"RDWR", "PURE"} \subseteq flags)
  <2>1. Filled(v, flags) = v BY <1>2 DEF Filled
  <2> QED BY <2>1 DEF SameFrame
<1> QED BY <1>1, <1>2

(* An object that is opened. *)
LEMMA OpenedType ==
  ASSUME NEW v \in Vhds, NEW flags \in SUBSET Flags, NEW parent \in 0 .. NoUuid
  PROVE  /\ Opened(v, flags, parent) \in VhdObjects /\ Opened(v, flags, parent).open
         /\ Opened(v, flags, parent).flags = flags /\ Opened(v, flags, parent).parent = parent
         /\ Opened(v, flags, parent).present = v.present /\ Opened(v, flags, parent).bits = v.bits
         /\ Opened(v, flags, parent).dirty = {}
BY DEF Opened, VhdObjects, Vhds

\* The tail is opened, with the header of its file.
OpensTail(flags) ==
    /\ CanOpen(files[TailVhd]) /\ handle' = TRUE
    /\ Kept(TailVhd) /\ files'[TailVhd] = Filled(files[TailVhd], flags)
    /\ vhd' \in [Objects -> VhdObjects] /\ \A g \in Objects \ {TailVhd} : vhd'[g] = vhd[g]
    /\ vhd'[TailVhd] = Opened(files'[TailVhd], flags, files[TailVhd].parent)

(* VHD_Open. *)
LEMMA OpenDoes ==
  ASSUME TypeInv, NEW flags \in Modes, Open(flags)
  PROVE  /\ ~handle /\ call' = call /\ reply' \in {"ok", "error"}
         /\ \/ OpensTail(flags)
            \/ UNCHANGED <<files, handle, vhd>>
<1>1. ~handle /\ call' = call /\ reply' \in {"ok", "error"} BY DEF Open
<1>2. CASE UNCHANGED <<files, handle, vhd>> BY <1>1, <1>2
<1>3. CASE ~UNCHANGED <<files, handle, vhd>>
  <2>1. PICK v : v = Filled(files[TailVhd], flags) OBVIOUS
  <2>2. /\ CanOpen(files[TailVhd]) /\ files' = [files EXCEPT ![TailVhd] = v] /\ handle' = TRUE
        /\ vhd' = [vhd EXCEPT ![TailVhd] = Opened(v, flags, v.parent)]
    BY <2>1, <1>3 DEF Open
  <2>3. files[TailVhd] \in Vhds /\ TailVhd \in Objects /\ TailVhd \in Names BY Fields
  <2>4. v \in Vhds /\ SameFrame(files[TailVhd], v) BY <2>1, <2>3, FilledType
  <2>5. Kept(TailVhd) /\ files'[TailVhd] = v
    BY <2>2, <2>3, <2>4, OneFile DEF Kept
  <2>6. v.parent = files[TailVhd].parent /\ v.parent \in 0 .. NoUuid BY <2>4 DEF SameFrame, Vhds
  <2>7. Opened(v, flags, v.parent) \in VhdObjects
    <3>1. flags \in SUBSET Flags BY CallsAssumption
    <3> QED BY <3>1, <2>4, <2>6, OpenedType
  <2>8. /\ vhd' \in [Objects -> VhdObjects] /\ vhd'[TailVhd] = Opened(v, flags, v.parent)
        /\ \A g \in Objects \ {TailVhd} : vhd'[g] = vhd[g]
    BY <2>2, <2>3, <2>7, OneObject
  <2> QED BY <2>1, <2>2, <2>5, <2>6, <2>8, <1>1 DEF OpensTail
<1> QED BY <1>2, <1>3

\* Sector s is written to the file of the tail, whose block may be new.
Writes(s) ==
    LET b == SectorToBlockNumber(s)
        fresh == b \notin vhd[TailVhd].present
        all == SectorsOf(b)
        old == IF fresh THEN vhd[TailVhd].bits \ all ELSE vhd[TailVhd].bits
    IN  /\ Kept(TailVhd) /\ ObjectKept(TailVhd)
        /\ files'[TailVhd].data[s] = New
        /\ \A t \in Sectors \ {s} : (fresh /\ t \in all) \/ files'[TailVhd].data[t] = files[TailVhd].data[t]
        /\ files'[TailVhd].present = IF fresh THEN vhd[TailVhd].present \cup {b}
                                     ELSE files[TailVhd].present
        /\ vhd'[TailVhd].present = vhd[TailVhd].present \cup {b}
        /\ ~Pure(TailVhd) =>
             /\ vhd'[TailVhd].bits = old \cup {s}
             /\ files'[TailVhd].bits = IF fresh THEN old \cup {s} ELSE files[TailVhd].bits
        /\ vhd'[TailVhd].dirty = IF fresh THEN {} ELSE IF all \subseteq old THEN vhd[TailVhd].dirty
                                 ELSE vhd[TailVhd].dirty \cup {b}

(* VHD_WriteSectors. *)
LEMMA WriteSectorsDoes ==
  ASSUME TypeInv, NEW s \in Writable, WriteSectors(s)
  PROVE  Ready /\ Writes(s) /\ call' = call /\ handle' = handle /\ reply' = "ok"
<1> DEFINE b == SectorToBlockNumber(s)
           fresh == b \notin vhd[TailVhd].present
           all == SectorsOf(b)
           bits == IF Pure(TailVhd) THEN all ELSE {s}
           old == IF fresh THEN vhd[TailVhd].bits \ all ELSE vhd[TailVhd].bits
           dirt == IF fresh THEN {} ELSE IF all \subseteq old THEN vhd[TailVhd].dirty
                   ELSE vhd[TailVhd].dirty \cup {b}
           data == [t \in Sectors |->
                       CASE t = s -> New
                         [] t \in all \ {s} /\ fresh -> IF Pure(TailVhd) THEN Seen[t] ELSE Junk
                         [] OTHER -> files[TailVhd].data[t]]
           now == IF fresh THEN vhd[TailVhd].present \cup {b} ELSE files[TailVhd].present
           bit == IF fresh THEN old \cup bits ELSE files[TailVhd].bits
<1>1. /\ vhd' = [vhd EXCEPT ![TailVhd].present = @ \cup {b}, ![TailVhd].bits = old \cup bits,
                            ![TailVhd].dirty = dirt]
      /\ files' = [files EXCEPT ![TailVhd].data = data,
                     ![TailVhd].present = IF fresh THEN vhd[TailVhd].present \cup {b} ELSE @,
                     ![TailVhd].bits = IF fresh THEN old \cup bits ELSE @]
      /\ Ready /\ call' = call /\ handle' = handle /\ reply' = "ok"
  BY DEF WriteSectors, Refuse
<1>2. s \in Sectors /\ b \in Blocks /\ all \subseteq Sectors /\ s \in all
  <2>1. s \in Sectors BY CallsAssumption
  <2> QED BY <2>1, BlockOfSector DEF SectorsOf
<1>3. /\ TailVhd \in Objects /\ TailVhd \in Names
      /\ files[TailVhd] \in Vhds /\ vhd[TailVhd] \in VhdObjects
      /\ files[TailVhd].data \in [Sectors -> Data]
      /\ files[TailVhd].present \subseteq Blocks /\ files[TailVhd].bits \subseteq Sectors
      /\ vhd[TailVhd].present \subseteq Blocks /\ vhd[TailVhd].bits \subseteq Sectors
      /\ vhd[TailVhd].dirty \subseteq Blocks /\ vhd[TailVhd].dirty \subseteq vhd[TailVhd].present
  BY Fields
<1>4. data \in [Sectors -> Data] /\ data[s] = New
      /\ \A t \in Sectors \ {s} : (fresh /\ t \in all) \/ data[t] = files[TailVhd].data[t]
  <2>1. Seen \in [Sectors -> Data]
    <3>1. View(TailVhd).data \in [Sectors -> Data] BY <1>3, ViewFields
    <3> QED BY <3>1, ContentsData DEF Seen
  <2>2. ASSUME NEW t \in Sectors PROVE data[t] \in Data
    BY <2>1, <1>3, Constants
  <2>3. data[s] = New BY <1>2
  <2>4. ASSUME NEW t \in Sectors \ {s}, ~(fresh /\ t \in all) PROVE data[t] = files[TailVhd].data[t]
    BY <2>4
  <2> QED BY <2>2, <2>3, <2>4
<1>5. bits \in SUBSET Sectors /\ old \in SUBSET Sectors /\ dirt \in SUBSET Blocks
      /\ now \in SUBSET Blocks /\ bit \in SUBSET Sectors
      /\ dirt \subseteq vhd[TailVhd].present \cup {b}
  BY <1>2, <1>3
<1>6. PICK w : w = [files[TailVhd] EXCEPT !.data = data, !.present = now, !.bits = bit] OBVIOUS
<1>7. PICK o : o = [vhd[TailVhd] EXCEPT !.present = @ \cup {b}, !.bits = old \cup bits, !.dirty = dirt]
  OBVIOUS
<1>8. files' = [files EXCEPT ![TailVhd] = w] /\ vhd' = [vhd EXCEPT ![TailVhd] = o]
  BY <1>1, <1>6, <1>7
<1>p. ~Pure(TailVhd) => bits = {s} OBVIOUS
<1>9. /\ w \in Vhds /\ SameFrame(files[TailVhd], w) /\ w.data = data /\ w.present = now /\ w.bits = bit
  <2> HIDE DEF data, now, bit
  <2> QED BY <1>3, <1>4, <1>5, <1>6 DEF Vhds, SameFrame
<1>10. /\ o \in VhdObjects /\ o.open = vhd[TailVhd].open /\ o.flags = vhd[TailVhd].flags
       /\ o.parent = vhd[TailVhd].parent /\ o.present = vhd[TailVhd].present \cup {b}
       /\ o.bits = old \cup bits /\ o.dirty = dirt
  <2> HIDE DEF b, old, bits, dirt
  <2> QED BY <1>2, <1>3, <1>5, <1>7 DEF VhdObjects
<1>11. /\ files' \in [Names -> Vhds] /\ files'[TailVhd] = w
       /\ \A g \in Names \ {TailVhd} : files'[g] = files[g]
  BY <1>3, <1>8, <1>9, OneFile
<1>12. /\ vhd' \in [Objects -> VhdObjects] /\ vhd'[TailVhd] = o
       /\ \A g \in Objects \ {TailVhd} : vhd'[g] = vhd[g]
  BY <1>3, <1>8, <1>10, OneObject
<1>13. \A g \in Objects : vhd'[g].dirty \subseteq vhd'[g].present
  BY <1>5, <1>10, <1>12, Fields
<1>14. Kept(TailVhd) BY <1>9, <1>11 DEF Kept
<1>15. ObjectKept(TailVhd) BY <1>10, <1>12, <1>13 DEF ObjectKept
<1>16. files'[TailVhd].data = data /\ files'[TailVhd].present = now /\ files'[TailVhd].bits = bit
       /\ vhd'[TailVhd].present = vhd[TailVhd].present \cup {b}
       /\ vhd'[TailVhd].bits = old \cup bits /\ vhd'[TailVhd].dirty = dirt
  BY <1>9, <1>10, <1>11, <1>12
<1>17. Writes(s)
  <2> HIDE DEF data
  <2> QED BY <1>4, <1>14, <1>15, <1>16, <1>p DEF Writes
<1> QED BY <1>1, <1>17

(* VHD_Close; a process that dies in closing has flushed a part. *)
LEMMA CloseDoes ==
  ASSUME TypeInv, Close
  PROVE  /\ handle /\ call = NoCall /\ call' = NoCall /\ handle' = FALSE /\ Kept(TailVhd)
         /\ \/ /\ reply' = "ok" /\ vhd' = [vhd EXCEPT ![TailVhd] = Closed]
               /\ \/ vhd[TailVhd].open /\ WroteBack(TailVhd, vhd[TailVhd].dirty, vhd[TailVhd].present)
                  \/ ~vhd[TailVhd].open /\ files' = files
            \/ /\ reply' = "died" /\ vhd' = [g \in Objects |-> Closed]
               /\ \E D \in SUBSET vhd[TailVhd].dirty,
                     table \in {vhd[TailVhd].present, files[TailVhd].present} :
                    /\ WroteBack(TailVhd, D, table)
                    /\ D # vhd[TailVhd].dirty \/ table # vhd[TailVhd].present
<1>1. handle /\ call = NoCall BY DEF Close
<1>2. TailVhd \in Objects BY Fields
<1>3. CASE CloseDies(TailVhd)
  <2>1. /\ \E D \in SUBSET vhd[TailVhd].dirty,
              table \in {vhd[TailVhd].present, files[TailVhd].present} :
                /\ WroteBack(TailVhd, D, table)
                /\ D # vhd[TailVhd].dirty \/ table # vhd[TailVhd].present
        /\ handle' = FALSE /\ vhd' = [g \in Objects |-> Closed] /\ call' = NoCall /\ reply' = "died"
    BY <1>2, <1>3, DiesClosing
  <2>2. Kept(TailVhd) BY <2>1 DEF WroteBack, Kept
  <2> QED BY <2>1, <2>2, <1>1
<1>4. CASE ~CloseDies(TailVhd)
  <2>1. /\ handle' = FALSE /\ vhd' = [vhd EXCEPT ![TailVhd] = Closed]
        /\ files' = IF vhd[TailVhd].open
                    THEN [files EXCEPT ![TailVhd] = Written(TailVhd, vhd[TailVhd].dirty)]
                    ELSE files
        /\ reply' = "ok" /\ call' = call
    BY <1>4 DEF Close, Refuse
  <2>2. CASE vhd[TailVhd].open
    <3>1. files[TailVhd] \in Vhds /\ vhd[TailVhd].present \in SUBSET Blocks BY Fields
    <3>2. Written(TailVhd, vhd[TailVhd].dirty)
            = [Written(TailVhd, vhd[TailVhd].dirty) EXCEPT !.present = vhd[TailVhd].present]
      BY <3>1 DEF Written, Vhds
    <3>3. WroteBack(TailVhd, vhd[TailVhd].dirty, vhd[TailVhd].present)
      BY <2>1, <2>2, <3>1, <3>2, <1>2, WritesBack
    <3>4. Kept(TailVhd) BY <3>3 DEF WroteBack, Kept
    <3> QED BY <2>1, <2>2, <3>3, <3>4, <1>1
  <2>3. CASE ~vhd[TailVhd].open
    <3>1. Kept(TailVhd) BY <2>1, <2>3 DEF Kept, SameFrame, TypeInv
    <3> QED BY <2>1, <2>3, <3>1, <1>1
  <2> QED BY <2>2, <2>3
<1> QED BY <1>3, <1>4

(* With no call, the temporary file is not open. *)
LEMMA NoCallNoTmp ==
  ASSUME NEW S, Struct(S), call.op = "none"
  PROVE  call = NoCall /\ ~vhd[Tmp].open
BY DEF Struct, CallInv

(* A process that has died. *)
LEMMA DeadKeeps ==
  ASSUME TypeInv, NEW S, Struct(S), files' \in [Names -> Vhds], ChainKept, handle' = FALSE,
         vhd' = [g \in Objects |-> Closed], call' = NoCall, reply' \in {"none", "ok", "error", "died"}
  PROVE  TypeInv' /\ Struct(S)'
<1>1. \A g \in Objects : vhd'[g] = Closed OBVIOUS
<1>2. TailVhd \in Objects /\ Tmp \in Objects BY Fields
<1>3. ~vhd'[TailVhd].open /\ ~vhd'[Tmp].open BY <1>1, <1>2, Constants
<1>4. Struct(S)' BY <1>3, StructNone
<1>5. vhd' \in [Objects -> VhdObjects] /\ \A g \in Objects : vhd'[g].dirty \subseteq vhd'[g].present
  BY <1>1, Constants
<1> QED BY <1>4, <1>5, Constants DEF TypeInv

(* VHD_Open, VHD_WriteSectors, VHD_Flush and VHD_Close keep the types and the structure. *)
LEMMA OpenKeeps ==
  ASSUME TypeInv, NEW S, Struct(S), NEW flags \in Modes, Open(flags)
  PROVE  TypeInv' /\ Struct(S)'
<1>1. ~handle /\ call' = call /\ reply' \in {"ok", "error"} BY OpenDoes
<1>2. call = NoCall /\ ~vhd[Tmp].open
  <2>1. call.op = "none" BY <1>1 DEF Struct, CallInv
  <2> QED BY <2>1, NoCallNoTmp
<1>3. call' = NoCall /\ call'.pc # "copy" /\ call' \in Calls BY <1>1, <1>2, Constants
<1>4. CASE UNCHANGED <<files, handle, vhd>>
  <2>1. ChainKept BY <1>4 DEF ChainKept
  <2>2. vhd'[TailVhd].open => handle' BY <1>4 DEF Struct, CallInv
  <2>3. Struct(S)' BY <2>1, <2>2, <1>2, <1>3, <1>4, StructNone
  <2> QED BY <2>3, <1>1, <1>3, <1>4 DEF TypeInv
<1>5. CASE OpensTail(flags)
  <2>1. Kept(TailVhd) /\ handle' = TRUE BY <1>5 DEF OpensTail
  <2>2. ChainKept BY <2>1, Fields, KeptChain
  <2>3. vhd'[Tmp] = vhd[Tmp] BY <1>5, Fields DEF OpensTail
  <2>4. Struct(S)' BY <2>1, <2>2, <2>3, <1>2, <1>3, StructNone
  <2>5. vhd'[TailVhd].dirty = {} BY <1>5 DEF OpensTail, Opened
  <2>6. \A g \in Objects : vhd'[g].dirty \subseteq vhd'[g].present
    BY <2>5, <1>5, Fields DEF OpensTail
  <2> QED BY <2>1, <2>4, <2>6, <1>1, <1>3, <1>5 DEF TypeInv, OpensTail, Kept
<1> QED BY <1>4, <1>5, OpenDoes

(* As long as only caches of the tail change, no more is needed. *)
LEMMA TailKeeps ==
  ASSUME TypeInv, NEW S, Struct(S), call = NoCall, call' = NoCall, Kept(TailVhd), ObjectKept(TailVhd),
         handle' = handle, reply' \in {"none", "ok", "error", "died"}
  PROVE  TypeInv' /\ Struct(S)'
<1>1. ChainKept BY Fields, KeptChain
<1>2. call'.pc # "copy" /\ call' \in Calls /\ call.op = "none" BY Constants
<1>3. ~vhd'[Tmp].open
  <2>1. ~vhd[Tmp].open BY <1>2, NoCallNoTmp
  <2> QED BY <2>1, Fields DEF ObjectKept
<1>4. vhd'[TailVhd].open => handle' BY DEF Struct, CallInv, ObjectKept
<1>5. Struct(S)' BY <1>1, <1>3, <1>4, StructNone
<1> QED BY <1>2, <1>5 DEF TypeInv, Kept, ObjectKept

(* What the client does keeps the types and the structure. *)
LEMMA ClientKeeps ==
  ASSUME TypeInv, NEW S, Struct(S),
         (\E s \in Writable : WriteSectors(s)) \/ Flush \/ Close \/ ProcessDies
  PROVE  TypeInv' /\ Struct(S)'
<1>0. TailVhd \in Objects BY Fields
<1>1. ASSUME NEW s \in Writable, WriteSectors(s) PROVE TypeInv' /\ Struct(S)'
  <2>1. Ready /\ Writes(s) /\ call' = call /\ handle' = handle /\ reply' = "ok"
    BY <1>1, WriteSectorsDoes
  <2>2. call = NoCall /\ call' = NoCall BY <2>1 DEF Ready
  <2>3. Kept(TailVhd) /\ ObjectKept(TailVhd) BY <2>1 DEF Writes
  <2> QED BY <2>1, <2>2, <2>3, TailKeeps
<1>2. CASE Flush
  <2>1. call = NoCall /\ call' = NoCall /\ handle' = handle /\ reply' \in {"ok", "error"}
    BY <1>2 DEF Flush, Ready, Refuse
  <2>2. Flushed(TailVhd) \/ FlushedPartly(TailVhd)
    BY <1>0, <1>2, FlushesOk, FlushesPartly DEF Flush, Flushed, FlushedPartly
  <2>3. Kept(TailVhd) /\ ObjectKept(TailVhd) BY <2>2, <1>0, FlushedKept
  <2> QED BY <2>1, <2>3, TailKeeps
<1>3. CASE Close
  <2>1. /\ handle /\ call = NoCall /\ call' = NoCall /\ handle' = FALSE /\ Kept(TailVhd)
        /\ reply' \in {"ok", "died"}
        /\ vhd' = [vhd EXCEPT ![TailVhd] = Closed] \/ vhd' = [g \in Objects |-> Closed]
    BY <1>3, CloseDoes
  <2>2. ChainKept /\ files' \in [Names -> Vhds] BY <2>1, <1>0, KeptChain DEF Kept
  <2>3. CASE vhd' = [g \in Objects |-> Closed] BY <2>1, <2>2, <2>3, DeadKeeps
  <2>4. CASE vhd' = [vhd EXCEPT ![TailVhd] = Closed]
    <3>1. /\ vhd' \in [Objects -> VhdObjects] /\ vhd'[TailVhd] = Closed
          /\ \A g \in Objects \ {TailVhd} : vhd'[g] = vhd[g]
      BY <2>4, <1>0, Constants, OneObject
    <3>2. call.op = "none" /\ call'.pc # "copy" /\ call' \in Calls BY <2>1, Constants
    <3>3. ~vhd[Tmp].open BY <3>2, NoCallNoTmp
    <3>4. ~vhd'[Tmp].open /\ ~vhd'[TailVhd].open BY <3>1, <3>3, Constants, Fields
    <3>5. Struct(S)' BY <2>1, <2>2, <3>4, StructNone
    <3>6. \A g \in Objects : vhd'[g].dirty \subseteq vhd'[g].present
      BY <3>1, Constants, Fields
    <3> QED BY <2>1, <2>2, <3>1, <3>2, <3>5, <3>6 DEF TypeInv
  <2> QED BY <2>1, <2>3, <2>4
<1>4. CASE ProcessDies
  <2>1. files' = files /\ handle' = FALSE /\ vhd' = [g \in Objects |-> Closed] /\ call' = NoCall
        /\ reply' = "died"
    BY <1>4 DEF ProcessDies, Return
  <2>2. ChainKept /\ files' \in [Names -> Vhds] BY <2>1 DEF ChainKept, TypeInv
  <2> QED BY <2>1, <2>2, DeadKeeps
<1> QED BY <1>1, <1>2, <1>3, <1>4

(* VHD_CoalesceChain begins with a structure. *)
LEMMA CoalesceChainKeeps ==
  ASSUME TypeInv, NEW S, Struct(S), NEW args \in Args, CoalesceChain(args)
  PROVE  TypeInv' /\ Struct(S)'
<1>0. S \in SUBSET (1 .. NumDiffs) BY DEF Struct, Path
<1>1. /\ UNCHANGED <<files, handle, vhd>> /\ reply' \in {"none", "ok", "error"}
      /\ call = NoCall /\ handle /\ vhd[TailVhd].open
  BY CoalesceChainStarts
<1>2. ChainKept BY <1>1 DEF ChainKept
<1>3. ~vhd[Tmp].open BY <1>1, Constants, NoCallNoTmp
<1>4. CASE call' = call
  <2>1. Struct(S)' BY <1>1, <1>2, <1>3, <1>4, StructNone
  <2> QED BY <2>1, <1>1, <1>4 DEF TypeInv
<1>5. Path(S)' /\ TailInv(S)' /\ \A p : Leads(p)' <=> Leads(p)
  BY <1>2, ChainFrame DEF Struct
<1>6. CASE /\ files[TailVhd].kind = "diff" /\ Leads(vhd[TailVhd].parent)
           /\ StartsIntoTail(S)
  <2>1. "block" \in CopyPcs /\ "block" \in IntoTailPcs /\ "block" \notin LinkPcs
    BY DEF CopyPcs, IntoTailPcs, LinkPcs
  <2>2. call'.op = "intoTail" /\ call'.pc = "block" /\ call' \in Calls BY <1>6 DEF StartsIntoTail
  <2>3. Leads(vhd[TailVhd].parent)' /\ vhd[TailVhd].parent \in S
    <3>1. PICK p : p = vhd[TailVhd].parent OBVIOUS
    <3>2. Leads(p)' BY <3>1, <1>5, <1>6
    <3> QED BY <3>1, <3>2, <1>1, <1>6 DEF StartsIntoTail
  <2>4. CallInv(S)' BY <2>2, <2>3, <1>1, <1>3, <1>6 DEF CallInv
  <2>5. SafelyInv(S)' BY <2>2 DEF SafelyInv
  <2>6. IntoTailInv(S)'
    <3>1. LinkInv(TailVhd)' BY <2>2 DEF LinkInv
    <3>2. StrayNames' = {f \in S : vhd[TailVhd].parent <= f /\ f < call'.parent}
      BY <1>6 DEF StartsIntoTail, StrayNames, Between
    <3> QED BY <2>1, <2>2, <3>1, <3>2, <1>1, <1>6 DEF IntoTailInv, StartsIntoTail
  <2>7. TypeInv' BY <2>2, <1>1 DEF TypeInv
  <2> QED BY <2>4, <2>5, <2>6, <2>7, <1>5 DEF Struct
<1>7. CASE /\ files[TailVhd].kind = "diff" /\ Leads(vhd[TailVhd].parent)
           /\ StartsSafely(S)
  <2>1. "create" \in SafelyPcs /\ "create" \notin TmpPcs /\ "create" \notin CopyPcs
        /\ "create" \notin LinkPcs
    BY DEF SafelyPcs, TmpPcs, CopyPcs, LinkPcs
  <2>2. call'.op = "safely" /\ call'.pc = "create" /\ call' \in Calls /\ call'.to = Tmp
    BY <1>7 DEF StartsSafely
  <2>3. Leads(vhd[TailVhd].parent)' /\ vhd[TailVhd].parent \in S
    <3>1. PICK p : p = vhd[TailVhd].parent OBVIOUS
    <3>2. Leads(p)' BY <3>1, <1>5, <1>7
    <3>3. p \in S BY <3>1, <1>7, <1>0, EnumerationShape DEF StartsSafely
    <3> QED BY <3>1, <3>2, <3>3, <1>1
  <2>4. CallInv(S)' BY <2>1, <2>2, <2>3, <1>1, <1>3, <1>7 DEF CallInv
  <2>5. IntoTailInv(S)' BY <2>2 DEF IntoTailInv
  <2>6. PICK P : /\ Enumerates(P, S, vhd[TailVhd].parent)
                 /\ call'.idx >= 1 /\ call'.len >= 2 /\ call'.idx + call'.len - 1 <= Len(P)
                 /\ NamesIn(call'.strays)
                      = {f \in S : P[call'.idx] < f /\ f <= P[call'.idx + call'.len - 1]}
    BY <1>7 DEF StartsSafely
  <2>7. P = ParentsOf(View(TailVhd))'
    <3>1. TypeInv' BY <2>2, <1>1 DEF TypeInv
    <3>2. /\ TypeInv' /\ Path(S)' /\ TailInv(S)'
          /\ files'[TailVhd].kind = "diff" /\ Leads(vhd[TailVhd].parent)'
          => Enumerates(ParentsOf(View(TailVhd))', S, vhd'[TailVhd].parent)
      BY <1>0, TailEnumeratedNext
    <3>3. Enumerates(ParentsOf(View(TailVhd))', S, vhd[TailVhd].parent)
      BY <3>1, <3>2, <2>3, <1>1, <1>5, <1>7
    <3>4. PICK Q, q : Q = ParentsOf(View(TailVhd))' /\ q = vhd[TailVhd].parent OBVIOUS
    <3>5. Enumerates(P, S, q) /\ Enumerates(Q, S, q) BY <3>3, <3>4, <2>6
    <3>6. P = Q BY <3>5, <1>0, EnumerationUnique
    <3> QED BY <3>4, <3>6
  <2>8. SafelyInv(S)'
    <3>1. LinkInv(Tmp)' BY <2>2 DEF LinkInv
    <3>2. "create" \notin {"rename", "reopen", "closeTail", "flushTmp", "unlink"} OBVIOUS
    <3>3. ParentsOf(View(TailVhd))' = P BY <2>7
    <3>4. StrayNames' = {f \in S : P[call'.idx] < f /\ f <= P[call'.idx + call'.len - 1]}
      BY <2>6 DEF StrayNames
    <3>5. (LET R == ParentsOf(View(TailVhd))
           IN  /\ call.idx >= 1 /\ call.len >= 2 /\ call.idx + call.len - 1 <= Len(R)
               /\ StrayNames = {f \in S : R[call.idx] < f /\ f <= R[call.idx + call.len - 1]})'
      BY <2>6, <3>3, <3>4
    <3> QED BY <2>1, <2>2, <3>1, <3>2, <3>5, <1>1 DEF SafelyInv
  <2>9. TypeInv' BY <2>2, <1>1 DEF TypeInv
  <2> QED BY <2>4, <2>5, <2>8, <2>9, <1>5 DEF Struct
<1> QED BY <1>4, <1>6, <1>7, CoalesceChainStarts

-----------------------------------------------------------------------------
(***************************************************************************)
(* The temporary file                                                      *)
(***************************************************************************)

(* Whose steps they are. *)
LEMMA StepOfCall ==
  ASSUME TypeInv, NEW S, Struct(S), call.pc # "none"
  PROVE  /\ call.op \in {"intoTail", "safely"} /\ handle
         /\ call.op = "intoTail" => call.to = TailVhd /\ call.pc \in IntoTailPcs
         /\ call.op = "safely" => call.to = Tmp /\ call.pc \in SafelyPcs
         /\ call.pc \in {"create", "generate", "giveUp", "flushTmp", "closeTail", "rename", "reopen"}
              => call.op = "safely"
         /\ call.to = TailVhd <=> call.op = "intoTail"
         /\ call.to = Tmp <=> call.op = "safely"
<1>1. call.op # "none" BY Constants DEF Struct, CallInv
<1>2. call.op \in {"intoTail", "safely"} /\ handle BY <1>1 DEF Struct, CallInv
<1>3. call.op = "intoTail" => call.to = TailVhd /\ call.pc \in IntoTailPcs
  BY DEF Struct, IntoTailInv
<1>4. call.op = "safely" => call.to = Tmp /\ call.pc \in SafelyPcs
  BY DEF Struct, SafelyInv
<1>5. \A pc \in IntoTailPcs :
        pc \notin {"create", "generate", "giveUp", "flushTmp", "closeTail", "rename", "reopen"}
  BY DEF IntoTailPcs, CopyPcs, LinkPcs
<1> QED BY <1>2, <1>3, <1>4, <1>5, Fields

(* The parents the object of the tail has are the same before and after. *)
LEMMA SameParents ==
  ASSUME TypeInv, TypeInv', NEW S, Path(S), TailInv(S), files[TailVhd].kind = "diff",
         Leads(vhd[TailVhd].parent), ChainKept, vhd'[TailVhd].parent = vhd[TailVhd].parent
  PROVE  ParentsOf(View(TailVhd))' = ParentsOf(View(TailVhd))
<1>0. S \in SUBSET (1 .. NumDiffs) BY DEF Path
<1>1. PICK P, Q, q : /\ P = ParentsOf(View(TailVhd)) /\ Q = ParentsOf(View(TailVhd))'
                     /\ q = vhd[TailVhd].parent
  OBVIOUS
<1>2. Enumerates(P, S, q) BY <1>0, <1>1, TailEnumerated
<1>3. Path(S)' /\ TailInv(S)' /\ \A p : Leads(p)' <=> Leads(p) BY ChainFrame
<1>4. Leads(vhd[TailVhd].parent)' BY <1>1, <1>3
<1>5. files'[TailVhd].kind = "diff" BY DEF ChainKept
<1>6. Enumerates(ParentsOf(View(TailVhd))', S, vhd'[TailVhd].parent)
  BY <1>0, <1>3, <1>4, <1>5, TailEnumeratedNext
<1>7. Enumerates(Q, S, q) BY <1>1, <1>6
<1>8. P = Q BY <1>0, <1>2, <1>7, EnumerationUnique
<1> QED BY <1>1, <1>8

(* Only the temporary file is replaced, and no object. *)
LEMMA TmpReplaced ==
  ASSUME TypeInv, NEW w \in Vhds, files' = [files EXCEPT ![Tmp] = w]
  PROVE  /\ files' \in [Names -> Vhds] /\ files'[Tmp] = w /\ ChainKept
         /\ \A g \in Names \ {Tmp} : files'[g] = files[g]
<1>1. Tmp \in Names BY Fields
<1> QED BY <1>1, OneFile, TmpChain

\* The temporary file, and no other, changes; it is gone as long as files can be deleted.
TmpLeft ==
    /\ files' \in [Names -> Vhds] /\ ChainKept /\ \A g \in Names \ {Tmp} : files'[g] = files[g]
    /\ "unlink" \notin Faults => files'[Tmp] = NoFile

(* Deleting the temporary file. *)
LEMMA TmpUnlinked ==
  ASSUME TypeInv, NEW v \in Vhds, UnlinkTmp(v)
  PROVE  TmpLeft
<1>1. CASE files' = [files EXCEPT ![Tmp] = NoFile]
  BY <1>1, Constants, TmpReplaced DEF TmpLeft
<1>2. CASE CanFail("unlink") /\ files' = [files EXCEPT ![Tmp] = v]
  BY <1>2, TmpReplaced DEF TmpLeft, CanFail
<1> QED BY <1>1, <1>2 DEF UnlinkTmp

(* Creating the temporary file fails, or it is there. *)
LEMMA CreateTmpDoes ==
  ASSUME TypeInv, CreateTmp
  PROVE  \/ TmpLeft /\ Return("error")
         \/ files' = [files EXCEPT ![Tmp] = BadFile] /\ Goto("generate")
<1>1. files[Tmp] \in Vhds BY Fields
<1>2. UnlinkTmp(files[Tmp]) => TmpLeft BY <1>1, TmpUnlinked
<1> QED BY <1>2 DEF CreateTmp

(* Creating the temporary file. *)
LEMMA CreateTmpKeeps ==
  ASSUME TypeInv, NEW S, Struct(S), CreateTmp
  PROVE  TypeInv' /\ Struct(S)'
<1>1. call.pc = "create" /\ handle' = handle /\ vhd' = vhd BY DEF CreateTmp
<1>2. call.op = "safely" /\ call.to = Tmp BY <1>1, StepOfCall
<1>3. ~vhd[Tmp].open /\ (vhd[TailVhd].open => handle)
  BY <1>1, <1>2 DEF Struct, CallInv, TmpPcs, CopyPcs, LinkPcs
<1>4. CASE TmpLeft /\ Return("error")
  <2>1. ChainKept /\ files' \in [Names -> Vhds] BY <1>4 DEF TmpLeft
  <2>2. call' = NoCall /\ reply' = "error" BY <1>4 DEF Return
  <2>3. Struct(S)' BY <2>1, <2>2, <1>1, <1>3, StructNone
  <2> QED BY <2>1, <2>2, <2>3, <1>1, Constants DEF TypeInv
<1>5. CASE files' = [files EXCEPT ![Tmp] = BadFile] /\ Goto("generate")
  <2>1. ChainKept /\ files' \in [Names -> Vhds] BY <1>5, Constants, TmpReplaced
  <2>2. GoesOn("generate") /\ reply' = reply
    <3>1. "generate" \in SafelyPcs BY DEF SafelyPcs
    <3> QED BY <3>1, <1>5, Gotos
  <2>3. TypeInv' BY <2>1, <2>2, <1>1 DEF TypeInv, GoesOn, SameCall
  <2>4. /\ files[TailVhd].kind = "diff" /\ vhd[TailVhd].parent \in S /\ Leads(vhd[TailVhd].parent)
    BY <1>2 DEF Struct, CallInv
  <2>5. ParentsOf(View(TailVhd))' = ParentsOf(View(TailVhd))
    BY <2>1, <2>3, <2>4, <1>1, SameParents DEF Struct
  <2>6. Path(S)' /\ TailInv(S)' /\ \A p : Leads(p)' <=> Leads(p)
    BY <2>1, ChainFrame DEF Struct
  <2>7. /\ call'.op = "safely" /\ call'.to = Tmp /\ call'.pc = "generate" /\ call'.idx = call.idx
        /\ call'.len = call.len /\ StrayNames' = StrayNames
    BY <2>2, <1>2 DEF GoesOn, SameCall, StrayNames
  <2>8. CallInv(S)'
    <3>1. Leads(vhd[TailVhd].parent)'
      <4>1. PICK p : p = vhd[TailVhd].parent OBVIOUS
      <4>2. Leads(p)' BY <4>1, <2>4, <2>6
      <4> QED BY <4>1, <4>2, <1>1
    <3>2. "generate" \notin TmpPcs \cup {"giveUp"} BY DEF TmpPcs, CopyPcs, LinkPcs
    <3> QED BY <3>1, <3>2, <2>1, <2>4, <2>7, <1>1, <1>2, <1>3 DEF Struct, CallInv, ChainKept
  <2>9. IntoTailInv(S)' BY <2>7 DEF IntoTailInv
  <2>10. SafelyInv(S)'
    <3>1. LinkInv(Tmp)' BY <2>7 DEF LinkInv
    <3>2. "generate" \in SafelyPcs /\ "generate" \notin TmpPcs /\ "generate" \notin CopyPcs
      BY DEF SafelyPcs, TmpPcs, CopyPcs, LinkPcs
    <3>3. PICK P : P = ParentsOf(View(TailVhd)) OBVIOUS
    <3>4. /\ call.idx >= 1 /\ call.len >= 2 /\ call.idx + call.len - 1 <= Len(P)
          /\ StrayNames = {f \in S : P[call.idx] < f /\ f <= P[call.idx + call.len - 1]}
          /\ vhd[TailVhd].open
      BY <3>3, <1>1, <1>2 DEF Struct, SafelyInv
    <3>5. (LET R == ParentsOf(View(TailVhd))
           IN  /\ call.idx >= 1 /\ call.len >= 2 /\ call.idx + call.len - 1 <= Len(R)
               /\ StrayNames = {f \in S : R[call.idx] < f /\ f <= R[call.idx + call.len - 1]})'
      BY <3>3, <3>4, <2>5, <2>7
    <3> QED BY <2>7, <3>1, <3>2, <3>4, <3>5, <1>1 DEF SafelyInv
  <2> QED BY <2>3, <2>6, <2>8, <2>9, <2>10 DEF Struct
<1> QED BY <1>4, <1>5, CreateTmpDoes

\* It is empty, and the child of file r with the UUID of r.
EmptyTmp(r, w) ==
    /\ w \in Vhds /\ w.kind = "diff" /\ w.uuid = r /\ w.parent = r
    /\ (\A i \in Locators : w.locs[i] = r) /\ w.present = {} /\ w.bits = {}

\* The temporary file is generated for file r, and the files from r up to before p.
Generates(S, r) ==
    /\ r \in S /\ vhd[TailVhd].parent <= r
    /\ \A g \in Names \ {Tmp} : files'[g] = files[g]
    /\ files' \in [Names -> Vhds] /\ EmptyTmp(r, files'[Tmp])
    /\ vhd' \in [Objects -> VhdObjects] /\ vhd'[TailVhd] = vhd[TailVhd]
    /\ vhd'[Tmp].open /\ vhd'[Tmp].flags = {"RDWR"} /\ vhd'[Tmp].parent = r
    /\ vhd'[Tmp].present = {} /\ vhd'[Tmp].bits = {} /\ vhd'[Tmp].dirty = {}
    /\ \/ GoesOn("giveUp")
       \/ /\ call' \in Calls /\ call' = [call EXCEPT !.pc = "block", !.parent = call'.parent]
          /\ call'.parent \in S /\ r < call'.parent
          /\ StrayNames = {f \in S : r < f /\ f < call'.parent}
          /\ Ahead(S, r, call.len, call'.parent)

(* What follows in an enumeration is an enumeration. *)
LEMMA EnumerationAhead ==
  ASSUME NEW S \in SUBSET (1 .. NumDiffs), NEW q, NEW P, Enumerates(P, S, q),
         NEW i \in 1 .. Len(P), NEW n \in Nat, i + n \in 1 .. Len(P)
  PROVE  Ahead(S, P[i], n, P[i + n])
<1>1. P \in Seq(S) /\ Len(P) \in Nat \ {0} BY EnumerationShape
<1>2. PICK Q : Q = SubSeq(P, i, Len(P)) OBVIOUS
<1>3. \A j \in i .. Len(P) : P[j] \in S BY <1>1, ElementOfSeq
<1>4. /\ Q \in Seq(S) /\ Len(Q) = (Len(P) - i) + 1
      /\ \A j \in 1 .. (Len(P) - i) + 1 : Q[j] = P[(i + j) - 1]
  BY <1>1, <1>2, <1>3, SubSeqProperties
<1>5. Q # << >> /\ Q[1] = P[i] /\ Q[Len(Q)] = HeadVhd
  <2>1. Len(Q) \in 1 .. Len(Q) /\ 1 \in 1 .. Len(Q) /\ (i + 1) - 1 = i /\ (i + Len(Q)) - 1 = Len(P)
    BY <1>1, <1>4
  <2>2. Q[1] = P[(i + 1) - 1] BY <2>1, <1>4
  <2>3. Q[Len(Q)] = P[(i + Len(Q)) - 1] BY <2>1, <1>4
  <2>4. P[Len(P)] = HeadVhd BY DEF Enumerates
  <2>5. Q # << >>
    <3>1. Len(Q) # 0 BY <2>1
    <3> QED BY <3>1
  <2>6. Q[1] = P[i] BY <2>1, <2>2
  <2>7. Q[Len(Q)] = HeadVhd BY <2>1, <2>3, <2>4
  <2> QED BY <2>5, <2>6, <2>7
<1>6. ASSUME NEW j \in 1 .. Len(Q), j + 1 <= Len(Q) PROVE Follows(S, Q[j], Q[j + 1])
  <2>1. PICK k : k = (i + j) - 1 OBVIOUS
  <2>2. /\ k \in 1 .. Len(P) /\ k + 1 <= Len(P) /\ Q[j] = P[k] /\ (i + (j + 1)) - 1 = k + 1
        /\ j + 1 \in 1 .. Len(Q)
    BY <2>1, <1>1, <1>4, <1>6
  <2>3. Q[j + 1] = P[k + 1] BY <2>2, <1>4
  <2> QED BY <2>2, <2>3 DEF Enumerates
<1>7. Enumerates(Q, S, P[i]) BY <1>4, <1>5, <1>6 DEF Enumerates
<1>8. n + 1 \in 1 .. Len(Q) /\ (i + (n + 1)) - 1 = i + n BY <1>1, <1>4
<1> QED BY <1>4, <1>7, <1>8 DEF Ahead

(* Generating the temporary file. *)
LEMMA GenerateTmpDoes ==
  ASSUME TypeInv, NEW S, Struct(S), GenerateTmp
  PROVE  /\ call.pc = "generate" /\ handle' = handle /\ reply' \in {"none", "ok", "error", "died"}
         /\ \/ \E r \in S : Generates(S, r)
            \/ TmpLeft /\ call' = NoCall /\ vhd' = vhd
<1>0. S \in SUBSET (1 .. NumDiffs) /\ NumDiffs \in Nat /\ NumDiffs <= NoUuid
      /\ \A f \in S : f \in Nat /\ f \in Names /\ f \in 0 .. NoUuid
  <2>1. S \in SUBSET (1 .. NumDiffs) BY DEF Struct, Path
  <2> QED BY <2>1, NamesAreNumbers
<1>1. call.pc = "generate" /\ handle' = handle BY DEF GenerateTmp
<1>2. call.op = "safely" /\ call.to = Tmp BY <1>1, StepOfCall
<1>3. /\ files[TailVhd].kind = "diff" /\ vhd[TailVhd].parent \in S /\ Leads(vhd[TailVhd].parent)
  BY <1>1, <1>2 DEF Struct, CallInv
<1>4. PICK P, q, i, n : /\ P = ParentsOf(View(TailVhd)) /\ q = vhd[TailVhd].parent
                        /\ i = call.idx /\ n = call.len
  OBVIOUS
<1>5. Enumerates(P, S, q) BY <1>0, <1>3, <1>4, TailEnumerated DEF Struct
<1>6. /\ i >= 1 /\ n >= 2 /\ i + n - 1 <= Len(P) /\ i \in Nat /\ n \in Nat
      /\ StrayNames = {f \in S : P[i] < f /\ f <= P[i + n - 1]}
  BY <1>1, <1>2, <1>4, CallFields DEF Struct, SafelyInv
<1>7. /\ Len(P) \in Nat \ {0} /\ P \in Seq(S)
      /\ \A j \in 1 .. Len(P) : P[j] \in S /\ P[j] \in 1 .. NumDiffs /\ q <= P[j]
      /\ \A j, k \in 1 .. Len(P) : j < k <=> P[j] < P[k]
  BY <1>0, <1>5, EnumerationShape
<1>8. i \in 1 .. Len(P) /\ i + n - 1 \in 1 .. Len(P) BY <1>6, <1>7
<1>9. PICK r \in S : r = P[i] BY <1>7, <1>8
<1>10. files[r].uuid = r BY PathOpens DEF Struct
<1>11. PICK w : w = TmpFile OBVIOUS
<1>12. EmptyTmp(r, w)
  <2>1. w = [NoFile EXCEPT !.kind = "diff", !.uuid = r, !.parent = r, !.locs = [j \in Locators |-> r]]
    BY <1>4, <1>9, <1>10, <1>11 DEF TmpFile
  <2>2. NoFile \in Vhds /\ NoFile.present = {} /\ NoFile.bits = {} BY Constants DEF NoFile
  <2>3. r \in Names /\ r \in 0 .. NoUuid BY <1>0, <1>9
  <2> QED BY <2>1, <2>2, <2>3 DEF Vhds, EmptyTmp
<1>13. CASE /\ CanFail("write") \/ CanFail("read")
            /\ UnlinkTmp(BadFile) \/ UnlinkTmp(w)
            /\ Return("error") /\ UNCHANGED vhd
  <2>1. BadFile \in Vhds /\ w \in Vhds BY <1>12, Constants DEF EmptyTmp
  <2>2. TmpLeft BY <2>1, <1>13, TmpUnlinked
  <2> QED BY <2>2, <1>1, <1>13 DEF Return
<1>14. CASE /\ files' = [files EXCEPT ![Tmp] = w]
            /\ vhd' = [vhd EXCEPT ![Tmp] = Opened(w, {"RDWR"}, w.parent)]
            /\ IF Len(P) >= i + n
               THEN /\ call' = [call EXCEPT !.pc = "block", !.parent = NewParent(n, i, P)]
                    /\ UNCHANGED reply
               ELSE Goto("giveUp")
  <2>1. w \in Vhds BY <1>12 DEF EmptyTmp
  <2>2. files' \in [Names -> Vhds] /\ files'[Tmp] = w /\ \A g \in Names \ {Tmp} : files'[g] = files[g]
    BY <2>1, <1>14, TmpReplaced
  <2>3. PICK o : o = Opened(w, {"RDWR"}, w.parent) OBVIOUS
  <2>4. /\ o \in VhdObjects /\ o.open /\ o.flags = {"RDWR"} /\ o.parent = r
        /\ o.present = {} /\ o.bits = {} /\ o.dirty = {}
    <3>1. {"RDWR"} \in SUBSET Flags /\ w.parent \in 0 .. NoUuid /\ w.parent = r
          /\ w.present = {} /\ w.bits = {}
      BY <1>0, <1>9, <1>12 DEF Flags, EmptyTmp
    <3>2. PICK flags, p : flags = {"RDWR"} /\ p = w.parent OBVIOUS
    <3>3. flags \in SUBSET Flags /\ p \in 0 .. NoUuid /\ o = Opened(w, flags, p) BY <3>1, <3>2, <2>3
    <3>4. /\ o \in VhdObjects /\ o.open /\ o.flags = flags /\ o.parent = p
          /\ o.present = w.present /\ o.bits = w.bits /\ o.dirty = {}
      BY <3>3, <2>1, OpenedType
    <3> QED BY <3>1, <3>2, <3>4
  <2>5. vhd' \in [Objects -> VhdObjects] /\ vhd'[Tmp] = o /\ vhd'[TailVhd] = vhd[TailVhd]
    BY <2>3, <2>4, <1>14, OneObject, Fields
  <2>6. vhd[TailVhd].parent <= r BY <1>4, <1>7, <1>8, <1>9
  <2>7. CASE ~(Len(P) >= i + n)
    <3>1. GoesOn("giveUp") /\ reply' = reply
      <4>1. "giveUp" \in SafelyPcs BY DEF SafelyPcs
      <4> QED BY <4>1, <2>7, <1>14, Gotos
    <3>2. Generates(S, r) BY <3>1, <2>2, <2>4, <2>5, <2>6, <1>9, <1>12 DEF Generates
    <3> QED BY <3>1, <3>2, <1>1 DEF TypeInv
  <2>8. CASE Len(P) >= i + n
    <3>1. i + n \in 1 .. Len(P) /\ i < i + n /\ i + n - 1 < i + n /\ (i + n - 1) + 1 = i + n
      BY <2>8, <1>6, <1>7
    <3>2. NewParent(n, i, P) = P[i + n] BY <1>6 DEF NewParent
    <3>3. PICK p \in S : p = P[i + n] BY <3>1, <1>7
    <3>4. call' = [call EXCEPT !.pc = "block", !.parent = p] /\ reply' = reply
      BY <3>2, <3>3, <2>8, <1>14
    <3>5. call' \in Calls /\ call'.parent = p
      <4>1. p \in Names /\ "block" \in SafelyPcs BY <3>3, <1>0 DEF SafelyPcs, TmpPcs, CopyPcs
      <4> QED BY <3>4, <4>1, CallFields DEF Calls
    <3>6. r < p BY <3>1, <3>3, <1>7, <1>8, <1>9
    <3>7. Follows(S, P[i + n - 1], P[i + n])
      <4>1. PICK k : k = i + n - 1 OBVIOUS
      <4>2. k \in 1 .. Len(P) /\ k + 1 <= Len(P) /\ k + 1 = i + n BY <4>1, <3>1, <1>8
      <4> QED BY <4>1, <4>2, <1>5 DEF Enumerates
    <3>8. \A f \in S : f <= P[i + n - 1] <=> f < p
      <4> SUFFICES ASSUME NEW f \in S PROVE f <= P[i + n - 1] <=> f < p OBVIOUS
      <4>1. f \in Nat /\ p \in Nat /\ P[i + n - 1] \in Nat BY <1>0, <1>7, <1>8, <3>3
      <4> QED BY <4>1, <3>3, <3>7 DEF Follows
    <3>9. StrayNames = {f \in S : r < f /\ f < p}
      BY <3>8, <1>6, <1>9
    <3>a. Ahead(S, r, n, p)
      BY <1>0, <1>5, <1>6, <1>8, <1>9, <3>1, <3>3, EnumerationAhead
    <3>10. Generates(S, r)
      BY <1>4, <3>a, <3>4, <3>5, <3>6, <3>9, <2>2, <2>4, <2>5, <2>6, <1>9, <1>12, <3>3 DEF Generates
    <3> QED BY <3>4, <3>10, <1>1 DEF TypeInv
  <2> QED BY <2>7, <2>8
<1> QED BY <1>4, <1>11, <1>13, <1>14 DEF GenerateTmp

(* Generating the temporary file keeps the types and the structure. *)
LEMMA GenerateTmpKeeps ==
  ASSUME TypeInv, NEW S, Struct(S), GenerateTmp
  PROVE  TypeInv' /\ Struct(S)'
<1>0. S \in SUBSET (1 .. NumDiffs) /\ TailVhd \in Objects /\ Tmp \in Objects /\ Objects = {TailVhd, Tmp}
  BY Fields DEF Struct, Path, Objects
<1>1. call.pc = "generate" /\ handle' = handle /\ reply' \in {"none", "ok", "error", "died"}
  BY GenerateTmpDoes
<1>2. call.op = "safely" /\ call.to = Tmp BY <1>1, StepOfCall
<1>3. ~vhd[Tmp].open /\ (vhd[TailVhd].open => handle) /\ vhd[TailVhd].open /\ handle
  BY <1>1, <1>2 DEF Struct, CallInv, SafelyInv, TmpPcs, CopyPcs, LinkPcs
<1>4. CASE TmpLeft /\ call' = NoCall /\ vhd' = vhd
  <2>1. ChainKept /\ files' \in [Names -> Vhds] BY <1>4 DEF TmpLeft
  <2>2. Struct(S)' BY <2>1, <1>1, <1>3, <1>4, StructNone
  <2> QED BY <2>1, <2>2, <1>1, <1>4, Constants DEF TypeInv
<1>5. ASSUME NEW r \in S, Generates(S, r) PROVE TypeInv' /\ Struct(S)'
  <2>1. ChainKept BY <1>5, TmpChain DEF Generates
  <2>2. \A g \in Objects : vhd'[g].dirty \subseteq vhd'[g].present
    BY <1>0, <1>5, Fields DEF Generates
  <2>3. CASE GoesOn("giveUp")
    <3>1. TypeInv' BY <2>2, <2>3, <1>1, <1>5 DEF Generates, TypeInv, GoesOn, SameCall
    <3>2. Struct(S)'
      BY <2>1, <2>3, <1>1, <1>2, <1>5, StructGivesUp DEF Generates, GoesOn
    <3> QED BY <3>1, <3>2
  <2>4. CASE /\ call' \in Calls /\ call' = [call EXCEPT !.pc = "block", !.parent = call'.parent]
             /\ call'.parent \in S /\ r < call'.parent
             /\ StrayNames = {f \in S : r < f /\ f < call'.parent}
    <3>1. /\ call'.pc = "block" /\ call'.op = "safely" /\ call'.to = Tmp /\ StrayNames' = StrayNames
      <4>1. PICK p : p = call'.parent OBVIOUS
      <4>2. call' = [call EXCEPT !.pc = "block", !.parent = p] BY <4>1, <2>4
      <4> QED BY <4>2, <1>2, CallFields DEF Calls, StrayNames
    <3>2. TypeInv' BY <2>2, <2>4, <3>1, <1>1, <1>5 DEF Generates, TypeInv
    <3>3. Path(S)' /\ TailInv(S)' /\ \A p : Leads(p)' <=> Leads(p)
      BY <2>1, ChainFrame DEF Struct
    <3>4. /\ files[TailVhd].kind = "diff" /\ vhd[TailVhd].parent \in S /\ Leads(vhd[TailVhd].parent)
      BY <1>1, <1>2 DEF Struct, CallInv
    <3>5. Leads(vhd[TailVhd].parent)'
      <4>1. PICK p : p = vhd[TailVhd].parent OBVIOUS
      <4>2. Leads(p)' BY <4>1, <3>3, <3>4
      <4> QED BY <4>1, <4>2, <1>5 DEF Generates
    <3>6. "block" \in TmpPcs /\ "block" \in SafelyPcs /\ "block" \in CopyPcs /\ "block" \notin LinkPcs
      BY DEF TmpPcs, CopyPcs, LinkPcs, SafelyPcs
    <3>7. CallInv(S)'
      BY <2>1, <3>1, <3>4, <3>5, <3>6, <1>1, <1>3, <1>5 DEF CallInv, Generates, ChainKept
    <3>8. IntoTailInv(S)' BY <3>1 DEF IntoTailInv
    <3>9. SafelyInv(S)'
      <4>1. LinkInv(Tmp)' BY <3>1 DEF LinkInv
      <4>2. files'[Tmp].kind = "diff" /\ files'[Tmp].uuid = r /\ files'[Tmp].parent = r
            /\ \A i \in Locators : files'[Tmp].locs[i] = r
        BY <1>5 DEF Generates, EmptyTmp
      <4>3. vhd'[TailVhd].parent <= r /\ vhd'[Tmp].parent = r /\ vhd'[TailVhd].open
        BY <1>3, <1>5 DEF Generates
      <4> QED BY <4>1, <4>2, <4>3, <2>4, <3>1, <3>6 DEF SafelyInv
    <3> QED BY <3>2, <3>3, <3>7, <3>8, <3>9 DEF Struct
  <2> QED BY <2>3, <2>4, <1>5 DEF Generates
<1> QED BY <1>4, <1>5, GenerateTmpDoes

(* Giving the temporary file up, or dying. *)
LEMMA GiveUpDoes ==
  ASSUME TypeInv, GiveUp
  PROVE  \/ /\ TmpLeft /\ vhd' = [vhd EXCEPT ![Tmp] = Closed]
            /\ Return("error") /\ UNCHANGED handle
         \/ CloseDies(Tmp)
<1>1. Tmp \in Objects BY Fields
<1>2. PICK D : D = vhd[Tmp].dirty OBVIOUS
<1>3. Written(Tmp, D) \in Vhds BY <1>1, WrittenType
<1>4. UnlinkTmp(Written(Tmp, D)) => TmpLeft BY <1>3, TmpUnlinked
<1> QED BY <1>2, <1>4 DEF GiveUp

(* Giving the temporary file up. *)
LEMMA GiveUpKeeps ==
  ASSUME TypeInv, NEW S, Struct(S), GiveUp
  PROVE  TypeInv' /\ Struct(S)'
<1>0. TailVhd \in Objects /\ Tmp \in Objects /\ Tmp \in Names /\ TailVhd # Tmp BY Fields
<1>1. call.pc = "giveUp" BY DEF GiveUp
<1>2. call.op = "safely" /\ handle BY <1>1, StepOfCall
<1>3. CASE /\ TmpLeft /\ vhd' = [vhd EXCEPT ![Tmp] = Closed]
           /\ Return("error") /\ UNCHANGED handle
  <2>1. ChainKept /\ files' \in [Names -> Vhds] BY <1>3 DEF TmpLeft
  <2>2. /\ vhd' \in [Objects -> VhdObjects] /\ vhd'[Tmp] = Closed
        /\ \A g \in Objects \ {Tmp} : vhd'[g] = vhd[g]
    BY <1>0, <1>3, Constants, OneObject
  <2>3. call' = NoCall /\ reply' = "error" /\ handle' = handle BY <1>3 DEF Return
  <2>4. \A g \in Objects : vhd'[g].dirty \subseteq vhd'[g].present BY <2>2, Constants, Fields
  <2>5. Struct(S)' BY <2>1, <2>2, <2>3, <1>2, Constants, StructNone
  <2> QED BY <2>1, <2>2, <2>3, <2>4, <2>5, Constants DEF TypeInv
<1>4. CASE CloseDies(Tmp)
  <2>1. PICK D \in SUBSET vhd[Tmp].dirty, table \in {vhd[Tmp].present, files[Tmp].present} :
          WroteBack(Tmp, D, table)
    BY <1>0, <1>4, DiesClosing
  <2>2. /\ handle' = FALSE /\ vhd' = [g \in Objects |-> Closed]
        /\ call' = NoCall /\ reply' = "died"
    BY <1>0, <1>4, DiesClosing
  <2>3. Kept(Tmp) BY <2>1 DEF WroteBack, Kept
  <2>4. ChainKept /\ files' \in [Names -> Vhds] BY <2>3, <1>0, KeptChain DEF Kept
  <2> QED BY <2>2, <2>4, DeadKeeps
<1> QED BY <1>3, <1>4, GiveUpDoes

-----------------------------------------------------------------------------
(***************************************************************************)
(* Changing the parent                                                     *)
(***************************************************************************)

\* File f has other locators; its object has the new parent.
LocatorsWritten(f, L) ==
    /\ files' \in [Names -> Vhds] /\ \A g \in Names \ {f} : files'[g] = files[g]
    /\ files'[f] = [files[f] EXCEPT !.locs = L]
    /\ files'[f].kind = files[f].kind /\ files'[f].uuid = files[f].uuid
    /\ files'[f].parent = files[f].parent /\ files'[f].locs = L
    /\ files'[f].present = files[f].present /\ files'[f].bits = files[f].bits
    /\ files'[f].data = files[f].data
    /\ vhd' \in [Objects -> VhdObjects] /\ \A g \in Objects \ {f} : vhd'[g] = vhd[g]
    /\ vhd'[f].open = vhd[f].open /\ vhd'[f].flags = vhd[f].flags /\ vhd'[f].parent = call.parent
    /\ vhd'[f].present = vhd[f].present /\ vhd'[f].bits = vhd[f].bits /\ vhd'[f].dirty = vhd[f].dirty

\* The locators of f with one changed.
Relinked(f, x) == [files[f].locs EXCEPT ![call.loc] = x]

(* Writing a locator. *)
LEMMA WriteLocatorDoes ==
  ASSUME TypeInv, NEW S, Struct(S), WriteLocator
  PROVE  /\ call.pc = "locators" /\ call.parent \in S /\ handle' = handle
         /\ reply' \in {"none", "ok", "error", "died"}
         /\ \/ /\ LocatorsWritten(call.to, Relinked(call.to, call.parent)) /\ SameCall
               /\ call'.todo = call.todo /\ call'.block = call.block
               /\ \/ call.loc = NumLocators /\ call'.pc = "header"
                  \/ call.loc < NumLocators /\ call'.pc = "locators" /\ call'.loc = call.loc + 1
            \/ /\ \E L \in {files[call.to].locs, Relinked(call.to, call.parent),
                            Relinked(call.to, NoName)} : LocatorsWritten(call.to, L)
               /\ \/ call.to = TailVhd /\ call' = NoCall
                  \/ call.to = Tmp /\ GoesOn("giveUp")
<1>1. call.pc = "locators" /\ handle' = handle BY DEF WriteLocator
<1>2. call.op \in {"intoTail", "safely"} BY <1>1, StepOfCall
<1>3. call.parent \in S
  BY <1>1, <1>2 DEF Struct, IntoTailInv, SafelyInv, TmpPcs, LinkPcs
<1>4. files[call.parent].uuid = call.parent BY <1>3, PathOpens DEF Struct
<1>5. PICK f, p, k : f = call.to /\ p = call.parent /\ k = call.loc OBVIOUS
<1>6. /\ f \in Objects /\ f \in Names /\ k \in Locators /\ p \in Names /\ p \in 0 .. NoUuid
      /\ files[f] \in Vhds /\ vhd[f] \in VhdObjects
      /\ files[f].locs \in [Locators -> Names \cup {NoName}]
  <2>1. S \subseteq 1 .. NumDiffs BY DEF Struct, Path
  <2>2. p \in 1 .. NumDiffs BY <2>1, <1>3, <1>5
  <2>3. p \in Names /\ p \in 0 .. NoUuid BY <2>2, NamesAreNumbers
  <2> QED BY <2>3, <1>5, CallFields, Fields
<1>7. vhd' = [vhd EXCEPT ![f].parent = p] BY <1>4, <1>5 DEF WriteLocator
<1>8. PICK o : o = [vhd[f] EXCEPT !.parent = p] OBVIOUS
<1>9. /\ o \in VhdObjects /\ o.open = vhd[f].open /\ o.flags = vhd[f].flags /\ o.parent = p
      /\ o.present = vhd[f].present /\ o.bits = vhd[f].bits /\ o.dirty = vhd[f].dirty
  BY <1>6, <1>8 DEF VhdObjects
<1>10. vhd' \in [Objects -> VhdObjects] /\ vhd'[f] = o /\ \A g \in Objects \ {f} : vhd'[g] = vhd[g]
  <2>1. vhd' = [vhd EXCEPT ![f] = o] BY <1>7, <1>8
  <2> QED BY <2>1, <1>6, <1>9, OneObject
<1>11. ASSUME NEW L \in [Locators -> Names \cup {NoName}],
              files' = [files EXCEPT ![f] = [files[f] EXCEPT !.locs = L]]
       PROVE  LocatorsWritten(f, L)
  <2>1. PICK w : w = [files[f] EXCEPT !.locs = L] OBVIOUS
  <2>2. /\ w \in Vhds /\ w.kind = files[f].kind /\ w.uuid = files[f].uuid /\ w.parent = files[f].parent
        /\ w.locs = L /\ w.present = files[f].present /\ w.bits = files[f].bits
        /\ w.data = files[f].data
    BY <2>1, <1>6 DEF Vhds
  <2>3. files' \in [Names -> Vhds] /\ files'[f] = w /\ \A g \in Names \ {f} : files'[g] = files[g]
    BY <2>1, <2>2, <1>6, <1>11, OneFile
  <2> QED BY <2>1, <2>2, <2>3, <1>5, <1>9, <1>10 DEF LocatorsWritten
<1>12. ASSUME NEW x \in Names \cup {NoName}, files' = [files EXCEPT ![f].locs[k] = x]
       PROVE  LocatorsWritten(f, Relinked(f, x))
  <2>1. PICK L : L = Relinked(f, x) OBVIOUS
  <2>2. L \in [Locators -> Names \cup {NoName}] BY <2>1, <1>5, <1>6 DEF Relinked
  <2>3. files' = [files EXCEPT ![f] = [files[f] EXCEPT !.locs = L]]
    BY <2>1, <1>5, <1>12 DEF Relinked
  <2> QED BY <2>1, <2>2, <2>3, <1>11
<1>13. ASSUME files' = files PROVE LocatorsWritten(f, files[f].locs)
  <2>1. PICK L : L = files[f].locs OBVIOUS
  <2>2. [files[f] EXCEPT !.locs = L] = files[f] BY <2>1, <1>6 DEF Vhds
  <2>3. files' = [files EXCEPT ![f] = [files[f] EXCEPT !.locs = L]]
    BY <2>2, <1>13, <1>6 DEF TypeInv
  <2> QED BY <2>1, <2>3, <1>6, <1>11
<1>14. \/ /\ files' = [files EXCEPT ![f].locs[k] = p] /\ UNCHANGED reply
          /\ call' = IF k = NumLocators THEN [call EXCEPT !.pc = "header"]
                     ELSE [call EXCEPT !.loc = @ + 1]
       \/ /\ \/ files' = files
             \/ files' = [files EXCEPT ![f].locs[k] = p]
             \/ files' = [files EXCEPT ![f].locs[k] = NoName]
          /\ Fail
  BY <1>5 DEF WriteLocator
<1>15. CASE /\ files' = [files EXCEPT ![f].locs[k] = p] /\ UNCHANGED reply
            /\ call' = IF k = NumLocators THEN [call EXCEPT !.pc = "header"]
                       ELSE [call EXCEPT !.loc = @ + 1]
  <2>1. LocatorsWritten(f, Relinked(f, p)) BY <1>6, <1>12, <1>15
  <2>2. "header" \in SafelyPcs /\ "locators" \in SafelyPcs BY DEF SafelyPcs, TmpPcs, LinkPcs
  <2>3. k # NumLocators => k < NumLocators /\ k + 1 \in Locators
    BY <1>6, ChainAssumption DEF Locators
  <2>4. /\ SameCall /\ call'.todo = call.todo /\ call'.block = call.block
        /\ \/ k = NumLocators /\ call'.pc = "header"
           \/ k < NumLocators /\ call'.pc = "locators" /\ call'.loc = k + 1
    <3>1. CASE k = NumLocators
      <4>1. call' = [call EXCEPT !.pc = "header"] BY <3>1, <1>15
      <4> QED BY <4>1, <3>1, <2>2, CallFields DEF SameCall, Calls
    <3>2. CASE k # NumLocators
      <4>1. call' = [call EXCEPT !.loc = k + 1] BY <3>2, <1>5, <1>15
      <4> QED BY <4>1, <3>2, <2>3, <1>1, CallFields DEF SameCall, Calls
    <3> QED BY <3>1, <3>2
  <2> QED BY <2>1, <2>4, <1>1, <1>3, <1>5, <1>15 DEF TypeInv
<1>16. CASE /\ \/ files' = files
               \/ files' = [files EXCEPT ![f].locs[k] = p]
               \/ files' = [files EXCEPT ![f].locs[k] = NoName]
            /\ Fail
  <2>1. \/ LocatorsWritten(f, files[f].locs)
        \/ LocatorsWritten(f, Relinked(f, p))
        \/ LocatorsWritten(f, Relinked(f, NoName))
    BY <1>6, <1>12, <1>13, <1>16
  <2>2. /\ reply' \in {"none", "ok", "error", "died"}
        /\ \/ call.to = TailVhd /\ call' = NoCall
           \/ call.to = Tmp /\ GoesOn("giveUp")
    BY <1>16, Fails
  <2> QED BY <2>1, <2>2, <1>1, <1>3, <1>5
<1> QED BY <1>14, <1>15, <1>16

(* When no call is executed, the chain is all. *)
LEMMA StructNoCall ==
  ASSUME NEW S, Path(S)', TailInv(S)', call' = NoCall, vhd'[TailVhd].open => handle', ~vhd'[Tmp].open
  PROVE  Struct(S)'
<1>1. call'.op = "none" /\ call'.pc = "none" BY Constants
<1>2. CallInv(S)' BY <1>1 DEF CallInv
<1>3. IntoTailInv(S)' /\ SafelyInv(S)' BY <1>1 DEF IntoTailInv, SafelyInv
<1> QED BY <1>2, <1>3 DEF Struct

(* The temporary file is unlinked from its first parent. *)
LEMMA TmpLocatorKeeps ==
  ASSUME TypeInv, NEW S, Struct(S), WriteLocator, call.op = "safely"
  PROVE  Struct(S)'
<1>1. call.pc = "locators" /\ call.parent \in S /\ handle' = handle BY WriteLocatorDoes
<1>2. call.to = Tmp /\ call.to # TailVhd BY <1>1, Fields, StepOfCall
<1>3. PICK L : LocatorsWritten(Tmp, L) BY <1>2, WriteLocatorDoes
<1>4. ChainKept BY <1>3, TmpChain DEF LocatorsWritten
<1>5. /\ vhd'[TailVhd] = vhd[TailVhd] /\ vhd'[Tmp].open = vhd[Tmp].open
      /\ files'[Tmp].kind = files[Tmp].kind /\ files'[Tmp].uuid = files[Tmp].uuid
      /\ vhd'[Tmp].parent = call.parent
  BY <1>3, Fields DEF LocatorsWritten
<1>6. call.pc \in TmpPcs /\ call.pc \notin CopyPcs /\ "header" \in TmpPcs /\ "header" \notin CopyPcs
      /\ {"header", "locators"} \subseteq SafelyPcs
  BY <1>1 DEF TmpPcs, CopyPcs, LinkPcs, SafelyPcs
<1>7. vhd[Tmp].open /\ handle /\ vhd[TailVhd].open
  BY <1>1, <1>6 DEF Struct, CallInv, SafelyInv
<1>8. CASE GoesOn("giveUp")
  BY <1>1, <1>4, <1>5, <1>7, <1>8, StructGivesUp DEF GoesOn
<1>9. CASE /\ LocatorsWritten(call.to, Relinked(call.to, call.parent)) /\ SameCall
           /\ \/ call.loc = NumLocators /\ call'.pc = "header"
              \/ call.loc < NumLocators /\ call'.pc = "locators" /\ call'.loc = call.loc + 1
  <2>1. Path(S)' /\ TailInv(S)' /\ \A p : Leads(p)' <=> Leads(p) BY <1>4, ChainFrame DEF Struct
  <2>2. /\ files[TailVhd].kind = "diff" /\ vhd[TailVhd].parent \in S /\ Leads(vhd[TailVhd].parent)
    BY DEF Struct, CallInv
  <2>3. Leads(vhd[TailVhd].parent)'
    <3>1. PICK p : p = vhd[TailVhd].parent OBVIOUS
    <3>2. Leads(p)' BY <3>1, <2>1, <2>2
    <3> QED BY <3>1, <3>2, <1>5
  <2>4. call'.op = "safely" /\ call'.to = Tmp /\ call'.parent = call.parent /\ StrayNames' = StrayNames
        /\ call'.pc \in {"header", "locators"}
    BY <1>2, <1>9 DEF SameCall, StrayNames
  <2>5. call'.pc \in TmpPcs /\ call'.pc \notin CopyPcs /\ call'.pc \in SafelyPcs
        /\ call'.pc \notin {"create", "generate", "rename", "reopen", "closeTail", "flushTmp", "unlink"}
    BY <2>4, <1>1, <1>6
  <2>6. CallInv(S)' BY <2>2, <2>3, <2>4, <2>5, <1>1, <1>4, <1>5, <1>7 DEF CallInv, ChainKept
  <2>7. IntoTailInv(S)' BY <2>4 DEF IntoTailInv
  <2>8. LinkInv(Tmp)'
    <3>1. files'[Tmp].locs = [files[Tmp].locs EXCEPT ![call.loc] = call.parent]
      BY <1>2, <1>9 DEF LocatorsWritten, Relinked
    <3>2. files[Tmp].locs \in [Locators -> Names \cup {NoName}] /\ call.loc \in Locators
      BY Fields, CallFields
    <3>3. \A i \in Locators : i < call.loc => files[Tmp].locs[i] = call.parent
      BY <1>1 DEF Struct, SafelyInv, LinkInv
    <3>4. \A i \in Locators : i <= call.loc => files'[Tmp].locs[i] = call.parent
      <4> SUFFICES ASSUME NEW i \in Locators, i <= call.loc PROVE files'[Tmp].locs[i] = call.parent
        OBVIOUS
      <4>0. i \in Nat /\ call.loc \in Nat BY <3>2, NamesAreNumbers
      <4>1. i = call.loc \/ i < call.loc BY <4>0
      <4> QED BY <4>1, <3>1, <3>2, <3>3
    <3>5. CASE call.loc = NumLocators /\ call'.pc = "header"
      <4>1. \A i \in Locators : i <= call.loc BY <3>5, ChainAssumption DEF Locators
      <4> QED BY <4>1, <3>4, <3>5, <2>4, <1>5 DEF LinkInv
    <3>6. CASE call'.pc = "locators" /\ call'.loc = call.loc + 1
      <4>0. call.loc \in Nat /\ \A i \in Locators : i \in Nat BY <3>2, NamesAreNumbers
      <4>1. \A i \in Locators : i < call.loc + 1 => i <= call.loc BY <4>0
      <4> QED BY <4>1, <3>4, <3>6, <2>4, <1>5 DEF LinkInv
    <3> QED BY <3>5, <3>6, <1>9
  <2>9. SafelyInv(S)'
    <3>1. /\ files[Tmp].kind = "diff" /\ files[Tmp].uuid \in S
          /\ vhd[TailVhd].parent <= files[Tmp].uuid /\ files[Tmp].uuid < call.parent
          /\ StrayNames = {f \in S : files[Tmp].uuid < f /\ f < call.parent}
      BY <1>6 DEF Struct, SafelyInv
    <3> QED BY <3>1, <2>4, <2>5, <2>8, <1>1, <1>5, <1>7 DEF SafelyInv
  <2> QED BY <2>1, <2>6, <2>7, <2>9 DEF Struct
<1> QED BY <1>2, <1>8, <1>9, WriteLocatorDoes

(* A locator of the tail that is written, whether it succeeds or not, is in the chain, before those *)
(* that are still to be written.                                                                    *)
LEMMA RelinkedTail ==
  ASSUME TypeInv, NEW S, Struct(S), call.op = "intoTail", call.pc = "locators",
         NEW L \in {TailLocs, Relinked(TailVhd, call.parent), Relinked(TailVhd, NoName)}
  PROVE  /\ \A i \in Locators : L[i] \in S \cup {NoName}
         /\ \A i \in Locators : L[i] # NoName => L[i] <= call.parent
         /\ \A i, j \in Locators : i < j /\ L[i] # NoName /\ L[j] # NoName => L[j] <= L[i]
<1>1. call.pc \in LinkPcs BY DEF LinkPcs
<1>2. /\ call.parent \in S /\ \A i \in Locators : TailLocs[i] # NoName => TailLocs[i] <= call.parent
      /\ \A i \in Locators : i < call.loc => TailLocs[i] = call.parent
  BY <1>1 DEF Struct, IntoTailInv, LinkInv, TailLocs
<1>3. /\ \A i \in Locators : TailLocs[i] \in S \cup {NoName}
      /\ \A i, j \in Locators : i < j /\ TailLocs[i] # NoName /\ TailLocs[j] # NoName =>
           TailLocs[j] <= TailLocs[i]
  BY DEF Struct, TailInv
<1>4. /\ TailLocs \in [Locators -> Names \cup {NoName}] /\ call.loc \in Locators
      /\ \A i \in Locators : i \in Nat /\ \A f \in S : f \in Nat
      /\ NoName \notin S
  <2>1. S \subseteq 1 .. NumDiffs BY DEF Struct, Path
  <2>2. NoName \notin S BY <2>1, NamesAreNumbers
  <2> QED BY <2>1, <2>2, NamesAreNumbers, Fields, CallFields DEF TailLocs
<1>5. CASE L = TailLocs BY <1>2, <1>3, <1>5
<1>6. ASSUME NEW x \in {call.parent, NoName}, L = Relinked(TailVhd, x)
      PROVE  /\ \A i \in Locators : L[i] \in S \cup {NoName}
             /\ \A i \in Locators : L[i] # NoName => L[i] <= call.parent
             /\ \A i, j \in Locators : i < j /\ L[i] # NoName /\ L[j] # NoName => L[j] <= L[i]
  <2>1. L[call.loc] = x /\ \A i \in Locators : i # call.loc => L[i] = TailLocs[i]
    BY <1>4, <1>6 DEF Relinked, TailLocs
  <2>2. \A i \in Locators : L[i] \in S \cup {NoName} BY <2>1, <1>2, <1>3, <1>6
  <2>3. call.parent \in Nat /\ call.parent <= call.parent BY <1>2, <1>4
  <2>4. \A i \in Locators : L[i] # NoName => L[i] <= call.parent BY <2>1, <2>3, <1>2, <1>6
  <2>5. ASSUME NEW i \in Locators, NEW j \in Locators, i < j, L[i] # NoName, L[j] # NoName
        PROVE  L[j] <= L[i]
    <3>1. CASE i = call.loc
      <4>1. L[i] = call.parent BY <3>1, <2>1, <2>5, <1>6
      <4> QED BY <4>1, <2>4, <2>5
    <3>2. CASE j = call.loc
      <4>1. i < call.loc /\ i # call.loc BY <3>2, <2>5, <1>4
      <4>2. L[i] = call.parent BY <4>1, <2>1, <1>2
      <4> QED BY <4>2, <2>4, <2>5
    <3>3. CASE i # call.loc /\ j # call.loc
      BY <3>3, <2>1, <2>5, <1>3
    <3> QED BY <3>1, <3>2, <3>3
  <2> QED BY <2>2, <2>4, <2>5
<1> QED BY <1>5, <1>6

(* The tail is unlinked from its parents, if all goes well. *)
LEMMA TailLocatorKeeps ==
  ASSUME TypeInv, NEW S, Struct(S), WriteLocator, call.op = "intoTail"
  PROVE  Struct(S)'
<1>1. call.pc = "locators" /\ call.parent \in S /\ handle' = handle BY WriteLocatorDoes
<1>2. call.to = TailVhd /\ call.to # Tmp BY <1>1, Fields, StepOfCall
<1>3. PICK L \in {TailLocs, Relinked(TailVhd, call.parent), Relinked(TailVhd, NoName)} :
        LocatorsWritten(TailVhd, L)
  BY <1>2, WriteLocatorDoes DEF TailLocs
<1>4. /\ \A i \in Locators : L[i] \in S \cup {NoName}
      /\ \A i \in Locators : L[i] # NoName => L[i] <= call.parent
      /\ \A i, j \in Locators : i < j /\ L[i] # NoName /\ L[j] # NoName => L[j] <= L[i]
  BY <1>1, RelinkedTail
<1>5. /\ files'[TailVhd].kind = files[TailVhd].kind /\ TailLocs' = L
      /\ vhd'[TailVhd].open = vhd[TailVhd].open /\ vhd'[Tmp] = vhd[Tmp]
      /\ vhd'[TailVhd].parent = call.parent
  BY <1>3, Fields DEF LocatorsWritten, TailLocs
<1>6. Path(S)'
  <2>1. \A f \in S : f \in Names \ {TailVhd} BY NamesAreNumbers DEF Struct, Path
  <2>2. \A f \in S : files'[f] = files[f] BY <2>1, <1>3 DEF LocatorsWritten
  <2> QED BY <2>2, PathFrame DEF Struct
<1>7. TailInv(S)' BY <1>4, <1>5 DEF Struct, TailInv
<1>8. call.pc \in LinkPcs /\ "header" \in LinkPcs /\ LinkPcs \subseteq IntoTailPcs
      /\ (LinkPcs \cap CopyPcs = {}) /\ "unlink" \notin LinkPcs
  BY <1>1 DEF LinkPcs, CopyPcs, IntoTailPcs
<1>9. /\ vhd[TailVhd].open /\ handle /\ files[TailVhd].kind = "diff" /\ ~vhd[Tmp].open
      /\ \A f \in StrayNames : f < call.parent
  BY <1>8 DEF Struct, CallInv, IntoTailInv
<1>10. CASE call' = NoCall
  BY <1>1, <1>5, <1>6, <1>7, <1>9, <1>10, StructNoCall
<1>11. CASE /\ LocatorsWritten(call.to, Relinked(call.to, call.parent)) /\ SameCall
            /\ \/ call.loc = NumLocators /\ call'.pc = "header"
               \/ call.loc < NumLocators /\ call'.pc = "locators" /\ call'.loc = call.loc + 1
  <2>1. call'.op = "intoTail" /\ call'.to = TailVhd /\ call'.parent = call.parent
        /\ StrayNames' = StrayNames /\ call'.pc \in LinkPcs
    BY <1>1, <1>2, <1>8, <1>11 DEF SameCall, StrayNames
  <2>2. CallInv(S)' BY <2>1, <1>1, <1>5, <1>9 DEF CallInv
  <2>3. SafelyInv(S)' BY <2>1 DEF SafelyInv
  <2>4. LinkInv(TailVhd)'
    <3>1. TailLocs' = [TailLocs EXCEPT ![call.loc] = call.parent]
      BY <1>2, <1>11 DEF LocatorsWritten, Relinked, TailLocs
    <3>2. TailLocs \in [Locators -> Names \cup {NoName}] /\ call.loc \in Locators
      BY Fields, CallFields DEF TailLocs
    <3>3. \A i \in Locators : i < call.loc => TailLocs[i] = call.parent
      BY <1>1 DEF Struct, IntoTailInv, LinkInv, TailLocs
    <3>4. \A i \in Locators : i <= call.loc => TailLocs'[i] = call.parent
      <4> SUFFICES ASSUME NEW i \in Locators, i <= call.loc PROVE TailLocs'[i] = call.parent
        OBVIOUS
      <4>0. i \in Nat /\ call.loc \in Nat BY <3>2, NamesAreNumbers
      <4>1. i = call.loc \/ i < call.loc BY <4>0
      <4> QED BY <4>1, <3>1, <3>2, <3>3
    <3>5. CASE call.loc = NumLocators /\ call'.pc = "header"
      <4>1. \A i \in Locators : i <= call.loc BY <3>5, ChainAssumption DEF Locators
      <4> QED BY <4>1, <3>4, <3>5, <2>1, <1>5 DEF LinkInv, TailLocs
    <3>6. CASE call'.pc = "locators" /\ call'.loc = call.loc + 1
      <4>0. call.loc \in Nat /\ \A i \in Locators : i \in Nat BY <3>2, NamesAreNumbers
      <4>1. \A i \in Locators : i < call.loc + 1 => i <= call.loc BY <4>0
      <4> QED BY <4>1, <3>4, <3>6, <2>1, <1>5 DEF LinkInv, TailLocs
    <3> QED BY <3>5, <3>6, <1>11
  <2>5. IntoTailInv(S)'
    <3>1. call'.pc \in IntoTailPcs /\ call'.pc \notin CopyPcs /\ call'.pc # "unlink" BY <2>1, <1>8
    <3> QED BY <2>1, <2>4, <3>1, <1>1, <1>4, <1>5, <1>9 DEF IntoTailInv
  <2> QED BY <2>2, <2>3, <2>5, <1>6, <1>7 DEF Struct
<1> QED BY <1>2, <1>10, <1>11, WriteLocatorDoes

(* Writing locators keeps the types and the structure. *)
LEMMA WriteLocatorKeeps ==
  ASSUME TypeInv, NEW S, Struct(S), WriteLocator
  PROVE  TypeInv' /\ Struct(S)'
<1>1. call.pc = "locators" /\ handle' = handle /\ reply' \in {"none", "ok", "error", "died"}
  BY WriteLocatorDoes
<1>2. \E L : LocatorsWritten(call.to, L) BY WriteLocatorDoes
<1>3. call' \in Calls /\ call'.pc # "copy"
  BY WriteLocatorDoes, Constants DEF SameCall, GoesOn
<1>4. \A g \in Objects : vhd'[g].dirty \subseteq vhd'[g].present
  BY <1>2, Fields, CallFields DEF LocatorsWritten
<1>5. TypeInv' BY <1>1, <1>2, <1>3, <1>4 DEF TypeInv, LocatorsWritten
<1>6. call.op \in {"intoTail", "safely"} BY <1>1, StepOfCall
<1> QED BY <1>5, <1>6, TmpLocatorKeeps, TailLocatorKeeps

\* File f has another parent in its header, or it is torn.
HeaderWritten(f, kind, parent) ==
    /\ files' \in [Names -> Vhds] /\ \A g \in Names \ {f} : files'[g] = files[g]
    /\ files'[f].kind = kind /\ files'[f].uuid = files[f].uuid
    /\ files'[f].parent = parent /\ files'[f].locs = files[f].locs
    /\ files'[f].present = files[f].present /\ files'[f].bits = files[f].bits
    /\ files'[f].data = files[f].data

(* Writing the header. *)
LEMMA WriteHeaderDoes ==
  ASSUME TypeInv, NEW S, Struct(S), WriteHeader
  PROVE  /\ call.pc = "header" /\ call.parent \in S /\ UNCHANGED <<handle, vhd>>
         /\ reply' \in {"none", "ok", "error", "died"}
         /\ \/ /\ HeaderWritten(call.to, files[call.to].kind, call.parent)
               /\ GoesOn(IF call.to = Tmp THEN "flushTmp" ELSE "unlink")
            \/ /\ \E kind \in {files[call.to].kind, "bad"},
                     parent \in {files[call.to].parent, call.parent} :
                       HeaderWritten(call.to, kind, parent)
               /\ \/ call.to = TailVhd /\ call' = NoCall
                  \/ call.to = Tmp /\ GoesOn("giveUp")
<1>1. call.pc = "header" /\ UNCHANGED <<handle, vhd>> BY DEF WriteHeader
<1>2. call.op \in {"intoTail", "safely"} BY <1>1, StepOfCall
<1>3. call.parent \in S /\ vhd[call.to].parent = call.parent
  BY <1>1, <1>2 DEF Struct, IntoTailInv, SafelyInv, TmpPcs, LinkPcs, LinkInv
<1>5. PICK f, p : f = call.to /\ p = call.parent OBVIOUS
<1>6. /\ f \in Objects /\ f \in Names /\ p \in 0 .. NoUuid /\ files[f] \in Vhds
      /\ files[f].kind \in {"none", "bad", "diff", "head"} /\ files[f].parent \in 0 .. NoUuid
  <2>1. S \subseteq 1 .. NumDiffs BY DEF Struct, Path
  <2>2. p \in 1 .. NumDiffs BY <2>1, <1>3, <1>5
  <2>3. p \in 0 .. NoUuid BY <2>2, NamesAreNumbers
  <2> QED BY <2>3, <1>5, CallFields, Fields
<1>7. ASSUME NEW w \in Vhds, files' = [files EXCEPT ![f] = w], w.uuid = files[f].uuid,
             w.locs = files[f].locs, w.present = files[f].present, w.bits = files[f].bits,
             w.data = files[f].data
      PROVE  HeaderWritten(f, w.kind, w.parent)
  BY <1>6, <1>7, OneFile DEF HeaderWritten
<1>8. ASSUME files' = [files EXCEPT ![f].parent = p]
      PROVE  HeaderWritten(f, files[f].kind, p)
  <2>1. PICK w : w = [files[f] EXCEPT !.parent = p] OBVIOUS
  <2>2. /\ w \in Vhds /\ w.uuid = files[f].uuid /\ w.kind = files[f].kind /\ w.parent = p
        /\ w.locs = files[f].locs /\ w.present = files[f].present /\ w.bits = files[f].bits
        /\ w.data = files[f].data
    BY <2>1, <1>6 DEF Vhds
  <2>3. files' = [files EXCEPT ![f] = w] BY <2>1, <1>8
  <2>4. HeaderWritten(f, w.kind, w.parent) BY <2>2, <2>3, <1>7
  <2> QED BY <2>2, <2>4
<1>9. ASSUME files' = [files EXCEPT ![f].kind = "bad"]
      PROVE  HeaderWritten(f, "bad", files[f].parent)
  <2>1. PICK w : w = [files[f] EXCEPT !.kind = "bad"] OBVIOUS
  <2>2. /\ w \in Vhds /\ w.uuid = files[f].uuid /\ w.kind = "bad" /\ w.parent = files[f].parent
        /\ w.locs = files[f].locs /\ w.present = files[f].present /\ w.bits = files[f].bits
        /\ w.data = files[f].data
    BY <2>1, <1>6 DEF Vhds
  <2>3. files' = [files EXCEPT ![f] = w] BY <2>1, <1>9
  <2>4. HeaderWritten(f, w.kind, w.parent) BY <2>2, <2>3, <1>7
  <2> QED BY <2>2, <2>4
<1>10. ASSUME files' = files PROVE HeaderWritten(f, files[f].kind, files[f].parent)
  BY <1>10 DEF HeaderWritten, TypeInv
<1>11. \/ /\ files' = [files EXCEPT ![f].parent = p]
          /\ Goto(IF f = Tmp THEN "flushTmp" ELSE "unlink")
       \/ /\ \/ files' = files
             \/ files' = [files EXCEPT ![f].parent = p]
             \/ files' = [files EXCEPT ![f].kind = "bad"]
          /\ Fail
  BY <1>3, <1>5 DEF WriteHeader
<1>12. CASE /\ files' = [files EXCEPT ![f].parent = p]
            /\ Goto(IF f = Tmp THEN "flushTmp" ELSE "unlink")
  <2>1. PICK pc : pc = IF f = Tmp THEN "flushTmp" ELSE "unlink" OBVIOUS
  <2>2. pc \in SafelyPcs BY <2>1 DEF SafelyPcs, TmpPcs
  <2>3. GoesOn(pc) /\ reply' = reply BY <2>1, <2>2, <1>12, Gotos
  <2> QED BY <2>1, <2>3, <1>1, <1>3, <1>5, <1>8, <1>12 DEF TypeInv
<1>13. CASE /\ \/ files' = files
               \/ files' = [files EXCEPT ![f].parent = p]
               \/ files' = [files EXCEPT ![f].kind = "bad"]
            /\ Fail
  <2>1. \E kind \in {files[f].kind, "bad"}, parent \in {files[f].parent, p} :
           HeaderWritten(f, kind, parent)
    BY <1>8, <1>9, <1>10, <1>13
  <2>2. /\ reply' \in {"none", "ok", "error", "died"}
        /\ \/ call.to = TailVhd /\ call' = NoCall
           \/ call.to = Tmp /\ GoesOn("giveUp")
    BY <1>13, Fails
  <2> QED BY <2>1, <2>2, <1>1, <1>3, <1>5
<1> QED BY <1>11, <1>12, <1>13

(* The upper part of a path is a path, ... *)
LEMMA PathAbove ==
  ASSUME NEW S, Path(S), NEW p \in S, NEW T, T = {f \in S : p <= f}
  PROVE  Path(T)
<1>0. S \subseteq 1 .. NumDiffs /\ HeadVhd \in S /\ \A f \in S : f \in Nat /\ f <= HeadVhd
  <2>1. S \subseteq 1 .. NumDiffs /\ HeadVhd \in S BY DEF Path
  <2> QED BY <2>1, NamesAreNumbers
<1>1. T \subseteq 1 .. NumDiffs /\ HeadVhd \in T BY <1>0
<1>2. ASSUME NEW f \in T \ {HeadVhd}
      PROVE  /\ files[f].kind = "diff" /\ files[f].uuid = f
             /\ \E g \in T : /\ Follows(T, f, g) /\ files[f].parent = g
                             /\ \A i \in Locators : files[f].locs[i] = g
  <2>1. f \in S \ {HeadVhd} /\ p <= f BY <1>2
  <2>2. PICK g \in S : /\ Follows(S, f, g) /\ files[f].parent = g
                       /\ \A i \in Locators : files[f].locs[i] = g
    BY <2>1 DEF Path
  <2>3. g \in T
    <3>1. f \in Nat /\ g \in Nat /\ p \in Nat /\ f < g BY <2>1, <2>2, <1>0 DEF Follows
    <3> QED BY <3>1, <2>1
  <2>4. Follows(T, f, g) BY <2>2, <2>3 DEF Follows
  <2> QED BY <2>1, <2>2, <2>3, <2>4 DEF Path
<1> QED BY <1>1, <1>2 DEF Path

(* Writing the header keeps the types and the structure, of fewer files for the tail. *)
LEMMA WriteHeaderKeeps ==
  ASSUME TypeInv, NEW S, Struct(S), WriteHeader
  PROVE  /\ TypeInv'
         /\ \E T \in SUBSET (1 .. NumDiffs) :
              /\ Struct(T)'
              /\ T = S \/ (call.op = "intoTail" /\ GoesOn("unlink") /\ T = {f \in S : call.parent <= f})
<1>0. S \in SUBSET (1 .. NumDiffs) BY DEF Struct, Path
<1>1. /\ call.pc = "header" /\ call.parent \in S /\ handle' = handle /\ vhd' = vhd
      /\ reply' \in {"none", "ok", "error", "died"}
  BY WriteHeaderDoes
<1>2. PICK kind \in {files[call.to].kind, "bad"},
           parent \in {files[call.to].parent, call.parent} : HeaderWritten(call.to, kind, parent)
  BY WriteHeaderDoes
<1>3. call' \in Calls /\ call'.pc # "copy"
  BY WriteHeaderDoes, Constants DEF SameCall, GoesOn
<1>4. TypeInv' BY <1>1, <1>2, <1>3 DEF TypeInv, HeaderWritten
<1>5. call.op \in {"intoTail", "safely"} BY <1>1, StepOfCall
<1>6. CASE call.op = "safely"
  <2>1. call.to = Tmp /\ call.to # TailVhd BY <1>1, <1>6, Fields, StepOfCall
  <2>2. ChainKept BY <2>1, <1>2, TmpChain DEF HeaderWritten
  <2>3. call.pc \in TmpPcs /\ call.pc \notin CopyPcs /\ "flushTmp" \in TmpPcs
        /\ "flushTmp" \notin CopyPcs /\ "flushTmp" \in SafelyPcs
    BY <1>1 DEF TmpPcs, CopyPcs, LinkPcs, SafelyPcs
  <2>4. vhd[Tmp].open /\ handle /\ vhd[TailVhd].open
    BY <2>3, <1>1, <1>6 DEF Struct, CallInv, SafelyInv
  <2>5. CASE GoesOn("giveUp")
    BY <2>2, <2>4, <2>5, <1>0, <1>1, <1>4, <1>6, StructGivesUp DEF GoesOn
  <2>6. CASE HeaderWritten(Tmp, files[Tmp].kind, call.parent) /\ GoesOn("flushTmp")
    <3>1. Path(S)' /\ TailInv(S)' /\ \A p : Leads(p)' <=> Leads(p) BY <2>2, ChainFrame DEF Struct
    <3>2. /\ files[TailVhd].kind = "diff" /\ vhd[TailVhd].parent \in S /\ Leads(vhd[TailVhd].parent)
      BY <1>6 DEF Struct, CallInv
    <3>3. Leads(vhd[TailVhd].parent)'
      <4>1. PICK p : p = vhd[TailVhd].parent OBVIOUS
      <4>2. Leads(p)' BY <4>1, <3>1, <3>2
      <4> QED BY <4>1, <4>2, <1>1
    <3>4. call'.op = "safely" /\ call'.to = Tmp /\ call'.parent = call.parent
          /\ StrayNames' = StrayNames /\ call'.pc = "flushTmp"
      BY <2>1, <2>6, <1>6 DEF GoesOn, SameCall, StrayNames
    <3>5. CallInv(S)' BY <3>2, <3>3, <3>4, <2>2, <2>3, <2>4, <1>1 DEF CallInv, ChainKept
    <3>6. IntoTailInv(S)' BY <3>4 DEF IntoTailInv
    <3>7. SafelyInv(S)'
      <4>1. /\ files[Tmp].kind = "diff" /\ files[Tmp].uuid \in S
            /\ vhd[TailVhd].parent <= files[Tmp].uuid /\ files[Tmp].uuid < call.parent
            /\ StrayNames = {f \in S : files[Tmp].uuid < f /\ f < call.parent}
            /\ \A i \in Locators : files[Tmp].locs[i] = call.parent
        BY <2>3, <1>1, <1>6 DEF Struct, SafelyInv, LinkInv
      <4>2. /\ files'[Tmp].kind = files[Tmp].kind /\ files'[Tmp].uuid = files[Tmp].uuid
            /\ files'[Tmp].parent = call.parent /\ files'[Tmp].locs = files[Tmp].locs
        BY <2>6 DEF HeaderWritten
      <4>3. LinkInv(Tmp)' BY <3>4 DEF LinkInv
      <4> QED BY <4>1, <4>2, <4>3, <3>4, <2>3, <2>4, <1>1 DEF SafelyInv
    <3>8. Struct(S)' BY <3>1, <3>5, <3>6, <3>7 DEF Struct
    <3> QED BY <3>8, <1>0, <1>4
  <2> QED BY <2>1, <2>5, <2>6, WriteHeaderDoes
<1>7. CASE call.op = "intoTail"
  <2>1. call.to = TailVhd /\ call.to # Tmp BY <1>1, <1>7, Fields, StepOfCall
  <2>2. call.pc \in LinkPcs BY <1>1 DEF LinkPcs
  <2>3. /\ vhd[TailVhd].open /\ handle /\ files[TailVhd].kind = "diff" /\ ~vhd[Tmp].open
        /\ \A f \in StrayNames : f < call.parent
        /\ \A i \in Locators : TailLocs[i] = call.parent
        /\ vhd[TailVhd].parent = call.parent
    BY <2>2, <1>1, <1>7 DEF Struct, CallInv, IntoTailInv, LinkInv, TailLocs
  <2>4. \A f \in S : files'[f] = files[f]
    <3>1. \A f \in S : f \in Names \ {TailVhd} BY <1>0, NamesAreNumbers
    <3> QED BY <3>1, <2>1, <1>2 DEF HeaderWritten
  <2>5. TailLocs' = TailLocs BY <2>1, <1>2 DEF HeaderWritten, TailLocs
  <2>6. CASE call' = NoCall
    <3>1. Path(S)' BY <2>4, PathFrame DEF Struct
    <3>2. files'[TailVhd].kind \in {"diff", "bad"} BY <2>1, <2>3, <1>2 DEF HeaderWritten
    <3>3. TailInv(S)' BY <2>5, <3>2 DEF Struct, TailInv
    <3> QED BY <3>1, <3>3, <2>3, <2>6, <1>0, <1>1, <1>4, StructNoCall
  <2>7. CASE HeaderWritten(TailVhd, files[TailVhd].kind, call.parent) /\ GoesOn("unlink")
    <3>1. PICK p : p = call.parent OBVIOUS
    <3>2. PICK T : T = {f \in S : p <= f} OBVIOUS
    <3>3. p \in S /\ p \in Nat /\ p \in T /\ T \in SUBSET (1 .. NumDiffs)
      <4>1. p \in S BY <3>1, <1>1
      <4>2. \A f \in S : f \in Nat BY <1>0, NamesAreNumbers
      <4>3. p <= p BY <4>1, <4>2
      <4> QED BY <4>1, <4>2, <4>3, <3>2, <1>0
    <3>4. Path(T) BY <3>1, <3>2, <3>3, PathAbove DEF Struct
    <3>5. \A f \in T : files'[f] = files[f] BY <3>2, <2>4
    <3>6. Path(T)' BY <3>4, <3>5, PathFrame
    <3>7. \A i \in Locators : TailLocs'[i] = p BY <2>3, <2>5, <3>1
    <3>8. files'[TailVhd].kind = "diff" BY <2>3, <2>7 DEF HeaderWritten
    <3>9. TailInv(T)'
      <4>1. p <= p BY <3>3
      <4> QED BY <4>1, <3>3, <3>7, <3>8 DEF TailInv
    <3>10. call'.op = "intoTail" /\ call'.to = TailVhd /\ call'.parent = p
           /\ StrayNames' = StrayNames /\ call'.pc = "unlink"
      BY <2>1, <2>7, <1>7, <3>1 DEF GoesOn, SameCall, StrayNames
    <3>11. CallInv(T)'
      <4>1. 1 \in Locators /\ p <= p BY <3>3, NamesAreNumbers
      <4>2. Leads(vhd[TailVhd].parent)'
        BY <4>1, <2>3, <3>1, <3>7, <1>1 DEF Leads
      <4> QED BY <4>2, <2>3, <3>1, <3>3, <3>8, <3>10, <1>1 DEF CallInv
    <3>12. SafelyInv(T)' BY <3>10 DEF SafelyInv
    <3>13. IntoTailInv(T)'
      <4>1. LinkInv(TailVhd)' BY <3>10 DEF LinkInv
      <4>2. "unlink" \in IntoTailPcs /\ "unlink" \notin CopyPcs /\ "unlink" \notin LinkPcs
        BY DEF IntoTailPcs, CopyPcs, LinkPcs
      <4>3. \A f \in StrayNames : f \notin T
        <5> SUFFICES ASSUME NEW f \in StrayNames, f \in T PROVE FALSE OBVIOUS
        <5>1. f \in Nat /\ p <= f /\ f < p BY <2>3, <3>1, <3>2, <1>0, NamesAreNumbers
        <5> QED BY <5>1, <3>3
      <4> QED BY <4>1, <4>2, <4>3, <2>3, <3>3, <3>10, <1>1 DEF IntoTailInv
    <3>14. Struct(T)' BY <3>6, <3>9, <3>11, <3>12, <3>13 DEF Struct
    <3>15. T = {f \in S : call.parent <= f} BY <3>1, <3>2
    <3> QED BY <3>3, <3>14, <3>15, <2>7, <1>4, <1>7
  <2> QED BY <2>1, <2>6, <2>7, WriteHeaderDoes
<1> QED BY <1>5, <1>6, <1>7

-----------------------------------------------------------------------------
(***************************************************************************)
(* The temporary file takes its place                                      *)
(***************************************************************************)

(* Writing all that is dirty. *)
LEMMA WritesAll ==
  ASSUME TypeInv, NEW f \in Objects, NEW D, files' = [files EXCEPT ![f] = Written(f, D)]
  PROVE  WroteBack(f, D, vhd[f].present)
<1>1. files[f] \in Vhds /\ vhd[f].present \in SUBSET Blocks BY Fields
<1>2. Written(f, D) = [Written(f, D) EXCEPT !.present = vhd[f].present]
  BY <1>1 DEF Written, Vhds
<1> QED BY <1>1, <1>2, WritesBack

(* Flushing the temporary file. *)
LEMMA FlushTmpDoes ==
  ASSUME TypeInv, FlushTmp
  PROVE  /\ call.pc = "flushTmp" /\ handle' = handle
         /\ \/ /\ WroteBack(Tmp, vhd[Tmp].dirty, vhd[Tmp].present)
               /\ vhd' \in [Objects -> VhdObjects] /\ vhd'[Tmp] = Closed
               /\ vhd'[TailVhd] = vhd[TailVhd] /\ GoesOn("closeTail") /\ reply' = reply
            \/ /\ FlushedPartly(Tmp) /\ reply' \in {"none", "ok", "error", "died"}
               /\ \/ call.to = TailVhd /\ call' = NoCall
                  \/ call.to = Tmp /\ GoesOn("giveUp")
<1>0. TailVhd \in Objects /\ Tmp \in Objects /\ TailVhd # Tmp BY Fields
<1>1. call.pc = "flushTmp" /\ handle' = handle BY DEF FlushTmp
<1>2. CASE /\ files' = [files EXCEPT ![Tmp] = Written(Tmp, vhd[Tmp].dirty)]
           /\ vhd' = [vhd EXCEPT ![Tmp] = Closed]
           /\ Goto("closeTail")
  <2>1. WroteBack(Tmp, vhd[Tmp].dirty, vhd[Tmp].present) BY <1>0, <1>2, WritesAll
  <2>2. vhd' \in [Objects -> VhdObjects] /\ vhd'[Tmp] = Closed /\ vhd'[TailVhd] = vhd[TailVhd]
    BY <1>0, <1>2, Constants, OneObject
  <2>3. GoesOn("closeTail") /\ reply' = reply
    <3>1. "closeTail" \in SafelyPcs BY DEF SafelyPcs
    <3> QED BY <3>1, <1>2, Gotos
  <2> QED BY <2>1, <2>2, <2>3, <1>1
<1>3. CASE FlushFails(Tmp) /\ Fail
  <2>1. FlushedPartly(Tmp) BY <1>0, <1>3, FlushesPartly DEF FlushedPartly
  <2>2. /\ reply' \in {"none", "ok", "error", "died"}
        /\ \/ call.to = TailVhd /\ call' = NoCall
           \/ call.to = Tmp /\ GoesOn("giveUp")
    BY <1>3, Fails
  <2> QED BY <2>1, <2>2, <1>1
<1> QED BY <1>2, <1>3 DEF FlushTmp

(* The call goes on, of which no more is open than the tail. *)
LEMMA StructTmpDone ==
  ASSUME TypeInv, NEW S, Struct(S), ChainKept, SameFrame(files[Tmp], files'[Tmp]),
         call.op = "safely", SameCall, handle' = handle, ~vhd'[Tmp].open,
         vhd'[TailVhd].parent = vhd[TailVhd].parent,
         \/ call.pc = "flushTmp" /\ call'.pc = "closeTail" /\ vhd'[TailVhd].open
         \/ call.pc = "closeTail" /\ call'.pc = "rename" /\ ~vhd'[TailVhd].open
  PROVE  Struct(S)'
<1>1. Path(S)' /\ TailInv(S)' /\ \A p : Leads(p)' <=> Leads(p) BY ChainFrame DEF Struct
<1>2. /\ files[TailVhd].kind = "diff" /\ vhd[TailVhd].parent \in S /\ Leads(vhd[TailVhd].parent)
      /\ handle
  BY DEF Struct, CallInv
<1>3. Leads(vhd[TailVhd].parent)'
  <2>1. PICK p : p = vhd[TailVhd].parent OBVIOUS
  <2>2. Leads(p)' BY <2>1, <1>1, <1>2
  <2> QED BY <2>1, <2>2
<1>4. call'.op = "safely" /\ call'.to = Tmp /\ call'.parent = call.parent /\ StrayNames' = StrayNames
  BY DEF SameCall, StrayNames, Struct, SafelyInv
<1>5. call'.pc \notin TmpPcs /\ call'.pc \notin CopyPcs /\ call'.pc \in SafelyPcs
      /\ call.pc \in TmpPcs \cup {"closeTail", "rename"}
  BY DEF TmpPcs, CopyPcs, LinkPcs, SafelyPcs
<1>6. CallInv(S)' BY <1>2, <1>3, <1>4, <1>5 DEF CallInv, ChainKept
<1>7. IntoTailInv(S)' BY <1>4 DEF IntoTailInv
<1>8. SafelyInv(S)'
  <2>1. /\ files[Tmp].kind = "diff" /\ files[Tmp].uuid \in S /\ call.parent \in S
        /\ vhd[TailVhd].parent <= files[Tmp].uuid /\ files[Tmp].uuid < call.parent
        /\ StrayNames = {f \in S : files[Tmp].uuid < f /\ f < call.parent}
    BY <1>5 DEF Struct, SafelyInv
  <2>2. files[Tmp].parent = call.parent /\ \A i \in Locators : files[Tmp].locs[i] = call.parent
    BY DEF Struct, SafelyInv
  <2>3. LinkInv(Tmp)' BY DEF LinkInv
  <2> QED BY <2>1, <2>2, <2>3, <1>4, <1>5 DEF SafelyInv, SameFrame
<1> QED BY <1>1, <1>6, <1>7, <1>8 DEF Struct

(* Flushing the temporary file keeps the types and the structure. *)
LEMMA FlushTmpKeeps ==
  ASSUME TypeInv, NEW S, Struct(S), FlushTmp
  PROVE  TypeInv' /\ Struct(S)'
<1>0. Objects = {TailVhd, Tmp} /\ TailVhd # Tmp /\ Tmp \in Objects BY Fields DEF Objects
<1>1. call.pc = "flushTmp" /\ handle' = handle BY FlushTmpDoes
<1>2. call.op = "safely" /\ call.to = Tmp /\ call.to # TailVhd BY <1>0, <1>1, StepOfCall
<1>3. vhd[TailVhd].open /\ vhd[Tmp].open /\ handle
  BY <1>1, <1>2 DEF Struct, CallInv, SafelyInv, TmpPcs
<1>4. CASE /\ WroteBack(Tmp, vhd[Tmp].dirty, vhd[Tmp].present)
           /\ vhd' \in [Objects -> VhdObjects] /\ vhd'[Tmp] = Closed
           /\ vhd'[TailVhd] = vhd[TailVhd] /\ GoesOn("closeTail") /\ reply' = reply
  <2>1. Kept(Tmp) BY <1>4 DEF WroteBack, Kept
  <2>2. ChainKept BY <2>1, <1>0, KeptChain
  <2>3. \A g \in Objects : vhd'[g].dirty \subseteq vhd'[g].present
    BY <1>0, <1>4, Constants, Fields
  <2>4. TypeInv' BY <2>1, <2>3, <1>1, <1>4 DEF TypeInv, Kept, GoesOn, SameCall
  <2>5. ~vhd'[Tmp].open BY <1>4, Constants
  <2>6. Struct(S)'
    BY <2>1, <2>2, <2>5, <1>1, <1>2, <1>3, <1>4, StructTmpDone DEF GoesOn, Kept
  <2> QED BY <2>4, <2>6
<1>5. CASE /\ FlushedPartly(Tmp) /\ reply' \in {"none", "ok", "error", "died"}
           /\ \/ call.to = TailVhd /\ call' = NoCall
              \/ call.to = Tmp /\ GoesOn("giveUp")
  <2>1. Kept(Tmp) /\ ObjectKept(Tmp) BY <1>0, <1>5, FlushedKept
  <2>2. ChainKept BY <2>1, <1>0, KeptChain
  <2>3. GoesOn("giveUp") BY <1>2, <1>5
  <2>4. TypeInv' BY <2>1, <2>3, <1>1, <1>5 DEF TypeInv, Kept, ObjectKept, GoesOn, SameCall
  <2>5. vhd'[TailVhd] = vhd[TailVhd] /\ vhd'[Tmp].open
    BY <2>1, <1>0, <1>3 DEF ObjectKept
  <2>6. Struct(S)' BY <2>2, <2>3, <2>5, <1>1, <1>2, StructGivesUp DEF GoesOn
  <2> QED BY <2>4, <2>6
<1> QED BY <1>4, <1>5, FlushTmpDoes

(* Closing the tail. *)
LEMMA CloseTailDoes ==
  ASSUME TypeInv, CloseTail
  PROVE  /\ call.pc = "closeTail"
         /\ \/ /\ WroteBack(TailVhd, vhd[TailVhd].dirty, vhd[TailVhd].present) /\ handle' = handle
               /\ vhd' \in [Objects -> VhdObjects] /\ vhd'[Tmp] = vhd[Tmp]
               /\ ~vhd'[TailVhd].open /\ vhd'[TailVhd].flags = vhd[TailVhd].flags
               /\ vhd'[TailVhd].parent = vhd[TailVhd].parent /\ vhd'[TailVhd].dirty = {}
               /\ GoesOn("rename") /\ reply' = reply
            \/ CloseDies(TailVhd)
<1>0. TailVhd \in Objects /\ Tmp \in Objects /\ TailVhd # Tmp /\ vhd[TailVhd] \in VhdObjects BY Fields
<1>1. call.pc = "closeTail" BY DEF CloseTail
<1>2. CASE /\ files' = [files EXCEPT ![TailVhd] = Written(TailVhd, vhd[TailVhd].dirty)]
           /\ vhd' = [vhd EXCEPT ![TailVhd].open = FALSE, ![TailVhd].dirty = {}]
           /\ Goto("rename") /\ UNCHANGED handle
  <2>1. WroteBack(TailVhd, vhd[TailVhd].dirty, vhd[TailVhd].present) BY <1>0, <1>2, WritesAll
  <2>2. PICK o : o = [vhd[TailVhd] EXCEPT !.open = FALSE, !.dirty = {}] OBVIOUS
  <2>3. /\ o \in VhdObjects /\ ~o.open /\ o.flags = vhd[TailVhd].flags
        /\ o.parent = vhd[TailVhd].parent /\ o.dirty = {}
    <3>1. {} \in SUBSET Blocks /\ FALSE \in BOOLEAN OBVIOUS
    <3> QED BY <3>1, <2>2, <1>0 DEF VhdObjects
  <2>4. vhd' = [vhd EXCEPT ![TailVhd] = o] BY <2>2, <1>2
  <2>5. vhd' \in [Objects -> VhdObjects] /\ vhd'[TailVhd] = o /\ vhd'[Tmp] = vhd[Tmp]
    BY <2>3, <2>4, <1>0, OneObject
  <2>6. GoesOn("rename") /\ reply' = reply
    <3>1. "rename" \in SafelyPcs BY DEF SafelyPcs
    <3> QED BY <3>1, <1>2, Gotos
  <2> QED BY <2>1, <2>3, <2>5, <2>6, <1>1, <1>2
<1> QED BY <1>1, <1>2 DEF CloseTail

(* Closing the tail keeps the types and the structure. *)
LEMMA CloseTailKeeps ==
  ASSUME TypeInv, NEW S, Struct(S), CloseTail
  PROVE  TypeInv' /\ Struct(S)'
<1>0. Objects = {TailVhd, Tmp} /\ TailVhd # Tmp /\ Tmp \in Objects /\ TailVhd \in Objects
      /\ Tmp \in Names
  BY Fields DEF Objects
<1>1. call.pc = "closeTail" BY CloseTailDoes
<1>2. call.op = "safely" BY <1>1, StepOfCall
<1>3. ~vhd[Tmp].open
  BY <1>1, <1>2 DEF Struct, CallInv, TmpPcs, CopyPcs, LinkPcs
<1>4. CASE /\ WroteBack(TailVhd, vhd[TailVhd].dirty, vhd[TailVhd].present) /\ handle' = handle
           /\ vhd' \in [Objects -> VhdObjects] /\ vhd'[Tmp] = vhd[Tmp]
           /\ ~vhd'[TailVhd].open /\ vhd'[TailVhd].flags = vhd[TailVhd].flags
           /\ vhd'[TailVhd].parent = vhd[TailVhd].parent /\ vhd'[TailVhd].dirty = {}
           /\ GoesOn("rename") /\ reply' = reply
  <2>1. Kept(TailVhd) BY <1>4 DEF WroteBack, Kept
  <2>2. ChainKept BY <2>1, <1>0, KeptChain
  <2>3. \A g \in Objects : vhd'[g].dirty \subseteq vhd'[g].present
    BY <1>0, <1>4, Fields
  <2>4. TypeInv' BY <2>1, <2>3, <1>4 DEF TypeInv, Kept, GoesOn, SameCall
  <2>5. SameFrame(files[Tmp], files'[Tmp]) BY <2>1, <1>0 DEF Kept, SameFrame
  <2>6. Struct(S)'
    BY <2>1, <2>2, <2>5, <1>1, <1>2, <1>3, <1>4, StructTmpDone DEF GoesOn
  <2> QED BY <2>4, <2>6
<1>5. CASE CloseDies(TailVhd)
  <2>1. PICK D \in SUBSET vhd[TailVhd].dirty,
             table \in {vhd[TailVhd].present, files[TailVhd].present} : WroteBack(TailVhd, D, table)
    BY <1>0, <1>5, DiesClosing
  <2>2. /\ handle' = FALSE /\ vhd' = [g \in Objects |-> Closed]
        /\ call' = NoCall /\ reply' = "died"
    BY <1>0, <1>5, DiesClosing
  <2>3. Kept(TailVhd) BY <2>1 DEF WroteBack, Kept
  <2>4. ChainKept /\ files' \in [Names -> Vhds] BY <2>3, <1>0, KeptChain DEF Kept
  <2> QED BY <2>2, <2>4, DeadKeeps
<1> QED BY <1>4, <1>5, CloseTailDoes

(* A path with the temporary file in place of the files from its UUID up to before its parent. *)
LEMMA PathRenamed ==
  ASSUME NEW S, Path(S), NEW r \in S, NEW p \in S, r < p, NEW w, w.kind = "diff", w.uuid = r,
         w.parent = p, \A i \in Locators : w.locs[i] = p,
         files'[r] = w, \A f \in S \ {r} : files'[f] = files[f],
         NEW T, T = {f \in S : f <= r \/ p <= f}
  PROVE  Path(T)' /\ T \in SUBSET (1 .. NumDiffs) /\ r \in T /\ p \in T
<1>0. S \subseteq 1 .. NumDiffs /\ HeadVhd \in S /\ \A f \in S : f \in Nat /\ f <= HeadVhd
  <2>1. S \subseteq 1 .. NumDiffs /\ HeadVhd \in S BY DEF Path
  <2> QED BY <2>1, NamesAreNumbers
<1>1. T \subseteq 1 .. NumDiffs /\ HeadVhd \in T /\ r \in T /\ p \in T /\ T \subseteq S
  <2>1. r \in Nat /\ p \in Nat /\ HeadVhd \in Nat /\ p <= HeadVhd BY <1>0
  <2>2. r <= r /\ p <= p BY <2>1
  <2>3. T \subseteq S OBVIOUS
  <2>4. r \in T BY <2>2
  <2>5. p \in T BY <2>2
  <2>6. HeadVhd \in T BY <1>0, <2>1
  <2> QED BY <1>0, <2>3, <2>4, <2>5, <2>6
<1>2. r # HeadVhd BY <1>0
<1>3. files'[HeadVhd].kind = "head" /\ files'[HeadVhd].uuid = HeadVhd
  BY <1>0, <1>2 DEF Path
<1>4. ASSUME NEW f \in T \ {HeadVhd}
      PROVE  /\ files'[f].kind = "diff" /\ files'[f].uuid = f
             /\ \E g \in T : /\ Follows(T, f, g) /\ files'[f].parent = g
                             /\ \A i \in Locators : files'[f].locs[i] = g
  <2>1. CASE f = r
    <3>1. Follows(T, r, p)
      <4>1. \A h \in T : h <= r \/ p <= h OBVIOUS
      <4> QED BY <4>1, <1>1 DEF Follows
    <3> QED BY <2>1, <3>1, <1>1
  <2>2. CASE f # r
    <3>0. f \in S /\ files'[f] = files[f] BY <2>2, <1>1
    <3>1. /\ files[f].kind = "diff" /\ files[f].uuid = f
          /\ \E g \in S : /\ Follows(S, f, g) /\ files[f].parent = g
                          /\ \A i \in Locators : files[f].locs[i] = g
      BY <3>0 DEF Path
    <3>2. PICK g \in S : /\ Follows(S, f, g) /\ files[f].parent = g
                         /\ \A i \in Locators : files[f].locs[i] = g
      BY <3>1
    <3>3. f \in Nat /\ g \in Nat /\ r \in Nat /\ p \in Nat /\ f < g /\ (r <= f \/ g <= r)
      BY <3>0, <3>2, <1>0 DEF Follows
    <3>4. f < r \/ p <= f BY <2>2, <3>3
    <3>5. g \in T BY <3>2, <3>3, <3>4
    <3>6. Follows(T, f, g) BY <3>2, <3>5, <1>1 DEF Follows
    <3> QED BY <3>0, <3>1, <3>2, <3>5, <3>6
  <2> QED BY <2>1, <2>2
<1>5. Path(T)' BY <1>1, <1>3, <1>4 DEF Path, Follows
<1> QED BY <1>1, <1>5

\* The temporary file replaces file r.
Renames(r) ==
    /\ files' \in [Names -> Vhds] /\ files'[r] = files[Tmp] /\ files'[Tmp] = NoFile
    /\ \A g \in Names \ {r, Tmp} : files'[g] = files[g]

(* Renaming. *)
LEMMA RenameDoes ==
  ASSUME TypeInv, NEW S, Struct(S), Rename
  PROVE  /\ call.pc = "rename" /\ UNCHANGED <<handle, vhd>>
         /\ \/ /\ Renames(files[Tmp].uuid) /\ files[Tmp].uuid \in S
               /\ GoesOn("reopen") /\ reply' = reply
            \/ TmpLeft /\ call' = NoCall /\ reply' = "error"
<1>1. call.pc = "rename" /\ UNCHANGED <<handle, vhd>> BY DEF Rename
<1>2. call.op = "safely" BY <1>1, StepOfCall
<1>3. PICK r : r = files[Tmp].uuid OBVIOUS
<1>4. r \in S BY <1>1, <1>2, <1>3 DEF Struct, SafelyInv
<1>5. r \in Names /\ r # Tmp /\ Tmp \in Names
  <2>1. r \in 1 .. NumDiffs BY <1>4 DEF Struct, Path
  <2> QED BY <2>1, NamesAreNumbers
<1>6. CASE files' = [files EXCEPT ![r] = files[Tmp], ![Tmp] = NoFile] /\ Goto("reopen")
  <2>1. /\ files' \in [Names -> Vhds] /\ files'[r] = files[Tmp] /\ files'[Tmp] = NoFile
        /\ \A g \in Names \ {r, Tmp} : files'[g] = files[g]
    BY <1>5, <1>6, Constants DEF TypeInv
  <2>2. "reopen" \in SafelyPcs BY DEF SafelyPcs
  <2>3. GoesOn("reopen") /\ reply' = reply BY <2>2, <1>6, Gotos
  <2> QED BY <2>1, <2>3, <1>1, <1>3, <1>4 DEF Renames
<1>7. CASE UnlinkTmp(files[Tmp]) /\ Return("error")
  <2>1. TmpLeft BY <1>5, <1>7, TmpUnlinked DEF TypeInv
  <2> QED BY <2>1, <1>1, <1>7 DEF Return
<1> QED BY <1>3, <1>6, <1>7 DEF Rename

(* Renaming keeps the types and the structure, of fewer files. *)
LEMMA RenameKeeps ==
  ASSUME TypeInv, NEW S, Struct(S), Rename
  PROVE  /\ TypeInv'
         /\ \E T \in SUBSET (1 .. NumDiffs) :
              /\ Struct(T)'
              /\ \/ T = S /\ call' = NoCall
                 \/ /\ GoesOn("reopen") /\ Renames(files[Tmp].uuid)
                    /\ T = {f \in S : f <= files[Tmp].uuid \/ call.parent <= f}
<1>0. S \in SUBSET (1 .. NumDiffs) /\ \A f \in S : f \in Nat
  <2>1. S \in SUBSET (1 .. NumDiffs) BY DEF Struct, Path
  <2> QED BY <2>1, NamesAreNumbers
<1>1. call.pc = "rename" /\ handle' = handle /\ vhd' = vhd BY RenameDoes
<1>2. call.op = "safely" BY <1>1, StepOfCall
<1>3. ~vhd[Tmp].open /\ handle /\ ~vhd[TailVhd].open
  BY <1>1, <1>2 DEF Struct, CallInv, SafelyInv, TmpPcs, CopyPcs, LinkPcs
<1>4. CASE TmpLeft /\ call' = NoCall /\ reply' = "error"
  <2>1. ChainKept /\ files' \in [Names -> Vhds] BY <1>4 DEF TmpLeft
  <2>2. Struct(S)' BY <2>1, <1>1, <1>3, <1>4, StructNone
  <2> QED BY <2>1, <2>2, <1>0, <1>1, <1>4, Constants DEF TypeInv
<1>5. ASSUME Renames(files[Tmp].uuid), files[Tmp].uuid \in S, GoesOn("reopen"), reply' = reply
      PROVE  /\ TypeInv'
             /\ \E T \in SUBSET (1 .. NumDiffs) :
                  /\ Struct(T)' /\ T = {f \in S : f <= files[Tmp].uuid \/ call.parent <= f}
  <2>1. PICK r, p, w : r = files[Tmp].uuid /\ p = call.parent /\ w = files[Tmp] OBVIOUS
  <2>2. PICK T : T = {f \in S : f <= r \/ p <= f} OBVIOUS
  <2>3. /\ r \in S /\ p \in S /\ r < p /\ vhd[TailVhd].parent <= r
        /\ w.kind = "diff" /\ w.uuid = r /\ w.parent = p /\ \A i \in Locators : w.locs[i] = p
        /\ StrayNames = {f \in S : r < f /\ f < p}
    BY <2>1, <1>1, <1>2 DEF Struct, SafelyInv
  <2>4. files'[r] = w /\ (\A f \in S \ {r} : files'[f] = files[f]) /\ files'[TailVhd] = files[TailVhd]
        /\ files'[Tmp] = NoFile
    <3>1. \A f \in S : f \in Names \ {Tmp} /\ f # TailVhd BY <1>0, NamesAreNumbers
    <3> QED BY <3>1, <2>1, <2>3, <1>5, Fields DEF Renames
  <2>5. Path(T)' /\ T \in SUBSET (1 .. NumDiffs) /\ r \in T /\ p \in T
    BY <2>2, <2>3, <2>4, PathRenamed DEF Struct
  <2>6. /\ files[TailVhd].kind = "diff" /\ vhd[TailVhd].parent \in S /\ Leads(vhd[TailVhd].parent)
    BY <1>2 DEF Struct, CallInv, LinkPcs
  <2>7. TailLocs' = TailLocs /\ files'[TailVhd].kind = "diff" BY <2>4, <2>6 DEF TailLocs
  <2>8. TailInv(T)'
    <3>1. ASSUME NEW i \in Locators, TailLocs[i] # NoName PROVE TailLocs[i] \in T
      <4>1. TailLocs[i] \in S /\ TailLocs[i] <= vhd[TailVhd].parent
        BY <2>6, <3>1 DEF Leads, Struct, TailInv
      <4>2. TailLocs[i] \in Nat /\ vhd[TailVhd].parent \in Nat /\ r \in Nat BY <4>1, <2>3, <2>6, <1>0
      <4>3. TailLocs[i] <= r BY <4>1, <4>2, <2>3
      <4> QED BY <4>1, <4>3, <2>2
    <3> QED BY <3>1, <2>7 DEF Struct, TailInv
  <2>9. Leads(vhd[TailVhd].parent)' BY <2>6, <2>7, <1>1 DEF Leads
  <2>10. vhd[TailVhd].parent \in T BY <2>2, <2>3, <2>6
  <2>11. call'.op = "safely" /\ call'.to = Tmp /\ StrayNames' = StrayNames /\ call'.pc = "reopen"
         /\ call' \in Calls
    BY <1>1, <1>2, <1>5, StepOfCall DEF GoesOn, SameCall, StrayNames
  <2>12. "reopen" \in SafelyPcs /\ "reopen" \notin TmpPcs /\ "reopen" \notin CopyPcs
    BY DEF SafelyPcs, TmpPcs, CopyPcs, LinkPcs
  <2>13. CallInv(T)' BY <2>7, <2>9, <2>10, <2>11, <2>12, <1>1, <1>3 DEF CallInv
  <2>14. IntoTailInv(T)' BY <2>11 DEF IntoTailInv
  <2>15. SafelyInv(T)'
    <3>1. LinkInv(Tmp)' BY <2>11 DEF LinkInv
    <3>2. StrayNames \cap T = {}
      <4> SUFFICES ASSUME NEW f \in StrayNames, f \in T PROVE FALSE OBVIOUS
      <4>1. f \in Nat /\ r \in Nat /\ p \in Nat /\ r < f /\ f < p /\ (f <= r \/ p <= f)
        BY <2>2, <2>3, <1>0
      <4> QED BY <4>1
    <3> QED BY <3>1, <3>2, <2>4, <2>11, <2>12, <1>1, <1>3 DEF SafelyInv
  <2>16. TypeInv' BY <2>11, <1>1, <1>5 DEF TypeInv, Renames
  <2>17. Struct(T)' BY <2>5, <2>8, <2>13, <2>14, <2>15 DEF Struct
  <2>18. T = {f \in S : f <= files[Tmp].uuid \/ call.parent <= f} BY <2>1, <2>2
  <2> QED BY <2>5, <2>16, <2>17, <2>18
<1> QED BY <1>4, <1>5, RenameDoes

(* Opening the tail again. *)
LEMMA ReopenDoes ==
  ASSUME TypeInv, Reopen
  PROVE  /\ call.pc = "reopen" /\ handle' = handle
         /\ \/ /\ Kept(TailVhd) /\ files'[TailVhd] = Filled(files[TailVhd], vhd[TailVhd].flags)
               /\ vhd' \in [Objects -> VhdObjects] /\ vhd'[Tmp] = vhd[Tmp]
               /\ vhd'[TailVhd] = Opened(files'[TailVhd], vhd[TailVhd].flags, vhd[TailVhd].parent)
               /\ vhd'[TailVhd].open /\ vhd'[TailVhd].dirty = {}
               /\ vhd'[TailVhd].flags = vhd[TailVhd].flags
               /\ vhd'[TailVhd].parent = vhd[TailVhd].parent
               /\ vhd'[TailVhd].present = files'[TailVhd].present
               /\ vhd'[TailVhd].bits = files'[TailVhd].bits
               /\ GoesOn("unlink") /\ reply' = reply
            \/ UNCHANGED <<files, vhd>> /\ call' = NoCall /\ reply' = "error"
<1>0. TailVhd \in Objects /\ Tmp \in Objects /\ TailVhd # Tmp /\ TailVhd \in Names
      /\ files[TailVhd] \in Vhds
  BY Fields
<1>1. call.pc = "reopen" /\ handle' = handle BY DEF Reopen
<1>2. PICK v, fl, p : /\ v = Filled(files[TailVhd], vhd[TailVhd].flags) /\ fl = vhd[TailVhd].flags
                      /\ p = vhd[TailVhd].parent
  OBVIOUS
<1>3. v \in Vhds /\ SameFrame(files[TailVhd], v) /\ fl \in SUBSET Flags /\ p \in 0 .. NoUuid
  BY <1>0, <1>2, FilledType, Fields
<1>4. CASE /\ files' = [files EXCEPT ![TailVhd] = v]
           /\ vhd' = [vhd EXCEPT ![TailVhd] = Opened(v, @.flags, @.parent)]
           /\ Goto("unlink")
  <2>1. files' \in [Names -> Vhds] /\ files'[TailVhd] = v
        /\ \A g \in Names \ {TailVhd} : files'[g] = files[g]
    BY <1>0, <1>3, <1>4, OneFile
  <2>2. Kept(TailVhd) BY <2>1, <1>3 DEF Kept
  <2>3. PICK o : o = Opened(v, fl, p) OBVIOUS
  <2>4. /\ o \in VhdObjects /\ o.open /\ o.flags = fl /\ o.parent = p
        /\ o.present = v.present /\ o.bits = v.bits /\ o.dirty = {}
    <3>1. v \in Vhds BY <1>3
    <3>2. fl \in SUBSET Flags BY <1>3
    <3>3. p \in 0 .. NoUuid BY <1>3
    <3> HIDE <1>3
    <3> QED BY ONLY <2>3, <3>1, <3>2, <3>3, OpenedType
  <2>5. vhd' = [vhd EXCEPT ![TailVhd] = o]
    BY <2>3, <1>0, <1>2, <1>4 DEF TypeInv
  <2>6. vhd' \in [Objects -> VhdObjects] /\ vhd'[TailVhd] = o /\ vhd'[Tmp] = vhd[Tmp]
    BY <2>4, <2>5, <1>0, OneObject
  <2>7. GoesOn("unlink") /\ reply' = reply
    <3>1. "unlink" \in SafelyPcs BY DEF SafelyPcs
    <3> QED BY <3>1, <1>4, Gotos
  <2> QED BY <2>1, <2>2, <2>3, <2>4, <2>6, <2>7, <1>1, <1>2
<1>5. CASE UNCHANGED <<files, vhd>> /\ Return("error")
  BY <1>1, <1>5 DEF Return
<1> QED BY <1>2, <1>4, <1>5 DEF Reopen

(* Opening the tail again keeps the types and the structure. *)
LEMMA ReopenKeeps ==
  ASSUME TypeInv, NEW S, Struct(S), Reopen
  PROVE  TypeInv' /\ Struct(S)'
<1>0. Objects = {TailVhd, Tmp} /\ TailVhd # Tmp /\ TailVhd \in Objects /\ Tmp \in Names
  BY Fields DEF Objects
<1>1. call.pc = "reopen" /\ handle' = handle BY ReopenDoes
<1>2. call.op = "safely" /\ call.to = Tmp BY <1>1, StepOfCall
<1>3. ~vhd[Tmp].open /\ handle /\ files[Tmp] = NoFile /\ StrayNames \cap S = {}
  BY <1>1, <1>2 DEF Struct, CallInv, SafelyInv, TmpPcs, CopyPcs, LinkPcs
<1>4. CASE UNCHANGED <<files, vhd>> /\ call' = NoCall /\ reply' = "error"
  <2>1. ChainKept BY <1>4 DEF ChainKept
  <2>2. Struct(S)' BY <2>1, <1>1, <1>3, <1>4, StructNone
  <2> QED BY <2>2, <1>1, <1>4, Constants DEF TypeInv
<1>5. CASE /\ Kept(TailVhd) /\ vhd' \in [Objects -> VhdObjects] /\ vhd'[Tmp] = vhd[Tmp]
           /\ vhd'[TailVhd].open /\ vhd'[TailVhd].dirty = {}
           /\ vhd'[TailVhd].parent = vhd[TailVhd].parent
           /\ GoesOn("unlink") /\ reply' = reply
  <2>1. ChainKept BY <1>0, <1>5, KeptChain
  <2>2. Path(S)' /\ TailInv(S)' /\ \A p : Leads(p)' <=> Leads(p) BY <2>1, ChainFrame DEF Struct
  <2>3. /\ files[TailVhd].kind = "diff" /\ vhd[TailVhd].parent \in S /\ Leads(vhd[TailVhd].parent)
    BY <1>2 DEF Struct, CallInv
  <2>4. Leads(vhd[TailVhd].parent)'
    <3>1. PICK p : p = vhd[TailVhd].parent OBVIOUS
    <3>2. Leads(p)' BY <3>1, <2>2, <2>3
    <3> QED BY <3>1, <3>2, <1>5
  <2>5. call'.op = "safely" /\ call'.to = Tmp /\ StrayNames' = StrayNames /\ call'.pc = "unlink"
        /\ call' \in Calls
    BY <1>2, <1>5 DEF GoesOn, SameCall, StrayNames
  <2>6. "unlink" \in SafelyPcs /\ "unlink" \notin TmpPcs /\ "unlink" \notin CopyPcs
    BY DEF SafelyPcs, TmpPcs, CopyPcs, LinkPcs
  <2>7. files'[Tmp] = NoFile BY <1>0, <1>3, <1>5 DEF Kept
  <2>8. CallInv(S)' BY <2>1, <2>3, <2>4, <2>5, <2>6, <1>1, <1>3, <1>5 DEF CallInv, ChainKept
  <2>9. IntoTailInv(S)' BY <2>5 DEF IntoTailInv
  <2>10. SafelyInv(S)'
    <3>1. LinkInv(Tmp)' BY <2>5 DEF LinkInv
    <3> QED BY <3>1, <2>5, <2>6, <2>7, <1>3, <1>5 DEF SafelyInv
  <2>11. \A g \in Objects : vhd'[g].dirty \subseteq vhd'[g].present BY <1>0, <1>5, Fields
  <2>12. TypeInv' BY <2>5, <2>11, <1>1, <1>5 DEF TypeInv, Kept
  <2> QED BY <2>2, <2>8, <2>9, <2>10, <2>12 DEF Struct
<1> QED BY <1>4, <1>5, ReopenDoes

(* Deleting a file that is not in the chain any more. *)
LEMMA UnlinkDoes ==
  ASSUME TypeInv, NEW S, Struct(S), UnlinkStrays
  PROVE  /\ call.pc = "unlink" /\ UNCHANGED <<handle, vhd>>
         /\ \/ files' = files /\ call' = NoCall /\ reply' = "ok"
            \/ /\ \E x \in (1 .. NumDiffs) \ S : files' = [files EXCEPT ![x] = NoFile] \/ files' = files
               /\ call' \in Calls /\ call' = [call EXCEPT !.strays = call'.strays]
               /\ NamesIn(call'.strays) \subseteq StrayNames /\ reply' = reply
<1>1. call.pc = "unlink" /\ UNCHANGED <<handle, vhd>> BY DEF UnlinkStrays
<1>2. call.op \in {"intoTail", "safely"} BY <1>1, StepOfCall
<1>3. StrayNames \cap S = {} BY <1>1, <1>2 DEF Struct, IntoTailInv, SafelyInv
<1>4. CASE call.strays = << >> /\ Return("ok") /\ UNCHANGED files
  BY <1>1, <1>4 DEF Return
<1>5. CASE /\ call.strays # << >>
           /\ files' = [files EXCEPT ![call.strays[1]] = NoFile] \/ files' = files
           /\ call' = [call EXCEPT !.strays = SubSeq(@, 2, Len(@))] /\ UNCHANGED reply
  <2>1. PICK Q, R : Q = call.strays /\ R = SubSeq(Q, 2, Len(Q)) OBVIOUS
  <2>2. Q \in Seq(1 .. NumDiffs) /\ Q # << >> /\ Len(Q) \in Nat \ {0} BY <2>1, <1>5, CallFields
  <2>3. Q[1] \in 1 .. NumDiffs /\ Q[1] \in NamesIn(Q)
    <3>1. 1 \in 1 .. Len(Q) BY <2>2
    <3>2. Q[1] \in 1 .. NumDiffs BY <3>1, <2>2, ElementOfSeq
    <3>3. Q[1] \in NamesIn(Q) BY <3>1 DEF NamesIn
    <3> QED BY <3>2, <3>3
  <2>4. Q[1] \notin S BY <2>1, <2>3, <1>3 DEF StrayNames
  <2>5. /\ R \in Seq(1 .. NumDiffs) /\ Len(R) = Len(Q) - 1
        /\ \A i \in 1 .. Len(R) : R[i] = Q[i + 1]
    <3>1. PICK n \in Nat \ {0} : n = Len(Q) BY <2>2
    <3>2. \A i \in 2 .. n : Q[i] \in 1 .. NumDiffs
      <4> SUFFICES ASSUME NEW i \in 2 .. n PROVE Q[i] \in 1 .. NumDiffs OBVIOUS
      <4>1. i \in 1 .. n OBVIOUS
      <4>2. i \in 1 .. Len(Q) BY <4>1, <3>1
      <4> QED BY <4>2, <2>2, ElementOfSeq
    <3>3. /\ R \in Seq(1 .. NumDiffs) /\ Len(R) = IF 2 <= n THEN n - 2 + 1 ELSE 0
          /\ \A i \in 1 .. n - 2 + 1 : R[i] = Q[2 + i - 1]
      BY <2>1, <3>1, <3>2, SubSeqProperties
    <3>4. Len(R) = n - 1 BY <3>3
    <3>5. \A i \in 1 .. n - 1 : R[i] = Q[i + 1]
      <4> SUFFICES ASSUME NEW i \in 1 .. n - 1 PROVE R[i] = Q[i + 1] OBVIOUS
      <4>1. n - 2 + 1 = n - 1 /\ 2 + i - 1 = i + 1 OBVIOUS
      <4> QED BY <3>3, <4>1
    <3> QED BY <3>1, <3>3, <3>4, <3>5
  <2>6. NamesIn(R) \subseteq NamesIn(Q)
    <3> SUFFICES ASSUME NEW i \in 1 .. Len(R) PROVE R[i] \in NamesIn(Q) BY DEF NamesIn
    <3>1. i + 1 \in 1 .. Len(Q) /\ R[i] = Q[i + 1] BY <2>2, <2>5
    <3> QED BY <3>1 DEF NamesIn
  <2>7. call' = [call EXCEPT !.strays = R] BY <2>1, <1>5
  <2>8. call' \in Calls /\ call'.strays = R BY <2>5, <2>7, CallFields DEF Calls
  <2> QED BY <2>1, <2>3, <2>4, <2>6, <2>7, <2>8, <1>1, <1>5 DEF StrayNames
<1> QED BY <1>4, <1>5 DEF UnlinkStrays

(* Deleting keeps the types and the structure. *)
LEMMA UnlinkKeeps ==
  ASSUME TypeInv, NEW S, Struct(S), UnlinkStrays
  PROVE  TypeInv' /\ Struct(S)'
<1>0. TailVhd \in Names /\ Tmp \in Names /\ TailVhd \notin 1 .. NumDiffs /\ Tmp \notin 1 .. NumDiffs
      /\ 1 .. NumDiffs \subseteq Names
  BY NamesAreNumbers
<1>1. call.pc = "unlink" /\ handle' = handle /\ vhd' = vhd BY UnlinkDoes
<1>2. call.op \in {"intoTail", "safely"} BY <1>1, StepOfCall
<1>3. "unlink" \notin TmpPcs /\ "unlink" \notin CopyPcs /\ "unlink" \notin LinkPcs
  BY DEF TmpPcs, CopyPcs, LinkPcs
<1>4. ~vhd[Tmp].open /\ handle /\ StrayNames \cap S = {} /\ (vhd[TailVhd].open => handle)
  BY <1>1, <1>2, <1>3 DEF Struct, CallInv, IntoTailInv, SafelyInv
<1>5. CASE files' = files /\ call' = NoCall /\ reply' = "ok"
  <2>1. ChainKept BY <1>5 DEF ChainKept
  <2>2. Struct(S)' BY <2>1, <1>1, <1>4, <1>5, StructNone
  <2> QED BY <2>2, <1>1, <1>5, Constants DEF TypeInv
<1>6. ASSUME NEW x \in (1 .. NumDiffs) \ S, files' = [files EXCEPT ![x] = NoFile] \/ files' = files,
             call' \in Calls, call' = [call EXCEPT !.strays = call'.strays],
             NamesIn(call'.strays) \subseteq StrayNames, reply' = reply
      PROVE  TypeInv' /\ Struct(S)'
  <2>1. /\ files' \in [Names -> Vhds] /\ \A f \in S : files'[f] = files[f]
        /\ files'[TailVhd] = files[TailVhd] /\ files'[Tmp] = files[Tmp]
    BY <1>0, <1>6, Constants DEF TypeInv, Struct, Path
  <2>2. Path(S)' BY <2>1, PathFrame DEF Struct
  <2>3. TailInv(S)' /\ TailLocs' = TailLocs BY <2>1 DEF Struct, TailInv, TailLocs
  <2>4. call'.op = call.op /\ call'.pc = "unlink" /\ call'.to = call.to /\ call'.parent = call.parent
        /\ StrayNames' \subseteq StrayNames
    <3>1. PICK R : R = call'.strays OBVIOUS
    <3>2. call' = [call EXCEPT !.strays = R] BY <3>1, <1>6
    <3> QED BY <3>2, <1>1, <1>6, CallFields DEF Calls, StrayNames
  <2>5. files[TailVhd].kind = "diff" /\ vhd[TailVhd].parent \in S /\ Leads(vhd[TailVhd].parent)
    BY <1>1, <1>2, <1>3 DEF Struct, CallInv
  <2>6. Leads(vhd[TailVhd].parent)' BY <2>3, <2>5, <1>1 DEF Leads
  <2>7. CallInv(S)' BY <2>1, <2>4, <2>5, <2>6, <1>1, <1>2, <1>3, <1>4 DEF CallInv
  <2>8. StrayNames' \cap S = {} BY <2>4, <1>4
  <2>9. IntoTailInv(S)'
    <3>1. LinkInv(TailVhd)' BY <2>4 DEF LinkInv
    <3> QED BY <3>1, <2>4, <2>8, <1>1, <1>3 DEF Struct, IntoTailInv
  <2>10. SafelyInv(S)'
    <3>1. LinkInv(Tmp)' BY <2>4 DEF LinkInv
    <3> QED BY <3>1, <2>1, <2>4, <2>8, <1>1, <1>3 DEF Struct, SafelyInv
  <2>11. TypeInv' BY <2>1, <2>4, <1>1, <1>6 DEF TypeInv
  <2> QED BY <2>2, <2>3, <2>7, <2>9, <2>10, <2>11 DEF Struct
<1> QED BY <1>5, <1>6, UnlinkDoes
-----------------------------------------------------------------------------
(***************************************************************************)
(* The structure always holds                                              *)
(***************************************************************************)

StructInv == TypeInv /\ \E S \in SUBSET (1 .. NumDiffs) : Struct(S)

(* At first the chain is the whole directory. *)
LEMMA InitStruct ==
  ASSUME Init
  PROVE  StructInv
<1>0. /\ NumDiffs \in Nat /\ NumDiffs >= 1 /\ HeadVhd = NumDiffs /\ TailVhd = 0 /\ Tmp = NumDiffs + 1
      /\ NoName = NumDiffs + 2 /\ NoUuid = NumDiffs + 1 /\ Names = 0 .. NumDiffs + 1
      /\ Objects = {TailVhd, Tmp} /\ 1 \in Locators
  BY NamesAreNumbers
<1>1. PICK bits \in [0 .. NumDiffs - 1 -> SUBSET Sectors] :
        files = [f \in Names |->
                    CASE f < HeadVhd ->
                           Diff(f, {SectorToBlockNumber(s) : s \in bits[f]}, bits[f])
                      [] f = HeadVhd -> HeadFile
                      [] OTHER -> NoFile]
  BY DEF Init
<1>2. ASSUME NEW f \in 0 .. NumDiffs - 1
      PROVE  /\ files[f] \in Vhds /\ files[f].kind = "diff" /\ files[f].uuid = f
             /\ files[f].parent = f + 1 /\ \A i \in Locators : files[f].locs[i] = f + 1
  <2>1. PICK P, B : P = {SectorToBlockNumber(s) : s \in bits[f]} /\ B = bits[f] OBVIOUS
  <2>2. f \in Names /\ f < HeadVhd /\ f \in Nat BY <1>0
  <2>3. files[f] = Diff(f, P, B) BY <2>1, <2>2, <1>1
  <2>4. B \in SUBSET Sectors BY <2>1
  <2>5. P \in SUBSET Blocks BY <2>1, <2>4, BlockOfSector
  <2>6. f \in Data /\ Junk \in Data BY <2>2, <1>0, Constants DEF Data, Unreadable
  <2>7. [s \in Sectors |-> IF s \in B THEN f ELSE Junk] \in [Sectors -> Data] BY <2>6
  <2>8. f + 1 \in Names \cup {NoName} /\ f + 1 \in 0 .. NoUuid /\ f \in 0 .. NoUuid BY <1>0, <2>2
  <2>9. [i \in Locators |-> f + 1] \in [Locators -> Names \cup {NoName}] BY <2>8
  <2>10. PICK d, l : d = [s \in Sectors |-> IF s \in B THEN f ELSE Junk]
                     /\ l = [i \in Locators |-> f + 1]
    OBVIOUS
  <2>11. files[f] = [kind |-> "diff", uuid |-> f, parent |-> f + 1, locs |-> l,
                     present |-> P, bits |-> B, data |-> d]
    BY <2>3, <2>10 DEF Diff
  <2> QED BY <2>4, <2>5, <2>7, <2>8, <2>9, <2>10, <2>11 DEF Vhds
<1>3. files[HeadVhd] \in Vhds /\ files[HeadVhd].kind = "head" /\ files[HeadVhd].uuid = HeadVhd
  <2>1. HeadVhd \in Names /\ ~(HeadVhd < HeadVhd) BY <1>0
  <2>2. files[HeadVhd] = HeadFile BY <1>1, <2>1
  <2>3. HeadVhd \in Data /\ HeadVhd \in 0 .. NoUuid BY <1>0 DEF Data, Unreadable
  <2>4. [s \in Sectors |-> HeadVhd] \in [Sectors -> Data] BY <2>3
  <2>5. PICK d : d = [s \in Sectors |-> HeadVhd] OBVIOUS
  <2>6. files[HeadVhd] = [NoFile EXCEPT !.kind = "head", !.uuid = HeadVhd, !.data = d]
    BY <2>2, <2>5 DEF HeadFile
  <2> QED BY <2>3, <2>4, <2>5, <2>6, Constants DEF Vhds
<1>4. files[Tmp] = NoFile
  <2>1. Tmp \in Names /\ ~(Tmp < HeadVhd) /\ Tmp # HeadVhd BY <1>0
  <2> QED BY <1>1, <2>1
<1>5. files \in [Names -> Vhds]
  <2> SUFFICES ASSUME NEW f \in Names PROVE files[f] \in Vhds BY <1>1
  <2>1. f \in 0 .. NumDiffs - 1 \/ f = HeadVhd \/ f = Tmp BY <1>0
  <2> QED BY <2>1, <1>2, <1>3, <1>4, Constants
<1>6. handle = FALSE /\ vhd = [f \in Objects |-> Closed] /\ call = NoCall /\ reply = "none"
  BY DEF Init
<1>7. \A f \in Objects : vhd[f] = Closed BY <1>6
<1>8. TypeInv BY <1>5, <1>6, <1>7, Constants DEF TypeInv
<1>9. PICK S : S = 1 .. NumDiffs OBVIOUS
<1>10. HeadVhd \in S /\ \A f \in S \ {HeadVhd} : f \in 0 .. NumDiffs - 1 /\ f \in Nat /\ f < NumDiffs
  BY <1>0, <1>9
<1>11. Path(S)
  <2> SUFFICES ASSUME NEW f \in S \ {HeadVhd}
               PROVE  \E g \in S : /\ Follows(S, f, g) /\ files[f].parent = g
                                   /\ \A i \in Locators : files[f].locs[i] = g
    BY <1>2, <1>3, <1>9, <1>10 DEF Path
  <2>1. f \in Nat /\ f < NumDiffs /\ f \in 0 .. NumDiffs - 1 BY <1>10
  <2>2. f + 1 \in S /\ f < f + 1 BY <2>1, <1>0, <1>9
  <2>3. \A h \in S : h <= f \/ f + 1 <= h BY <2>1, <1>0, <1>9
  <2>4. Follows(S, f, f + 1) BY <2>2, <2>3 DEF Follows
  <2> QED BY <2>1, <2>2, <2>4, <1>2
<1>12. TailInv(S)
  <2>1. TailVhd \in 0 .. NumDiffs - 1 /\ TailVhd + 1 = 1 /\ 1 \in S BY <1>0, <1>9
  <2>2. files[TailVhd].kind = "diff" /\ \A i \in Locators : TailLocs[i] = 1
    BY <2>1, <1>2 DEF TailLocs
  <2> QED BY <2>1, <2>2 DEF TailInv
<1>13. call.op = "none" /\ call.pc = "none" BY <1>6, Constants
<1>14. CallInv(S)
  <2>1. ~vhd[TailVhd].open /\ ~vhd[Tmp].open BY <1>0, <1>7, Constants
  <2> QED BY <2>1, <1>6, <1>13 DEF CallInv
<1>15. IntoTailInv(S) /\ SafelyInv(S) BY <1>13 DEF IntoTailInv, SafelyInv
<1>16. Struct(S) BY <1>11, <1>12, <1>14, <1>15 DEF Struct
<1> QED BY <1>8, <1>9, <1>16 DEF StructInv

(* The steps of copying, one like the other. *)
LEMMA CopyStep ==
  ASSUME TypeInv, NEW S, Struct(S), CoalesceBlock \/ AppendBlock \/ CopyExtent \/ FlushBits \/ Detach
  PROVE  CopyOutcome /\ call.pc \in CopyPcs /\ call.op # "none"
<1>1. CopyOutcome
  BY CoalesceBlockDoes, AppendBlockDoes, CopyExtentDoes, FlushBitsDoes, DetachDoes
<1>2. call.pc \in CopyPcs
  BY DEF CoalesceBlock, AppendBlock, CopyExtent, FlushBits, Detach, CopyPcs
<1>3. call.pc # "none" BY <1>2 DEF CopyPcs
<1> QED BY <1>1, <1>2, <1>3, StepOfCall

(* Nothing happens to the structure. *)
LEMMA StructStays ==
  ASSUME NEW S, Struct(S), UNCHANGED <<files, handle, vhd, call>>
  PROVE  Struct(S)'
<1>1. Path(S)' <=> Path(S) BY DEF Path
<1>2. TailInv(S)' <=> TailInv(S) BY DEF TailInv, TailLocs
<1>3. CallInv(S)' <=> CallInv(S) BY DEF CallInv, Leads, TailLocs
<1>4. IntoTailInv(S)' <=> IntoTailInv(S) BY DEF IntoTailInv, TailLocs, StrayNames, LinkInv
<1>5. SafelyInv(S)' <=> SafelyInv(S)
  <2>1. ParentsOf(View(TailVhd))' = ParentsOf(View(TailVhd))
    BY DEF ParentsOf, OpenParentVHD, CanOpen, DoFindParentFile, View
  <2> QED BY <2>1 DEF SafelyInv, StrayNames, LinkInv
<1> QED BY <1>1, <1>2, <1>3, <1>4, <1>5 DEF Struct

(* Every step keeps the structure, of a chain that may have lost files. *)
LEMMA StructStep ==
  ASSUME StructInv, [Next]_vars
  PROVE  StructInv'
<1>1. TypeInv BY DEF StructInv
<1>2. PICK S \in SUBSET (1 .. NumDiffs) : Struct(S) BY DEF StructInv
<1>3. SUFFICES TypeInv' /\ \E T \in SUBSET (1 .. NumDiffs) : Struct(T)'
  BY NamesAreNumbers DEF StructInv
<1>4. CASE CreateTmp BY <1>1, <1>2, <1>4, CreateTmpKeeps
<1>5. CASE GenerateTmp BY <1>1, <1>2, <1>5, GenerateTmpKeeps
<1>6. CASE GiveUp BY <1>1, <1>2, <1>6, GiveUpKeeps
<1>7. CASE CoalesceBlock \/ AppendBlock \/ CopyExtent \/ FlushBits \/ Detach
  <2>1. CopyOutcome /\ call.pc \in CopyPcs /\ call.op # "none" BY <1>1, <1>2, <1>7, CopyStep
  <2> QED BY <2>1, <1>1, <1>2, CopyingKeeps
<1>8. CASE WriteLocator BY <1>1, <1>2, <1>8, WriteLocatorKeeps
<1>9. CASE WriteHeader BY <1>1, <1>2, <1>9, WriteHeaderKeeps
<1>10. CASE FlushTmp BY <1>1, <1>2, <1>10, FlushTmpKeeps
<1>11. CASE CloseTail BY <1>1, <1>2, <1>11, CloseTailKeeps
<1>12. CASE Rename BY <1>1, <1>2, <1>12, RenameKeeps
<1>13. CASE Reopen BY <1>1, <1>2, <1>13, ReopenKeeps
<1>14. CASE UnlinkStrays BY <1>1, <1>2, <1>14, UnlinkKeeps
<1>15. ASSUME NEW flags \in Modes, Open(flags) PROVE TypeInv' /\ Struct(S)'
  BY <1>1, <1>2, <1>15, OpenKeeps
<1>16. CASE (\E s \in Writable : WriteSectors(s)) \/ Flush \/ Close \/ ProcessDies
  BY <1>1, <1>2, <1>16, ClientKeeps
<1>17. ASSUME NEW args \in Args, CoalesceChain(args) PROVE TypeInv' /\ Struct(S)'
  BY <1>1, <1>2, <1>17, CoalesceChainKeeps
<1>18. CASE UNCHANGED vars
  <2>1. TypeInv' BY <1>1, <1>18 DEF TypeInv, vars
  <2>2. UNCHANGED <<files, handle, vhd, call, reply>> BY <1>18 DEF vars
  <2> QED BY <2>1, <2>2, <1>2, StructStays
<1> QED
  BY <1>2, <1>4, <1>5, <1>6, <1>7, <1>8, <1>9, <1>10, <1>11, <1>12, <1>13, <1>14, <1>15, <1>16,
     <1>17, <1>18
  DEF Next, Step, Client

(* In every state the files that the chain needs are there, in order, ... *)
THEOREM ChainIsWhole == Spec => []StructInv
<1>1. Init => StructInv BY InitStruct
<1>2. StructInv /\ [Next]_vars => StructInv' BY StructStep
<1> QED BY <1>1, <1>2, PTL DEF Spec

(* ... the variables have their types (Coalesce.TypeOK), ... *)
THEOREM TypesAreKept == Spec => []TypeOK
<1>1. ASSUME StructInv PROVE TypeOK
  <2>1. TypeInv BY <1>1 DEF StructInv
  <2> QED BY <2>1, Fields, CallFields DEF TypeOK, TypeInv
<1>2. StructInv => TypeOK BY <1>1
<1> QED BY <1>2, ChainIsWhole, PTL
-----------------------------------------------------------------------------
(***************************************************************************)
(* What follows                                                            *)
(***************************************************************************)

(* The parents of the tail, if it has any, are files of the chain. *)
LEMMA ParentsInChain ==
  ASSUME TypeInv, NEW S, Struct(S), NEW j \in 1 .. Len(ParentsOf(files[TailVhd]))
  PROVE  ParentsOf(files[TailVhd])[j] \in S
<1>1. PICK v : v = files[TailVhd] OBVIOUS
<1>2. v.locs = TailLocs /\ v.kind \in {"diff", "bad"} /\ v.parent \in 0 .. NoUuid
  <2>1. TailVhd \in Names BY Fields
  <2> QED BY <1>1, <2>1, Fields DEF TailLocs, Struct, TailInv
<1>3. CASE OpenParentVHD(v) = NoName
  <2>1. ParentsOf(v) = << >> BY <1>3, ParentsShape
  <2>2. Len(ParentsOf(v)) = 0 BY <2>1
  <2> QED BY <1>1, <2>2
<1>4. CASE OpenParentVHD(v) # NoName
  <2>1. OpenParentVHD(v) \in S BY <1>2, <1>4, TailParent DEF Struct
  <2>2. Enumerates(ParentsOf(v), S, OpenParentVHD(v)) BY <2>1, ParentsEnumerate DEF Struct
  <2>3. ParentsOf(v) \in Seq(S) BY <2>2 DEF Enumerates
  <2> QED BY <1>1, <2>3, ElementOfSeq
<1> QED BY <1>3, <1>4

(* No file of the chain is among those that a call is about to delete                 *)
(* (Coalesce.StraysAreUnlinked).                                                      *)
THEOREM NoFileOfTheChainIsDeleted == Spec => []StraysAreUnlinked
<1>1. ASSUME StructInv PROVE StraysAreUnlinked
  <2>1. PICK S \in SUBSET (1 .. NumDiffs) : Struct(S) BY <1>1 DEF StructInv
  <2>2. TypeInv BY <1>1 DEF StructInv
  <2> SUFFICES ASSUME call.pc = "unlink", NEW i \in 1 .. Len(call.strays),
                      NEW j \in 1 .. Len(ParentsOf(files[TailVhd]))
               PROVE  call.strays[i] # ParentsOf(files[TailVhd])[j]
    BY DEF StraysAreUnlinked
  <2>3. call.op \in {"intoTail", "safely"} BY <2>1, <2>2, StepOfCall
  <2>4. StrayNames \cap S = {} BY <2>1, <2>3 DEF Struct, IntoTailInv, SafelyInv
  <2>5. call.strays[i] \in StrayNames BY DEF StrayNames, NamesIn
  <2> QED BY <2>1, <2>2, <2>4, <2>5, ParentsInChain
<1>2. StructInv => StraysAreUnlinked BY <1>1
<1> QED BY <1>2, ChainIsWhole, PTL

(* Coalescing into a parent leaves header and locators of the tail alone, and no temporary *)
(* file behind that can be deleted.                                                        *)
LEMMA SafelyStep ==
  ASSUME TypeInv, NEW S, Struct(S), Step, call.op = "safely"
  PROVE  /\ SameFrame(files[TailVhd], files'[TailVhd])
         /\ handle' => handle /\ vhd'[TailVhd].parent = vhd[TailVhd].parent
         /\ call'.op # "intoTail"
         /\ call' = NoCall /\ reply' # "died" /\ "unlink" \notin Faults => files'[Tmp] = NoFile
<1>0. /\ Objects = {TailVhd, Tmp} /\ TailVhd # Tmp /\ TailVhd \in Names /\ Tmp \in Names
      /\ TailVhd \in Objects /\ Tmp \in Objects
      /\ S \in SUBSET (1 .. NumDiffs) /\ TailVhd \notin 1 .. NumDiffs /\ Tmp \notin 1 .. NumDiffs
  BY NamesAreNumbers, Fields DEF Objects, Struct, Path
<1>1. call.to = Tmp /\ NoCall.op = "none" /\ call.op # "intoTail" /\ call.op # "none" /\ files \in [Names -> Vhds]
  BY Constants DEF Struct, SafelyInv, TypeInv
<1>2. SameCall => call'.op = "safely" /\ call' # NoCall BY <1>1 DEF SameCall
<1>3. \A pc : GoesOn(pc) => call'.op = "safely" /\ call' # NoCall BY <1>2 DEF GoesOn
<1>4. CASE CreateTmp
  <2>1. vhd' = vhd /\ handle' = handle BY <1>4 DEF CreateTmp
  <2>2. CASE files' = [files EXCEPT ![Tmp] = BadFile] /\ Goto("generate")
    <3>1. "generate" \in SafelyPcs BY DEF SafelyPcs
    <3>2. files'[TailVhd] = files[TailVhd] BY <2>2, <1>0, <1>1
    <3> QED BY <2>1, <2>2, <3>1, <3>2, <1>3, Gotos DEF SameFrame
  <2>3. CASE TmpLeft /\ Return("error")
    BY <2>1, <2>3, <1>0, <1>1 DEF SameFrame, Return, TmpLeft
  <2> QED BY <2>2, <2>3, <1>4, CreateTmpDoes
<1>5. CASE GenerateTmp
  <2>1. handle' = handle BY <1>5, GenerateTmpDoes
  <2>2. CASE TmpLeft /\ call' = NoCall /\ vhd' = vhd
    BY <2>1, <2>2, <1>0, <1>1 DEF SameFrame, TmpLeft
  <2>3. ASSUME NEW r \in S, Generates(S, r)
        PROVE  /\ files'[TailVhd] = files[TailVhd] /\ vhd'[TailVhd] = vhd[TailVhd]
               /\ call'.op = "safely"
    <3>1. files'[TailVhd] = files[TailVhd] /\ vhd'[TailVhd] = vhd[TailVhd]
      BY <2>3, <1>0 DEF Generates
    <3>2. PICK c : c = call'.parent OBVIOUS
    <3>3. GoesOn("giveUp") \/ call' = [call EXCEPT !.pc = "block", !.parent = c]
      BY <2>3, <3>2 DEF Generates
    <3>4. call'.op = "safely" BY <3>3, <1>3, CallFields DEF Calls
    <3> QED BY <3>1, <3>4
  <2> QED BY <2>1, <2>2, <2>3, <1>1, <1>5, GenerateTmpDoes DEF SameFrame
<1>6. CASE GiveUp
  <2>1. CASE CloseDies(Tmp)
    <3>1. PICK D \in SUBSET vhd[Tmp].dirty, table \in {vhd[Tmp].present, files[Tmp].present} :
            WroteBack(Tmp, D, table)
      BY <2>1, <1>0, DiesClosing
    <3>2. handle' = FALSE /\ call' = NoCall /\ reply' = "died" BY <2>1, <1>0, DiesClosing
    <3> QED BY <3>1, <3>2, <1>0, <1>1 DEF WroteBack, SameFrame
  <2>2. CASE /\ TmpLeft /\ vhd' = [vhd EXCEPT ![Tmp] = Closed]
             /\ Return("error") /\ UNCHANGED handle
    <3>1. vhd'[TailVhd] = vhd[TailVhd] BY <2>2, <1>0, Constants, OneObject
    <3> QED BY <2>2, <3>1, <1>0, <1>1 DEF SameFrame, Return, TmpLeft
  <2> QED BY <2>1, <2>2, <1>6, GiveUpDoes
<1>7. CASE CoalesceBlock \/ AppendBlock \/ CopyExtent \/ FlushBits \/ Detach
  <2>1. CopyOutcome BY <1>7, CopyStep
  <2>2. files'[TailVhd] = files[TailVhd] /\ vhd'[TailVhd] = vhd[TailVhd] /\ handle' = handle
    BY <2>1, <1>0, <1>1 DEF CopyOutcome, Kept, ObjectKept
  <2>3. call'.op = "safely" BY <2>1, <1>0, <1>1, <1>2, <1>3 DEF CopyOutcome
  <2> QED BY <2>2, <2>3, <1>1 DEF SameFrame
<1>8. CASE WriteLocator
  <2>1. handle' = handle BY <1>8, WriteLocatorDoes
  <2>2. \E L : LocatorsWritten(Tmp, L) BY <1>1, <1>8, WriteLocatorDoes
  <2>3. files'[TailVhd] = files[TailVhd] /\ vhd'[TailVhd] = vhd[TailVhd]
    BY <2>2, <1>0 DEF LocatorsWritten
  <2>4. call'.op = "safely" BY <1>0, <1>1, <1>2, <1>3, <1>8, WriteLocatorDoes
  <2> QED BY <2>1, <2>3, <2>4, <1>1 DEF SameFrame
<1>9. CASE WriteHeader
  <2>1. UNCHANGED <<handle, vhd>> BY <1>9, WriteHeaderDoes
  <2>2. \E kind, parent : HeaderWritten(Tmp, kind, parent) BY <1>1, <1>9, WriteHeaderDoes
  <2>3. files'[TailVhd] = files[TailVhd] BY <2>2, <1>0 DEF HeaderWritten
  <2>4. call'.op = "safely" BY <1>0, <1>1, <1>3, <1>9, WriteHeaderDoes
  <2> QED BY <2>1, <2>3, <2>4, <1>1 DEF SameFrame
<1>10. CASE FlushTmp
  <2>1. handle' = handle BY <1>10, FlushTmpDoes
  <2>2. CASE /\ WroteBack(Tmp, vhd[Tmp].dirty, vhd[Tmp].present)
             /\ vhd'[TailVhd] = vhd[TailVhd] /\ GoesOn("closeTail")
    <3>1. files'[TailVhd] = files[TailVhd] BY <2>2, <1>0 DEF WroteBack
    <3> QED BY <2>1, <2>2, <3>1, <1>1, <1>3 DEF SameFrame
  <2>3. CASE FlushedPartly(Tmp) /\ GoesOn("giveUp")
    <3>1. Kept(Tmp) /\ ObjectKept(Tmp) BY <1>0, <2>3, FlushedKept
    <3>2. files'[TailVhd] = files[TailVhd] /\ vhd'[TailVhd] = vhd[TailVhd]
      BY <3>1, <1>0 DEF Kept, ObjectKept
    <3> QED BY <2>1, <2>3, <3>2, <1>1, <1>3 DEF SameFrame
  <2> QED BY <2>2, <2>3, <1>0, <1>1, <1>10, FlushTmpDoes
<1>11. CASE CloseTail
  <2>1. CASE CloseDies(TailVhd)
    <3>1. PICK D \in SUBSET vhd[TailVhd].dirty,
               table \in {vhd[TailVhd].present, files[TailVhd].present} : WroteBack(TailVhd, D, table)
      BY <2>1, <1>0, DiesClosing
    <3>2. handle' = FALSE /\ call' = NoCall /\ reply' = "died" BY <2>1, <1>0, DiesClosing
    <3> QED BY <3>1, <3>2, <1>1 DEF WroteBack
  <2>2. CASE /\ WroteBack(TailVhd, vhd[TailVhd].dirty, vhd[TailVhd].present) /\ handle' = handle
             /\ vhd'[TailVhd].parent = vhd[TailVhd].parent /\ GoesOn("rename")
    BY <2>2, <1>1, <1>3 DEF WroteBack
  <2> QED BY <2>1, <2>2, <1>11, CloseTailDoes
<1>12. CASE Rename
  <2>1. UNCHANGED <<handle, vhd>> BY <1>12, RenameDoes
  <2>2. CASE TmpLeft /\ call' = NoCall
    BY <2>1, <2>2, <1>0, <1>1 DEF SameFrame, TmpLeft
  <2>3. CASE Renames(files[Tmp].uuid) /\ files[Tmp].uuid \in S /\ GoesOn("reopen")
    <3>1. files'[TailVhd] = files[TailVhd] BY <2>3, <1>0 DEF Renames
    <3> QED BY <2>1, <2>3, <3>1, <1>1, <1>3 DEF SameFrame
  <2> QED BY <2>2, <2>3, <1>12, RenameDoes
<1>13. CASE Reopen
  <2>1. call.pc = "reopen" /\ handle' = handle BY <1>13, ReopenDoes
  <2>2. files[Tmp] = NoFile BY <2>1 DEF Struct, SafelyInv
  <2>3. CASE UNCHANGED <<files, vhd>> /\ call' = NoCall
    BY <2>1, <2>2, <2>3, <1>1 DEF SameFrame
  <2>4. CASE /\ Kept(TailVhd) /\ vhd'[TailVhd].parent = vhd[TailVhd].parent
             /\ GoesOn("unlink")
    BY <2>1, <2>4, <1>1, <1>3 DEF Kept
  <2> QED BY <2>3, <2>4, <1>13, ReopenDoes
<1>14. CASE UnlinkStrays
  <2>1. call.pc = "unlink" /\ UNCHANGED <<handle, vhd>> BY <1>14, UnlinkDoes
  <2>2. files[Tmp] = NoFile BY <2>1 DEF Struct, SafelyInv
  <2>3. files' = files \/ \E x \in 1 .. NumDiffs : files' = [files EXCEPT ![x] = NoFile]
    BY <1>14, UnlinkDoes
  <2>4. files'[TailVhd] = files[TailVhd] /\ files'[Tmp] = NoFile BY <2>2, <2>3, <1>0, <1>1
  <2>5. call' = NoCall \/ call'.op = "safely"
    <3>1. PICK R : R = call'.strays OBVIOUS
    <3>2. call' = NoCall \/ call' = [call EXCEPT !.strays = R] BY <3>1, <1>14, UnlinkDoes
    <3> QED BY <3>2, CallFields DEF Calls
  <2> QED BY <2>1, <2>4, <2>5, <1>1 DEF SameFrame
<1> QED
  BY <1>4, <1>5, <1>6, <1>7, <1>8, <1>9, <1>10, <1>11, <1>12, <1>13, <1>14 DEF Step

(* When a call returns that coalesces into a parent, the temporary file is gone, whatever else *)
(* failed, as long as files can be deleted; the results of unlink are ignored                  *)
(* (Coalesce.NoTemporaryFileLeft).                                                             *)
THEOREM TemporaryFileIsGone ==
  ASSUME "unlink" \notin Faults
  PROVE  Spec => NoTemporaryFileLeft
<1>1. ASSUME StructInv, [Next]_vars, call.op = "safely", call' = NoCall, reply' # "died"
      PROVE  files'[Tmp] = NoFile
  <2>1. TypeInv BY <1>1 DEF StructInv
  <2>2. PICK S \in SUBSET (1 .. NumDiffs) : Struct(S) BY <1>1 DEF StructInv
  <2>3. call # NoCall BY <1>1, Constants
  <2>4. handle BY <1>1, <2>2 DEF Struct, CallInv
  <2>5. call' # call BY <1>1, <2>3
  <2>6. CASE Step BY <2>1, <2>2, <2>6, <1>1, SafelyStep
  <2>7. ASSUME Client \/ ProcessDies PROVE FALSE
    BY <2>3, <2>4, <2>7, <1>1
    DEF Client, Open, WriteSectors, Flush, Close, CoalesceChain, Ready, ProcessDies, Return
  <2> QED BY <2>5, <2>6, <2>7, <1>1 DEF Next, vars
<1>2. StructInv /\ [Next]_vars
        => [call.op = "safely" /\ call' = NoCall /\ reply' # "died" => files'[Tmp] = NoFile]_vars
  BY <1>1
<1> QED BY <1>2, ChainIsWhole, PTL DEF Spec, NoTemporaryFileLeft

(* History variables add nothing to what the system may do. *)
LEMMA HistoryRefines == HistorySpec => Spec
<1>1. HistoryInit => Init BY DEF HistoryInit
<1>2. [HistoryNext]_historyVars => [Next]_vars
  BY DEF HistoryNext, HistoryOpen, HistoryWrite, HistoryFlush, HistoryStep, historyVars, Next, Client,
         vars
<1> QED BY <1>1, <1>2, PTL DEF HistorySpec, Spec

(* Nothing that names the parent of the tail changes. *)
LEMMA ParentStaysNamed ==
  ASSUME ParentNamed, SameFrame(files[TailVhd], files'[TailVhd]),
         handle' => handle /\ vhd'[TailVhd].parent = vhd[TailVhd].parent,
         call'.op = "intoTail" => call'.pc \in CopyPcs \/ (call'.pc = "locators" /\ call'.loc = 1)
  PROVE  ParentNamed'
BY DEF ParentNamed, SameFrame, TailLocs, CopyPcs

(* Until a call begins to change it, all that names the parent of the tail says the same. *)
LEMMA SafeStep ==
  ASSUME StructInv, SafeInv, HistoryNext
  PROVE  SafeInv'
<1>1. TypeInv BY DEF StructInv
<1>2. PICK S \in SUBSET (1 .. NumDiffs) : Struct(S) BY DEF StructInv
<1>3. SUFFICES ASSUME ~risked' PROVE ParentNamed' BY DEF SafeInv
<1>4. ~risked /\ ~(call.to = TailVhd /\ call.pc = "locators") BY <1>3 DEF HistoryNext
<1>5. ParentNamed BY <1>4 DEF SafeInv
<1>6. TailVhd \in Objects /\ TailVhd \in Names BY <1>1, Fields
<1>7. CASE Step
  <2>1. CASE call.op = "safely"
    BY <2>1, <1>1, <1>2, <1>5, <1>7, SafelyStep, ParentStaysNamed
  <2>2. CASE call.op = "intoTail"
    <3>1. call.to = TailVhd BY <2>2, <1>2 DEF Struct, IntoTailInv
    <3>2. call.pc \in CopyPcs BY <2>2, <3>1, <1>4, <1>5 DEF ParentNamed
    <3>3. CoalesceBlock \/ AppendBlock \/ CopyExtent \/ FlushBits \/ Detach
      BY <3>2, <1>7
      DEF Step, CreateTmp, GenerateTmp, GiveUp, WriteLocator, WriteHeader, FlushTmp, CloseTail,
          Rename, Reopen, UnlinkStrays, CopyPcs
    <3>4. CopyOutcome BY <3>3, <1>1, <1>2, CopyStep
    <3>5. /\ SameFrame(files[TailVhd], files'[TailVhd]) /\ handle' = handle
          /\ vhd'[TailVhd].parent = vhd[TailVhd].parent
      BY <3>1, <3>4 DEF CopyOutcome, Kept, ObjectKept
    <3>6. call'.op = "intoTail" => call'.pc \in CopyPcs \/ (call'.pc = "locators" /\ call'.loc = 1)
      <4>1. call.to # Tmp BY <3>1, NamesAreNumbers
      <4>2. call' = NoCall => call'.op = "none" BY Constants
      <4> QED BY <4>1, <4>2, <3>4 DEF CopyOutcome
    <3> QED BY <3>5, <3>6, <1>5, ParentStaysNamed
  <2>3. call.pc # "none"
    BY <1>7
    DEF Step, CreateTmp, GenerateTmp, GiveUp, CoalesceBlock, AppendBlock, CopyExtent, FlushBits,
        Detach, WriteLocator, WriteHeader, FlushTmp, CloseTail, Rename, Reopen, UnlinkStrays
  <2> QED BY <2>1, <2>2, <2>3, <1>1, <1>2, StepOfCall
<1>8. ASSUME NEW flags \in Modes, Open(flags) PROVE ParentNamed'
  <2>1. ~handle /\ call' = call /\ (OpensTail(flags) \/ UNCHANGED <<files, handle, vhd>>)
    BY <1>1, <1>8, OpenDoes
  <2>2. call.op # "intoTail" BY <2>1, <1>2 DEF Struct, CallInv
  <2>3. CASE UNCHANGED <<files, handle, vhd>>
    BY <2>1, <2>2, <2>3, <1>5, ParentStaysNamed DEF SameFrame
  <2>4. CASE OpensTail(flags)
    <3>1. SameFrame(files[TailVhd], files'[TailVhd]) BY <2>4 DEF OpensTail, Kept
    <3>2. vhd'[TailVhd].parent = files[TailVhd].parent BY <2>4 DEF OpensTail, Opened
    <3> QED BY <2>1, <2>2, <3>1, <3>2, <1>5 DEF ParentNamed, SameFrame, TailLocs
  <2> QED BY <2>1, <2>3, <2>4
<1>9. ASSUME NEW s \in Writable, WriteSectors(s) PROVE ParentNamed'
  <2>1. Ready /\ Writes(s) /\ call' = call /\ handle' = handle BY <1>1, <1>9, WriteSectorsDoes
  <2>2. call'.op # "intoTail" BY <2>1, Constants DEF Ready
  <2>3. Kept(TailVhd) /\ ObjectKept(TailVhd) BY <2>1 DEF Writes
  <2> QED BY <2>1, <2>2, <2>3, <1>5, ParentStaysNamed DEF Kept, ObjectKept
<1>10. CASE Flush
  <2>1. call' = NoCall /\ handle' = handle BY <1>10 DEF Flush, Ready, Refuse
  <2>2. Flushed(TailVhd) \/ FlushedPartly(TailVhd)
    BY <1>1, <1>6, <1>10, FlushesOk, FlushesPartly DEF Flush, Flushed, FlushedPartly
  <2>3. Kept(TailVhd) /\ ObjectKept(TailVhd) BY <2>2, <1>1, <1>6, FlushedKept
  <2> QED BY <2>1, <2>3, <1>5, Constants, ParentStaysNamed DEF Kept, ObjectKept
<1>11. CASE Close
  <2>1. call' = NoCall /\ handle' = FALSE /\ Kept(TailVhd) BY <1>1, <1>11, CloseDoes
  <2> QED BY <2>1, <1>5, Constants, ParentStaysNamed DEF Kept
<1>12. CASE ProcessDies
  <2>1. files' = files /\ call' = NoCall /\ handle' = FALSE BY <1>12 DEF ProcessDies, Return
  <2> QED BY <2>1, <1>5, Constants, ParentStaysNamed DEF SameFrame
<1>13. ASSUME NEW args \in Args, CoalesceChain(args) PROVE ParentNamed'
  <2>1. UNCHANGED <<files, handle, vhd>> BY <1>13 DEF CoalesceChain
  <2>2. call'.op = "intoTail" => call'.pc \in CopyPcs
    <3>1. "block" \in CopyPcs BY DEF CopyPcs
    <3>2. call = NoCall /\ \/ call' = call
                           \/ StartsIntoTail(S)
                           \/ StartsSafely(S)
      BY <1>1, <1>2, <1>13, CoalesceChainStarts
    <3> QED BY <3>1, <3>2, Constants DEF StartsIntoTail, StartsSafely
  <2> QED BY <2>1, <2>2, <1>5, ParentStaysNamed DEF SameFrame
<1> QED
  BY <1>7, <1>8, <1>9, <1>10, <1>11, <1>12, <1>13
  DEF HistoryNext, HistoryOpen, HistoryWrite, HistoryFlush, HistoryStep

(* As long as its parent is named everywhere, the tail opens, and all its parents up to the head. *)
LEMMA NamedIsIntact ==
  ASSUME StructInv, ParentNamed
  PROVE  ChainIntact
<1>1. TypeInv BY DEF StructInv
<1>2. PICK S \in SUBSET (1 .. NumDiffs) : Struct(S) BY DEF StructInv
<1>3. PICK v : v = files[TailVhd] OBVIOUS
<1>4. /\ v.kind = "diff" /\ v.locs = TailLocs /\ v.parent \in 0 .. NoUuid
      /\ \A i \in Locators : TailLocs[i] = v.parent
  BY <1>1, <1>3, Fields DEF ParentNamed, TailLocs
<1>5. 1 \in Locators /\ NoName \notin 0 .. NoUuid /\ \A p \in S : p <= p
  <2>1. \A p \in S : p \in Nat BY <1>2, NamesAreNumbers
  <2> QED BY <2>1, NamesAreNumbers
<1>6. v.parent \in S BY <1>2, <1>4, <1>5 DEF Struct, TailInv
<1>7. Leads(v.parent) BY <1>4, <1>5, <1>6 DEF Leads
<1>8. OpenParentVHD(v) = v.parent /\ CanOpen(v) BY <1>2, <1>4, <1>7, TailParent DEF Struct
<1>9. Complete(ParentsOf(v)) BY <1>2, <1>4, <1>6, <1>8, ContentsOfPath DEF Struct
<1> QED BY <1>3, <1>8, <1>9 DEF ChainIntact

(* At first all that names the parent of the tail says the same. *)
LEMMA InitNamed ==
  ASSUME Init
  PROVE  ParentNamed
<1>1. TypeInv BY InitStruct DEF StructInv
<1>2. call.op = "none" /\ ~handle BY Constants DEF Init
<1>3. PICK bits \in [0 .. NumDiffs - 1 -> SUBSET Sectors] :
        files = [f \in Names |->
                    CASE f < HeadVhd ->
                           Diff(f, {SectorToBlockNumber(s) : s \in bits[f]}, bits[f])
                      [] f = HeadVhd -> HeadFile
                      [] OTHER -> NoFile]
  BY DEF Init
<1>4. TailVhd \in Names /\ TailVhd < HeadVhd BY NamesAreNumbers
<1>5. \E present, own : files[TailVhd] = Diff(TailVhd, present, own)
  <2>0. PICK f : f = TailVhd OBVIOUS
  <2>1. PICK P, B : P = {SectorToBlockNumber(s) : s \in bits[f]} /\ B = bits[f] OBVIOUS
  <2>2. files[f] = Diff(f, P, B)
    <3>1. f \in Names /\ f < HeadVhd /\ f \in Nat /\ f \in 0 .. NumDiffs - 1
      BY <1>4, <2>0, NamesAreNumbers
    <3> HIDE <1>1, <1>2, <2>0
    <3> QED BY <1>3, <2>1, <3>1
  <2> QED BY <2>0, <2>2
<1> QED BY <1>2, <1>5 DEF ParentNamed, TailLocs, Diff

(* Only a call that coalesces into the tail, and only when it has come to writing the locators *)
(* and the header, puts the chain at risk (CoalesceHistory.OnlyChangingParentBreaks).           *)
THEOREM OnlyLinksAreAtRisk == HistorySpec => []OnlyChangingParentBreaks
<1>1. HistoryInit => SafeInv BY InitNamed DEF HistoryInit, SafeInv
<1>2. StructInv /\ SafeInv /\ [HistoryNext]_historyVars => SafeInv'
  <2>1. ASSUME UNCHANGED historyVars PROVE SafeInv' <=> SafeInv
    BY <2>1 DEF SafeInv, ParentNamed, TailLocs, historyVars, vars
  <2> QED BY <2>1, SafeStep
<1>3. StructInv /\ SafeInv => OnlyChangingParentBreaks
  BY NamedIsIntact DEF SafeInv, OnlyChangingParentBreaks
<1>4. HistorySpec => []StructInv BY HistoryRefines, ChainIsWhole, PTL
<1> QED BY <1>1, <1>2, <1>3, <1>4, PTL DEF HistorySpec
-----------------------------------------------------------------------------
(***************************************************************************)
(* The content of the disk                                                 *)
(***************************************************************************)

NotPure == \A f \in Objects : "PURE" \notin vhd[f].flags

\* What is on file of the caches of f.
CacheInv(f) ==
    /\ ~vhd[f].open => vhd[f].dirty = {}
    /\ vhd[f].open =>
        /\ files[f].kind # "head" /\ files[f].present \subseteq vhd[f].present
        /\ \A s \in Sectors : SectorToBlockNumber(s) \in vhd[f].present =>
             /\ s \in files[f].bits => s \in vhd[f].bits
             /\ s \in vhd[f].bits /\ SectorToBlockNumber(s) \notin vhd[f].dirty => s \in files[f].bits

\* The sectors that f has itself.
Cached(f) == IF vhd[f].open THEN Bitmap(View(f)) ELSE Bitmap(files[f])

\* All that object f has is in the file.
OnFile(f) == \A s \in Sectors : s \in Cached(f) <=> s \in Bitmap(files[f])

\* The tail has a parent, if it is opened now or if it has been.
Linked ==
    /\ files[TailVhd].kind = "diff"
    /\ \/ Leads(files[TailVhd].parent)
       \/ handle /\ Leads(vhd[TailVhd].parent)

\* Every way to the parents shows the same values, base, which with those of the tail are
\* those of the disk.
Held(S, base) ==
    /\ \A i \in Locators, s \in Sectors \ Bitmap(files[TailVhd]) :
          TailLocs[i] # NoName => Below(S, TailLocs[i], s) = base[s]
    /\ \A s \in Sectors \ Bitmap(files[TailVhd]) : base[s] \in recent[s]
    /\ \A s \in Cached(TailVhd) : files[TailVhd].data[s] \in recent[s]
    /\ handle => \A s \in Sectors :
          content[s] = IF s \in Cached(TailVhd) THEN files[TailVhd].data[s] ELSE base[s]

ContentInv(S, base) == call.op # "none" \/ Linked => Held(S, base)

\* The first of the parents that are coalesced.
Lower == IF call.to = Tmp THEN files[Tmp].uuid ELSE vhd[TailVhd].parent

\* Is sector s in one of the files that are coalesced?
Wanted(S, s) == \E f \in S : Lower <= f /\ f < call.parent /\ s \in Bitmap(files[f])

\* Has its block been looked at?
Visited(s) ==
    \/ call.pc = "detach" \/ SectorToBlockNumber(s) < call.block
    \/ call.pc # "block" /\ SectorToBlockNumber(s) = call.block

\* The new parent is the one after the len files that are coalesced.
LengthInv(S) == Ahead(S, Lower, call.len, call.parent)

\* What has been copied.
CopyInv(S) ==
    /\ call.pc \in {"create", "generate"} => call.block = 0
    /\ call.pc \in {"create", "generate", "block", "flushBits", "detach"} => call.todo = {}
    /\ call.pc \in CopyPcs =>
         /\ LengthInv(S)
         /\ \A s \in Sectors : Visited(s) /\ Wanted(S, s) => s \in Cached(call.to) \cup call.todo
    /\ call.pc \in {"append", "copy"} => call.todo \subseteq SectorsOf(call.block) \ Cached(call.to)
    /\ call.pc = "append" => call.block \notin vhd[call.to].present

\* When the parent is changed, all that was copied is on file.
LinkedInv(S, base) ==
    /\ call.op = "intoTail" /\ call.pc \in LinkPcs =>
         /\ OnFile(TailVhd)
         /\ \A s \in Sectors \ Bitmap(files[TailVhd]) : Below(S, call.parent, s) = base[s]
    /\ call.op = "safely" /\ call.pc \in LinkPcs \cup {"flushTmp", "closeTail", "rename"} =>
         /\ OnFile(Tmp)
         /\ \A s \in Sectors : Wanted(S, s) => s \in Bitmap(files[Tmp])
    /\ call.op = "safely" /\ call.pc \in TmpPcs \cup {"closeTail", "rename"} =>
         \A s \in Cached(Tmp) : files[Tmp].data[s] = Below(S, files[Tmp].uuid, s)

Content(S, base) ==
    /\ content \in [Sectors -> Data] /\ recent \in [Sectors -> SUBSET Data]
    /\ NotPure /\ \A f \in Objects : CacheInv(f)
    /\ ContentInv(S, base) /\ CopyInv(S) /\ LinkedInv(S, base)
(***************************************************************************)
(* What a file has, and its object                                         *)
(***************************************************************************)

(* There is a sector. *)
LEMMA FirstSector == 0 \in Sectors
<1>1. PICK n, m : n = NumBlocks /\ m = SectorsPerBlock OBVIOUS
<1>2. n \in Nat \ {0} /\ m \in Nat \ {0} BY <1>1, ChainAssumption
<1>3. n * m \in Nat /\ n * m > 0 BY <1>2
<1>4. 0 \in 0 .. n * m - 1 BY <1>3
<1> QED BY <1>1, <1>4 DEF Sectors

(* The sectors of a file, and of its object. *)
LEMMA OwnIs ==
  TypeInv => \A f \in Objects, s \in Sectors :
    /\ s \in Bitmap(files[f]) <=>
         files[f].kind = "head" \/ (s \in files[f].bits /\ SectorToBlockNumber(s) \in files[f].present)
    /\ s \in Cached(f) <=>
         IF vhd[f].open
         THEN files[f].kind = "head" \/ (s \in vhd[f].bits /\ SectorToBlockNumber(s) \in vhd[f].present)
         ELSE s \in Bitmap(files[f])
    /\ Bitmap(files[f]) \subseteq Sectors /\ Cached(f) \subseteq Sectors
<1> SUFFICES ASSUME TypeInv, NEW f \in Objects, NEW s \in Sectors
             PROVE  /\ s \in Bitmap(files[f]) <=> files[f].kind = "head"
                         \/ (s \in files[f].bits /\ SectorToBlockNumber(s) \in files[f].present)
                    /\ s \in Cached(f) <=>
                         IF vhd[f].open
                         THEN files[f].kind = "head"
                              \/ (s \in vhd[f].bits /\ SectorToBlockNumber(s) \in vhd[f].present)
                         ELSE s \in Bitmap(files[f])
                    /\ Bitmap(files[f]) \subseteq Sectors /\ Cached(f) \subseteq Sectors
  OBVIOUS
<1>1. /\ View(f).kind = files[f].kind /\ View(f).present = vhd[f].present
      /\ View(f).bits = vhd[f].bits
  BY ViewFields
<1>2. vhd[f].bits \subseteq Sectors /\ files[f].bits \subseteq Sectors BY Fields
<1>3. Bitmap(files[f]) \subseteq Sectors /\ Bitmap(View(f)) \subseteq Sectors
  BY <1>1, <1>2 DEF Bitmap
<1>4. s \in Bitmap(files[f]) <=> files[f].kind = "head"
        \/ (s \in files[f].bits /\ SectorToBlockNumber(s) \in files[f].present)
  BY DEF Bitmap
<1>5. s \in Bitmap(View(f)) <=> files[f].kind = "head"
        \/ (s \in vhd[f].bits /\ SectorToBlockNumber(s) \in vhd[f].present)
  BY <1>1 DEF Bitmap
<1> QED BY <1>3, <1>4, <1>5 DEF Cached

LEMMA OwnIsNext ==
  (TypeInv => \A f \in Objects, s \in Sectors :
    /\ s \in Bitmap(files[f]) <=>
         files[f].kind = "head" \/ (s \in files[f].bits /\ SectorToBlockNumber(s) \in files[f].present)
    /\ s \in Cached(f) <=>
         IF vhd[f].open
         THEN files[f].kind = "head" \/ (s \in vhd[f].bits /\ SectorToBlockNumber(s) \in vhd[f].present)
         ELSE s \in Bitmap(files[f])
    /\ Bitmap(files[f]) \subseteq Sectors /\ Cached(f) \subseteq Sectors)'
BY OwnIs, PTL

\* A step keeps what object f has, and adds the sectors of X.
Gains(f, X) ==
    /\ CacheInv(f)'
    /\ \A s \in Sectors :
         /\ s \in Bitmap(files[f]) => s \in Bitmap(files'[f])
         /\ s \in Cached(f)' <=> s \in Cached(f) \/ s \in X
         /\ s \in Cached(f) => files'[f].data[s] = files[f].data[s]

(* A file has no more than its object. *)
LEMMA FileInCache ==
  ASSUME TypeInv, NEW f \in Objects, CacheInv(f), NEW s \in Sectors, s \in Bitmap(files[f])
  PROVE  s \in Cached(f)
<1>1. SectorToBlockNumber(s) \in Blocks BY BlockOfSector
<1> QED BY <1>1, OwnIs DEF CacheInv

(* An object that is left alone. *)
LEMMA LeftAlone ==
  ASSUME TypeInv, TypeInv', NEW f \in Objects, CacheInv(f),
         vhd'[f].open = vhd[f].open, vhd'[f].present = vhd[f].present, vhd'[f].bits = vhd[f].bits,
         vhd'[f].dirty = vhd[f].dirty, files[f].kind = "head" <=> files'[f].kind = "head",
         files'[f].present = files[f].present,
         files'[f].bits = files[f].bits, files'[f].data = files[f].data
  PROVE  Gains(f, {}) /\ (OnFile(f) => OnFile(f)')
<1>1. CacheInv(f)' BY DEF CacheInv
<1>2. ASSUME NEW s \in Sectors
      PROVE  /\ s \in Bitmap(files[f]) <=> s \in Bitmap(files'[f])
             /\ s \in Cached(f)' <=> s \in Cached(f)
  <2>1. /\ s \in Bitmap(files[f]) <=> files[f].kind = "head"
             \/ (s \in files[f].bits /\ SectorToBlockNumber(s) \in files[f].present)
        /\ s \in Bitmap(files'[f]) <=> files'[f].kind = "head"
             \/ (s \in files'[f].bits /\ SectorToBlockNumber(s) \in files'[f].present)
    BY OwnIs, OwnIsNext
  <2>2. s \in Bitmap(files[f]) <=> s \in Bitmap(files'[f]) BY <2>1
  <2>3. /\ s \in Cached(f) <=> IF vhd[f].open THEN files[f].kind = "head"
             \/ (s \in vhd[f].bits /\ SectorToBlockNumber(s) \in vhd[f].present)
             ELSE s \in Bitmap(files[f])
        /\ s \in Cached(f)' <=> IF vhd'[f].open THEN files'[f].kind = "head"
             \/ (s \in vhd'[f].bits /\ SectorToBlockNumber(s) \in vhd'[f].present)
             ELSE s \in Bitmap(files'[f])
    BY OwnIs, OwnIsNext
  <2> QED BY <2>2, <2>3
<1>3. OnFile(f) => OnFile(f)' BY <1>2 DEF OnFile
<1> QED BY <1>1, <1>2, <1>3 DEF Gains

\* A step drops the object of f, and with it what was not yet in the file.
Sheds(f) ==
    /\ CacheInv(f)'
    /\ \A s \in Sectors :
         /\ s \in Bitmap(files[f]) => s \in Bitmap(files'[f])
         /\ s \in Cached(f)' => s \in Cached(f) /\ files'[f].data[s] = files[f].data[s]

(* A flush, complete or not. *)
LEMMA FlushGains ==
  ASSUME TypeInv, TypeInv', NEW f \in Objects, CacheInv(f), vhd[f].open,
         NEW D \in SUBSET vhd[f].dirty, NEW table \in {vhd[f].present, files[f].present},
         WroteBack(f, D, table), Cleaned(f, D)
  PROVE  /\ Gains(f, {})
         /\ D = vhd[f].dirty /\ table = vhd[f].present => OnFile(f)'
<1>1. /\ files'[f].kind = files[f].kind /\ files'[f].data = files[f].data
      /\ files'[f].present = table
      /\ \A s \in Sectors : s \in files'[f].bits <=>
            IF SectorToBlockNumber(s) \in D THEN s \in vhd[f].bits ELSE s \in files[f].bits
  BY DEF WroteBack, SameFrame
<1>2. /\ vhd'[f].open /\ vhd'[f].present = vhd[f].present /\ vhd'[f].bits = vhd[f].bits
      /\ vhd'[f].dirty = vhd[f].dirty \ D
  BY DEF Cleaned
<1>3. /\ files[f].kind # "head" /\ files[f].present \subseteq vhd[f].present
      /\ \A s \in Sectors : SectorToBlockNumber(s) \in vhd[f].present =>
           /\ s \in files[f].bits => s \in vhd[f].bits
           /\ s \in vhd[f].bits /\ SectorToBlockNumber(s) \notin vhd[f].dirty => s \in files[f].bits
      /\ vhd[f].dirty \subseteq vhd[f].present
  BY Fields DEF CacheInv
<1>4. CacheInv(f)'
  BY <1>1, <1>2, <1>3 DEF CacheInv
<1>5. ASSUME NEW s \in Sectors
      PROVE  /\ s \in Bitmap(files[f]) => s \in Bitmap(files'[f])
             /\ s \in Cached(f)' <=> s \in Cached(f)
             /\ D = vhd[f].dirty /\ table = vhd[f].present =>
                  (s \in Cached(f)' <=> s \in Bitmap(files'[f]))
  <2>1. /\ s \in Bitmap(files[f]) <=>
             s \in files[f].bits /\ SectorToBlockNumber(s) \in files[f].present
        /\ s \in Bitmap(files'[f]) <=>
             s \in files'[f].bits /\ SectorToBlockNumber(s) \in table
    BY <1>1, <1>3, OwnIs, OwnIsNext
  <2>2. /\ s \in Cached(f) <=> s \in vhd[f].bits /\ SectorToBlockNumber(s) \in vhd[f].present
        /\ s \in Cached(f)' <=> s \in vhd[f].bits /\ SectorToBlockNumber(s) \in vhd[f].present
    BY <1>1, <1>2, <1>3, OwnIs, OwnIsNext
  <2> QED BY <2>1, <2>2, <1>1, <1>3
<1> QED BY <1>1, <1>4, <1>5 DEF Gains, OnFile

(* The same when the object is gone afterwards. *)
LEMMA ClosingSheds ==
  ASSUME TypeInv, TypeInv', NEW f \in Objects, CacheInv(f), vhd[f].open,
         NEW D \in SUBSET vhd[f].dirty, NEW table \in {vhd[f].present, files[f].present},
         WroteBack(f, D, table), ~vhd'[f].open, vhd'[f].dirty = {}
  PROVE  /\ Sheds(f) /\ OnFile(f)'
         /\ D = vhd[f].dirty /\ table = vhd[f].present => Gains(f, {})
<1>1. /\ files'[f].kind = files[f].kind /\ files'[f].data = files[f].data
      /\ files'[f].present = table
      /\ \A s \in Sectors : s \in files'[f].bits <=>
            IF SectorToBlockNumber(s) \in D THEN s \in vhd[f].bits ELSE s \in files[f].bits
  BY DEF WroteBack, SameFrame
<1>3. /\ files[f].kind # "head" /\ files[f].present \subseteq vhd[f].present
      /\ \A s \in Sectors : SectorToBlockNumber(s) \in vhd[f].present =>
           /\ s \in files[f].bits => s \in vhd[f].bits
           /\ s \in vhd[f].bits /\ SectorToBlockNumber(s) \notin vhd[f].dirty => s \in files[f].bits
  BY DEF CacheInv
<1>4. CacheInv(f)'
  BY DEF CacheInv
<1>5. ASSUME NEW s \in Sectors
      PROVE  /\ s \in Bitmap(files[f]) => s \in Bitmap(files'[f])
             /\ s \in Cached(f)' <=> s \in Bitmap(files'[f])
             /\ s \in Bitmap(files'[f]) => s \in Cached(f)
             /\ D = vhd[f].dirty /\ table = vhd[f].present =>
                  (s \in Cached(f)' <=> s \in Cached(f))
  <2>1. /\ s \in Bitmap(files[f]) <=>
             s \in files[f].bits /\ SectorToBlockNumber(s) \in files[f].present
        /\ s \in Bitmap(files'[f]) <=>
             s \in files'[f].bits /\ SectorToBlockNumber(s) \in table
    BY <1>1, <1>3, OwnIs, OwnIsNext
  <2>2. /\ s \in Cached(f) <=> s \in vhd[f].bits /\ SectorToBlockNumber(s) \in vhd[f].present
        /\ s \in Cached(f)' <=> s \in Bitmap(files'[f])
    BY <1>1, <1>3, OwnIs, OwnIsNext
  <2> QED BY <2>1, <2>2, <1>1, <1>3
<1> QED BY <1>1, <1>4, <1>5 DEF Gains, Sheds, OnFile

(* What was lost of an object that was open or not, when its process dies. *)
LEMMA DeathSheds ==
  ASSUME TypeInv, TypeInv', NEW f \in Objects, CacheInv(f), ~vhd'[f].open, vhd'[f].dirty = {},
         files'[f].kind = files[f].kind, files'[f].data = files[f].data,
         files'[f].present = files[f].present, files'[f].bits = files[f].bits
  PROVE  Sheds(f) /\ OnFile(f)'
<1>1. CacheInv(f)' BY DEF CacheInv
<1>2. ASSUME NEW s \in Sectors
      PROVE  /\ s \in Bitmap(files[f]) <=> s \in Bitmap(files'[f])
             /\ s \in Cached(f)' <=> s \in Bitmap(files'[f])
  <2>1. /\ s \in Bitmap(files[f]) <=> files[f].kind = "head"
             \/ (s \in files[f].bits /\ SectorToBlockNumber(s) \in files[f].present)
        /\ s \in Bitmap(files'[f]) <=> files'[f].kind = "head"
             \/ (s \in files'[f].bits /\ SectorToBlockNumber(s) \in files'[f].present)
    BY OwnIs, OwnIsNext
  <2>2. s \in Cached(f)' <=> s \in Bitmap(files'[f]) BY OwnIsNext
  <2> QED BY <2>1, <2>2
<1>3. \A s \in Sectors : s \in Bitmap(files[f]) => s \in Cached(f) BY FileInCache
<1> QED BY <1>1, <1>2, <1>3 DEF Sheds, OnFile
-----------------------------------------------------------------------------
(***************************************************************************)
(* What the tail holds stays                                               *)
(***************************************************************************)

\* The new values of the tail are those that were read before.
ValuesKept(X, base) == \A s \in X : s \in Cached(TailVhd) \/ files'[TailVhd].data[s] = base[s]

(* The frame of Held: the tail gains sectors with their values, or loses its object. *)
LEMMA HeldKept ==
  ASSUME TypeInv, TypeInv', NEW S, NEW T, NEW base, Held(S, base), CacheInv(TailVhd),
         UNCHANGED <<content, recent>>, handle' => handle,
         NEW X, \/ Gains(TailVhd, X) /\ ValuesKept(X, base)
                \/ Sheds(TailVhd) /\ ~handle',
         \A q : \A i \in Locators, s \in Sectors :
            s \notin Bitmap(files'[TailVhd]) /\ TailLocs'[i] = q /\ q # NoName =>
              Below(T, q, s)' = base[s]
  PROVE  Held(T, base)'
<1>0. TailVhd \in Objects /\ 0 \in Sectors BY Fields, FirstSector
<1>1. ASSUME NEW s \in Sectors
      PROVE  /\ s \in Bitmap(files[TailVhd]) => s \in Bitmap(files'[TailVhd])
             /\ s \in Cached(TailVhd)' =>
                  IF s \in Cached(TailVhd) THEN files'[TailVhd].data[s] = files[TailVhd].data[s]
                  ELSE files'[TailVhd].data[s] = base[s]
             /\ handle' /\ s \in Cached(TailVhd) => s \in Cached(TailVhd)'
             /\ s \in Bitmap(files[TailVhd]) => s \in Cached(TailVhd)
  BY <1>0, FileInCache DEF Gains, Sheds, ValuesKept
<1>2. /\ \A s \in Sectors \ Bitmap(files[TailVhd]) : base[s] \in recent[s]
      /\ \A s \in Cached(TailVhd) : files[TailVhd].data[s] \in recent[s]
      /\ handle => \A s \in Sectors :
            content[s] = IF s \in Cached(TailVhd) THEN files[TailVhd].data[s] ELSE base[s]
  BY DEF Held
<1>3. \A i \in Locators, s \in Sectors \ Bitmap(files'[TailVhd]) :
        TailLocs'[i] # NoName => Below(T, TailLocs[i], s)' = base[s]
  <2> SUFFICES ASSUME NEW i \in Locators, NEW s \in Sectors \ Bitmap(files'[TailVhd]),
                      TailLocs'[i] # NoName
               PROVE  Below(T, TailLocs[i], s)' = base[s]
    OBVIOUS
  <2>1. PICK q : q = TailLocs'[i] OBVIOUS
  <2>2. s \in Sectors /\ s \notin Bitmap(files'[TailVhd]) /\ q # NoName BY <2>1
  <2>3. Below(T, q, s)' = base[s] BY <2>1, <2>2
  <2> QED BY <2>1, <2>3 DEF Below
<1>4. \A s \in Sectors \ Bitmap(files'[TailVhd]) : base[s] \in recent[s] BY <1>1, <1>2
<1>5. Cached(TailVhd)' \subseteq Sectors
  <2>1. \A f \in Objects, s \in Sectors : Cached(f)' \subseteq Sectors BY OwnIsNext
  <2> QED BY <2>1, <1>0
<1>6. \A s \in Cached(TailVhd)' : files'[TailVhd].data[s] \in recent[s]
  <2> SUFFICES ASSUME NEW s \in Cached(TailVhd)' PROVE files'[TailVhd].data[s] \in recent[s]
    OBVIOUS
  <2>1. s \in Sectors BY <1>5
  <2>2. CASE s \in Cached(TailVhd) BY <2>1, <2>2, <1>1, <1>2
  <2>3. CASE s \notin Cached(TailVhd) BY <2>1, <2>3, <1>1, <1>2
  <2> QED BY <2>2, <2>3
<1>7. handle' => \A s \in Sectors :
        content[s] = IF s \in Cached(TailVhd)' THEN files'[TailVhd].data[s] ELSE base[s]
  BY <1>1, <1>2
<1> QED BY <1>3, <1>4, <1>6, <1>7 DEF Held

(* As long as the chain and the locators stay. *)
LEMMA HeldFramed ==
  ASSUME TypeInv, TypeInv', NEW S, Path(S), TailInv(S), NEW base, Held(S, base), CacheInv(TailVhd),
         UNCHANGED <<content, recent>>, handle' => handle,
         NEW X, \/ Gains(TailVhd, X) /\ ValuesKept(X, base)
                \/ Sheds(TailVhd) /\ ~handle',
         TailLocs' = TailLocs, \A f \in S : files'[f] = files[f]
  PROVE  Held(S, base)'
<1>1. \A q \in S, s \in Sectors : Below(S, q, s)' = Below(S, q, s) BY PathFrame
<1>2. ASSUME NEW q, NEW i \in Locators, NEW s \in Sectors,
             s \notin Bitmap(files'[TailVhd]), TailLocs'[i] = q, q # NoName
      PROVE  Below(S, q, s)' = base[s]
  <2>1. q \in S BY <1>2 DEF TailInv
  <2>2. s \notin Bitmap(files[TailVhd]) BY <1>2, Fields DEF Gains, Sheds
  <2>3. Below(S, q, s) = base[s] BY <1>2, <2>1, <2>2 DEF Held
  <2> QED BY <2>1, <2>3, <1>1
<1> QED BY <1>2, HeldKept
(* With no copy under way, nothing is said of one. *)
LEMMA NothingToCopy ==
  ASSUME NEW S, NEW base, call'.pc \in {"none", "giveUp", "reopen", "unlink"}
  PROVE  CopyInv(S)' /\ LinkedInv(S, base)'
BY DEF CopyInv, LinkedInv, CopyPcs, LinkPcs, TmpPcs

(* The same for the content as a whole. *)
LEMMA ContentFramed ==
  ASSUME TypeInv, TypeInv', NEW S, Struct(S), NEW base, Content(S, base),
         UNCHANGED <<content, recent>>, handle' => handle, ChainKept,
         NEW X, \/ Gains(TailVhd, X) /\ ValuesKept(X, base)
                \/ Sheds(TailVhd) /\ ~handle',
         call'.op # "none" \/ Linked' => call.op # "none" \/ Linked
  PROVE  ContentInv(S, base)'
<1> SUFFICES ASSUME call'.op # "none" \/ Linked' PROVE Held(S, base)' BY DEF ContentInv
<1>1. Held(S, base) BY DEF Content, ContentInv
<1>2. CacheInv(TailVhd) BY Fields DEF Content
<1>3. TailLocs' = TailLocs /\ \A f \in S : files'[f] = files[f]
  BY DEF ChainKept, Struct, Path, TailLocs
<1> QED BY <1>1, <1>2, <1>3, HeldFramed DEF Struct

(* Nothing that the tail is linked by changes. *)
LEMMA LinkedFramed ==
  ASSUME ChainKept, files'[TailVhd].parent = files[TailVhd].parent,
         handle' => handle /\ vhd'[TailVhd].parent = vhd[TailVhd].parent, Linked'
  PROVE  Linked
<1>1. TailLocs' = TailLocs /\ files'[TailVhd].kind = files[TailVhd].kind BY DEF ChainKept, TailLocs
<1>2. \A p : Leads(p)' <=> Leads(p) BY <1>1 DEF Leads
<1>3. PICK p, q : p = files'[TailVhd].parent /\ q = vhd'[TailVhd].parent OBVIOUS
<1>4. Leads(p)' \/ (handle' /\ Leads(q)') BY <1>3 DEF Linked, Leads
<1>5. Leads(p) \/ (handle' /\ Leads(q)) BY <1>2, <1>4
<1> QED BY <1>1, <1>3, <1>5 DEF Linked

(* Where nothing with the sector is in between, it reads the same. *)
LEMMA BelowSkips ==
  ASSUME NEW S, Path(S), NEW q \in S, NEW p \in S, q <= p, NEW s \in Sectors,
         \A f \in S : q <= f /\ f < p => s \notin Bitmap(files[f])
  PROVE  Below(S, p, s) = Below(S, q, s)
<1>0. S \in SUBSET (1 .. NumDiffs) /\ \A f \in S : f \in Nat
  <2>1. S \in SUBSET (1 .. NumDiffs) BY DEF Path
  <2> QED BY <2>1, NamesAreNumbers
<1>1. PICK g \in S : FirstWith(S, p, s, g) BY BelowFrom
<1>2. FirstWith(S, q, s, g)
  <2>1. g \in Nat /\ p \in Nat /\ q \in Nat BY <1>0
  <2>2. q <= g BY <2>1, <1>1 DEF FirstWith
  <2>3. ASSUME NEW h \in S, q <= h, h < g PROVE s \notin Bitmap(files[h])
    <3>1. h \in Nat BY <1>0
    <3>2. h < p \/ p <= h BY <3>1, <2>1
    <3> QED BY <3>2, <2>3, <1>1 DEF FirstWith
  <2> QED BY <2>2, <2>3, <1>1 DEF FirstWith
<1> QED BY <1>0, <1>1, <1>2, BelowIs
-----------------------------------------------------------------------------
(***************************************************************************)
(* Copying keeps the content                                               *)
(***************************************************************************)

(* The file that is written to reads what it lacks from the first of the files coalesced. *)
LEMMA CopySource ==
  ASSUME TypeInv, NEW S, Struct(S), call.op # "none", call.pc \in CopyPcs
  PROVE  /\ Lower \in S /\ OpenParentVHD(View(call.to)) = Lower
         /\ call.to \in Objects /\ vhd[call.to].open /\ call.parent \in S /\ Lower < call.parent
         /\ call.to = TailVhd => Leads(Lower)
         /\ call.to = Tmp => Lower = files[Tmp].uuid
         /\ call.op = "intoTail" <=> call.to = TailVhd
         /\ call.op = "safely" <=> call.to = Tmp
<1>0. TailVhd \in Objects /\ Tmp \in Objects /\ TailVhd # Tmp BY Fields
<1>1. /\ call.pc \in TmpPcs /\ call.pc \in SafelyPcs /\ call.pc \notin LinkPcs /\ call.pc # "none"
      /\ call.pc \notin {"rename", "reopen"}
  BY DEF CopyPcs, LinkPcs, TmpPcs, SafelyPcs
<1>2. /\ call.op \in {"intoTail", "safely"} /\ (call.op = "intoTail" <=> call.to = TailVhd)
      /\ (call.op = "safely" <=> call.to = Tmp)
  BY <1>1, StepOfCall
<1>3. /\ files[TailVhd].kind = "diff" /\ vhd[TailVhd].parent \in S /\ Leads(vhd[TailVhd].parent)
  BY <1>1, <1>2 DEF Struct, CallInv
<1>4. CASE call.op = "intoTail"
  <2>1. PICK v : v = View(TailVhd) OBVIOUS
  <2>2. v.locs = TailLocs /\ v.kind = "diff" /\ v.parent = vhd[TailVhd].parent /\ v.parent \in 0 .. NoUuid
    BY <2>1, <1>0, <1>3, ViewFields, Fields DEF TailLocs
  <2>3. OpenParentVHD(v) = v.parent BY <2>2, <1>3, TailParent DEF Struct
  <2>4. Lower = vhd[TailVhd].parent BY <1>0, <1>2, <1>4 DEF Lower
  <2>5. vhd[TailVhd].open /\ call.parent \in S /\ vhd[TailVhd].parent < call.parent
    BY <1>4 DEF Struct, IntoTailInv
  <2> QED BY <2>1, <2>2, <2>3, <2>4, <2>5, <1>0, <1>2, <1>3, <1>4
<1>5. CASE call.op = "safely"
  <2>1. PICK v, r : v = View(Tmp) /\ r = files[Tmp].uuid OBVIOUS
  <2>2. /\ files[Tmp].kind = "diff" /\ r \in S /\ call.parent \in S /\ r < call.parent
        /\ vhd[Tmp].parent = r /\ \A i \in Locators : files[Tmp].locs[i] = r
    BY <2>1, <1>1, <1>5 DEF Struct, SafelyInv
  <2>3. v.kind = "diff" /\ v.parent = r /\ \A i \in Locators : v.locs[i] = r
    BY <2>1, <2>2, <1>0, ViewFields
  <2>4. /\ CanOpen(files[r]) /\ r \in Names /\ r # NoName /\ files[r].kind # "none"
        /\ files[r].uuid = r
    BY <2>2, PathOpens DEF Struct
  <2>5. DoFindParentFile(v) = r BY <2>3, <2>4, SameLocators
  <2>6. OpenParentVHD(v) = r BY <2>3, <2>4, <2>5 DEF OpenParentVHD
  <2>7. Lower = r BY <2>1, <1>2, <1>5 DEF Lower
  <2>8. vhd[Tmp].open BY <1>1, <1>5 DEF Struct, CallInv
  <2> QED BY <2>1, <2>2, <2>6, <2>7, <2>8, <1>0, <1>2, <1>5
<1> QED BY <1>2, <1>4, <1>5

(* What is copied of a sector is what the files above hold. *)
LEMMA CopyReads ==
  ASSUME TypeInv, NEW S, Struct(S), call.op # "none", call.pc \in CopyPcs, NotPure,
         NEW s \in Sectors
  PROVE  ReadFrom(ParentsOf(View(call.to)), s, Pure(call.to)) = Below(S, Lower, s)
<1>1. PICK v, f : v = View(call.to) /\ f = call.to OBVIOUS
<1>2. OpenParentVHD(v) = Lower /\ Lower \in S /\ f \in Objects BY <1>1, CopySource
<1>3. OpenParentVHD(v) \in S BY <1>2
<1>4. ReadFrom(ParentsOf(v), s, FALSE) = Below(S, OpenParentVHD(v), s)
  BY <1>3, ReadFromPath DEF Struct
<1>5. "PURE" \notin vhd[f].flags BY <1>2 DEF NotPure
<1>6. Pure(f) = FALSE BY <1>5 DEF Pure
<1> QED BY <1>1, <1>2, <1>4, <1>6, Zenon

(* For the tail, that is the base. *)
LEMMA CopyBase ==
  ASSUME TypeInv, NEW S, Struct(S), call.op = "intoTail", call.pc \in CopyPcs,
         NEW base, Content(S, base), NEW s \in Sectors, s \notin Bitmap(files[TailVhd])
  PROVE  Below(S, Lower, s) = base[s]
<1>1. Lower \in S /\ Leads(Lower) BY CopySource
<1>2. Lower # NoName
  <2>1. S \subseteq 1 .. NumDiffs BY DEF Struct, Path
  <2> QED BY <2>1, <1>1, NamesAreNumbers
<1>3. PICK i \in Locators : TailLocs[i] = Lower BY <1>1 DEF Leads
<1>4. Held(S, base) BY DEF Content, ContentInv
<1>5. Below(S, TailLocs[i], s) = base[s] BY <1>2, <1>3, <1>4 DEF Held
<1> QED BY <1>3, <1>5

(* Nothing of it changes while sectors are copied. *)
LEMMA SameWork ==
  ASSUME TypeInv, NEW S, Struct(S), call.op # "none", call.pc \in CopyPcs, Kept(call.to),
         ObjectKept(call.to), SameCall
  PROVE  /\ Lower' = Lower /\ (LengthInv(S) => LengthInv(S)')
         /\ \A s \in Sectors : Wanted(S, s)' <=> Wanted(S, s)
         /\ \A f \in S : files'[f] = files[f]
         /\ \A q \in S, s \in Sectors : Below(S, q, s)' = Below(S, q, s)
<1>0. call.to \in Objects /\ TailVhd \in Objects /\ Tmp \in Objects /\ Tmp \in Names /\ TailVhd # Tmp
  BY CopySource, Fields
<1>1. files'[Tmp].uuid = files[Tmp].uuid BY <1>0 DEF Kept, SameFrame
<1>2. vhd'[TailVhd].parent = vhd[TailVhd].parent BY <1>0 DEF ObjectKept
<1>3. call'.to = call.to /\ call'.parent = call.parent /\ call'.len = call.len BY DEF SameCall
<1>4. Lower' = Lower BY <1>1, <1>2, <1>3 DEF Lower
<1>5. ChainKept BY <1>0, KeptChain
<1>6. \A f \in S : files'[f] = files[f] BY <1>5 DEF ChainKept, Struct, Path
<1>7. \A s \in Sectors : Wanted(S, s)' <=> Wanted(S, s)
  BY <1>3, <1>4, <1>6 DEF Wanted
<1>8. LengthInv(S) => LengthInv(S)'
  BY <1>3, <1>4 DEF LengthInv, Ahead, Enumerates, Follows
<1>9. \A q \in S, s \in Sectors : Below(S, q, s)' = Below(S, q, s) BY <1>6, PathFrame DEF Struct
<1> QED BY <1>4, <1>6, <1>7, <1>8, <1>9

(* What is to be copied of a block. *)
LEMMA ToCopyIs ==
  ASSUME TypeInv, NEW S, Struct(S), call.op # "none", call.pc \in CopyPcs, LengthInv(S),
         NEW todo, todo = ToCopy(View(call.to), call.block, call.len)
  PROVE  /\ todo \subseteq Sectors
         /\ \A s \in Sectors : s \in todo <=> /\ SectorToBlockNumber(s) = call.block
                                              /\ s \notin Cached(call.to) /\ Wanted(S, s)
<1>0. S \in SUBSET (1 .. NumDiffs) /\ \A f \in S : f \in Nat
  <2>1. S \in SUBSET (1 .. NumDiffs) BY DEF Struct, Path
  <2> QED BY <2>1, NamesAreNumbers
<1>1. PICK v, P, q, n, p : /\ v = View(call.to) /\ P = ParentsOf(v) /\ q = Lower /\ n = call.len
                           /\ p = call.parent
  OBVIOUS
<1>2. OpenParentVHD(v) = q /\ q \in S /\ vhd[call.to].open BY <1>1, CopySource
<1>3. Enumerates(P, S, q)
  <2>1. OpenParentVHD(v) \in S BY <1>2
  <2>2. Enumerates(ParentsOf(v), S, OpenParentVHD(v)) BY <2>1, ParentsEnumerate DEF Struct
  <2> QED BY <2>2, <1>1, <1>2
<1>4. PICK Q : Enumerates(Q, S, q) /\ n + 1 \in 1 .. Len(Q) /\ Q[n + 1] = p
  BY <1>1 DEF LengthInv, Ahead
<1>5. Q = P BY <1>0, <1>3, <1>4, EnumerationUnique
<1>6. n + 1 \in 1 .. Len(P) /\ P[n + 1] = p /\ n \in Nat BY <1>1, <1>4, <1>5, CallFields
<1>7. /\ Len(P) \in Nat \ {0} /\ \A i \in 1 .. Len(P) : P[i] \in S /\ P[i] \in 1 .. NumDiffs /\ q <= P[i]
      /\ \A i, j \in 1 .. Len(P) : i < j <=> P[i] < P[j]
  BY <1>0, <1>3, EnumerationShape
<1>8. todo = {s \in SectorsOf(call.block) \ Bitmap(v) :
                \E i \in 1 .. n : i <= Len(P) /\ s \in Bitmap(files[P[i]])}
  BY <1>1 DEF ToCopy
<1>9. Cached(call.to) = Bitmap(v) BY <1>1, <1>2 DEF Cached
<1>10. todo \subseteq Sectors BY <1>8 DEF SectorsOf
<1>11. ASSUME NEW s \in Sectors
       PROVE  (\E i \in 1 .. n : i <= Len(P) /\ s \in Bitmap(files[P[i]])) <=> Wanted(S, s)
  <2>1. ASSUME NEW i \in 1 .. n, i <= Len(P), s \in Bitmap(files[P[i]]) PROVE Wanted(S, s)
    <3>1. i \in 1 .. Len(P) /\ i < n + 1 BY <2>1, <1>6, <1>7
    <3>2. P[i] \in S /\ q <= P[i] /\ P[i] < p BY <3>1, <1>6, <1>7
    <3> QED BY <3>2, <2>1, <1>1 DEF Wanted
  <2>2. ASSUME NEW f \in S, q <= f, f < p, s \in Bitmap(files[f])
        PROVE  \E i \in 1 .. n : i <= Len(P) /\ s \in Bitmap(files[P[i]])
    <3>1. PICK i \in 1 .. Len(P) : P[i] = f BY <2>2, <1>0, <1>3, EnumerationMeets
    <3>2. i < n + 1 BY <3>1, <2>2, <1>6, <1>7
    <3>3. i \in 1 .. n /\ i <= Len(P) BY <3>1, <3>2, <1>6, <1>7
    <3> QED BY <3>1, <3>3, <2>2
  <2> QED BY <2>1, <2>2, <1>1 DEF Wanted
<1>12. ASSUME NEW s \in Sectors
       PROVE  s \in todo <=> /\ SectorToBlockNumber(s) = call.block
                             /\ s \notin Cached(call.to) /\ Wanted(S, s)
  <2>1. s \in todo <=> /\ SectorToBlockNumber(s) = call.block /\ s \notin Bitmap(v)
                       /\ \E i \in 1 .. n : i <= Len(P) /\ s \in Bitmap(files[P[i]])
    BY <1>8 DEF SectorsOf
  <2> QED BY <2>1, <1>9, <1>11
<1> QED BY <1>10, <1>12

\* What a step of copying does to what is said of the copy, when the file gains the sectors of X.
CopyGoesOn(S, X) ==
    /\ SameCall
    /\ \/ /\ call'.pc \in CopyPcs
          /\ call'.pc \in {"block", "flushBits", "detach"} => call'.todo = {}
          /\ \A s \in Sectors : Visited(s)' /\ Wanted(S, s) =>
                s \in Cached(call.to) \/ s \in X \/ s \in call'.todo
          /\ call'.pc \in {"append", "copy"} => \A s \in call'.todo :
                s \in SectorsOf(call'.block) /\ s \notin Cached(call.to) /\ s \notin X
          /\ call'.pc = "append" => call'.block \notin vhd'[call.to].present
       \/ call.pc = "detach" /\ call'.pc = "locators" /\ OnFile(call.to)'

(* All sectors have been looked at when the parent is detached. *)
LEMMA AllCopied ==
  ASSUME TypeInv, NEW S, CopyInv(S), call.pc = "detach", NEW s \in Sectors, Wanted(S, s)
  PROVE  s \in Cached(call.to)
BY DEF CopyInv, CopyPcs, Visited

(* A step of copying, for all that is said of the content. *)
LEMMA CopyingContent ==
  ASSUME TypeInv, TypeInv', NEW S, Struct(S), NEW base, Content(S, base),
         call.op # "none", call.pc \in CopyPcs, CopyOutcome, UNCHANGED <<content, recent>>,
         NEW X, Gains(call.to, X),
         \A s \in X : s \in Cached(call.to) \/ files'[call.to].data[s] = Below(S, Lower, s),
         X \subseteq Sectors,
         (call' = NoCall \/ GoesOn("giveUp")) \/ CopyGoesOn(S, X)
  PROVE  Content(S, base)'
<1>1. PICK f : f = call.to OBVIOUS
<1>2. /\ f \in Objects /\ f \in Names /\ Lower \in S /\ vhd[f].open /\ call.parent \in S
      /\ Lower < call.parent /\ Kept(f) /\ ObjectKept(f) /\ handle' = handle
      /\ call.op = "intoTail" <=> f = TailVhd
      /\ call.op = "safely" <=> f = Tmp
      /\ f = Tmp => Lower = files[Tmp].uuid
  BY <1>1, CopySource, Fields DEF CopyOutcome
<1>3. /\ Gains(f, X)
      /\ \A s \in X : s \in Cached(f) \/ files'[f].data[s] = Below(S, Lower, s)
  BY <1>1
<1>4. NotPure'
  <2>1. \A g \in Objects : vhd'[g].flags = vhd[g].flags BY <1>2 DEF ObjectKept
  <2> QED BY <2>1 DEF Content, NotPure
<1>5. ASSUME NEW g \in Objects, g # f PROVE Gains(g, {})
  <2>1. files'[g] = files[g] /\ vhd'[g] = vhd[g] BY <1>2, <1>5, Fields DEF Kept, ObjectKept
  <2>2. CacheInv(g) BY DEF Content
  <2> QED BY <2>1, <2>2, LeftAlone
<1>6. \A g \in Objects : CacheInv(g)' BY <1>3, <1>5 DEF Gains
<1>7. ContentInv(S, base)'
  <2>1. ChainKept BY <1>2, KeptChain
  <2>2. CASE f = TailVhd
    <3>1. ASSUME NEW s \in X PROVE s \in Cached(TailVhd) \/ files'[TailVhd].data[s] = base[s]
      <4>1. CASE s \in Cached(TailVhd) BY <4>1
      <4>2. CASE s \notin Cached(TailVhd)
        <5>1. s \notin Bitmap(files[TailVhd]) BY <4>2, Fields, FileInCache DEF Content
        <5>2. Below(S, Lower, s) = base[s] BY <5>1, <2>2, <1>2, CopyBase
        <5> QED BY <5>2, <4>2, <2>2, <1>3
      <4> QED BY <4>1, <4>2
    <3>2. ValuesKept(X, base) BY <3>1 DEF ValuesKept
    <3> QED BY <3>2, <2>1, <2>2, <1>2, <1>3, ContentFramed
  <2>3. CASE f # TailVhd
    <3>1. Gains(TailVhd, {}) BY <2>3, <1>5, Fields
    <3>2. ValuesKept({}, base) BY DEF ValuesKept
    <3> QED BY <3>1, <3>2, <2>1, <1>2, ContentFramed
  <2> QED BY <2>2, <2>3
<1>8. CASE call' = NoCall \/ GoesOn("giveUp")
  <2>1. call'.pc \in {"none", "giveUp"} BY <1>8, Constants DEF GoesOn
  <2>2. CopyInv(S)' /\ LinkedInv(S, base)' BY <2>1, NothingToCopy
  <2> QED BY <2>2, <1>4, <1>6, <1>7 DEF Content
<1>9. CASE CopyGoesOn(S, X)
  <2>0. SameCall BY <1>9 DEF CopyGoesOn
  <2>1. /\ Lower' = Lower /\ (LengthInv(S) => LengthInv(S)')
        /\ \A s \in Sectors : Wanted(S, s)' <=> Wanted(S, s)
        /\ \A q \in S, s \in Sectors : Below(S, q, s)' = Below(S, q, s)
    BY <2>0, <1>1, <1>2, SameWork
  <2>2. call'.to = f /\ call'.op = call.op /\ call'.parent = call.parent BY <2>0, <1>1 DEF SameCall
  <2>3. LengthInv(S)' BY <2>1 DEF Content, CopyInv
  <2>4. \A s \in Sectors : s \in Cached(f)' <=> s \in Cached(f) \/ s \in X BY <1>3 DEF Gains
  <2>5. call.op = "safely" => \A s \in Cached(Tmp)' : files'[Tmp].data[s] = Below(S, files[Tmp].uuid, s)'
    <3> SUFFICES ASSUME call.op = "safely", NEW s \in Cached(Tmp)'
                 PROVE  files'[Tmp].data[s] = Below(S, files[Tmp].uuid, s)'
      OBVIOUS
    <3>1. s \in Sectors
      <4>1. \A g \in Objects, t \in Sectors : Cached(g)' \subseteq Sectors BY OwnIsNext
      <4>2. Cached(Tmp)' \subseteq Sectors BY <4>1, FirstSector, Fields
      <4> QED BY <4>2
    <3>2. PICK r : r = files[Tmp].uuid OBVIOUS
    <3>3. /\ f = Tmp /\ r = Lower /\ files'[Tmp].uuid = r
      BY <3>2, <1>2 DEF Kept, SameFrame
    <3>4. Below(S, r, s)' = Below(S, r, s) BY <3>1, <3>3, <2>1, <1>2
    <3>5. s \in Cached(Tmp) => files[Tmp].data[s] = Below(S, r, s)
      <4>1. call.pc \in TmpPcs BY <1>2 DEF TmpPcs
      <4> QED BY <4>1, <3>2 DEF Content, LinkedInv
    <3>6. s \in Cached(Tmp) => files'[Tmp].data[s] = files[Tmp].data[s] BY <3>1, <3>3, <1>3 DEF Gains
    <3>7. s \notin Cached(Tmp) => files'[Tmp].data[s] = Below(S, r, s)
      BY <3>1, <3>3, <2>4, <1>3
    <3>8. files'[Tmp].data[s] = Below(S, r, s)' BY <3>4, <3>5, <3>6, <3>7
    <3> QED BY <3>3, <3>8 DEF Below
  <2>6. CASE call'.pc \in CopyPcs /\ call'.pc # "locators"
    <3>1. /\ call'.pc \in {"block", "flushBits", "detach"} => call'.todo = {}
          /\ \A s \in Sectors : Visited(s)' /\ Wanted(S, s) =>
                s \in Cached(f) \/ s \in X \/ s \in call'.todo
          /\ call'.pc \in {"append", "copy"} => \A s \in call'.todo :
                s \in SectorsOf(call'.block) /\ s \notin Cached(f) /\ s \notin X
          /\ call'.pc = "append" => call'.block \notin vhd'[f].present
      BY <2>6, <1>1, <1>9 DEF CopyGoesOn
    <3>2. \A s \in Sectors : Visited(s)' /\ Wanted(S, s)' => s \in Cached(f)' \cup call'.todo
      BY <3>1, <2>1, <2>4
    <3>3. call'.pc \in {"append", "copy"} => call'.todo \subseteq SectorsOf(call'.block) \ Cached(f)'
      <4>1. \A s \in call'.todo : s \in Sectors BY DEF TypeInv, Calls
      <4> QED BY <4>1, <3>1, <2>4
    <3>4. call'.pc \notin {"create", "generate"} BY <2>6 DEF CopyPcs
    <3>5. CopyInv(S)'
      <4>1. Cached(call.to)' = Cached(f)' BY <2>2 DEF Cached, View
      <4> QED BY <4>1, <3>1, <3>2, <3>3, <3>4, <2>2, <2>3 DEF CopyInv
    <3>6. call'.pc \notin LinkPcs /\ call'.pc \notin LinkPcs \cup {"flushTmp", "closeTail", "rename"}
      BY <2>6 DEF LinkPcs, CopyPcs
    <3>7. LinkedInv(S, base)' BY <3>6, <2>2, <2>5 DEF LinkedInv
    <3> QED BY <3>5, <3>7, <1>4, <1>6, <1>7 DEF Content
  <2>7. CASE call'.pc = "locators"
    <3>0. "locators" \notin CopyPcs /\ "locators" \in LinkPcs BY DEF CopyPcs, LinkPcs
    <3>1. call.pc = "detach" /\ OnFile(f)'
      <4>1. call.pc = "detach" /\ OnFile(call.to)' BY <3>0, <2>7, <1>9 DEF CopyGoesOn
      <4> QED BY <4>1, <2>2 DEF OnFile, Cached, View
    <3>2. \A s \in Sectors : Wanted(S, s) => s \in Bitmap(files'[f])
      <4> SUFFICES ASSUME NEW s \in Sectors, Wanted(S, s) PROVE s \in Bitmap(files'[f]) OBVIOUS
      <4>1. s \in Cached(f) BY <3>1, <1>1, AllCopied DEF Content
      <4>2. s \in Cached(f)' BY <4>1, <2>4
      <4> QED BY <4>2, <3>1 DEF OnFile
    <3>3. CopyInv(S)' BY <3>0, <2>7 DEF CopyInv
    <3>4. call.op = "intoTail" =>
            \A s \in Sectors \ Bitmap(files'[TailVhd]) : Below(S, call.parent, s)' = base[s]
      <4> SUFFICES ASSUME call.op = "intoTail", NEW s \in Sectors, s \notin Bitmap(files'[TailVhd])
                   PROVE  Below(S, call.parent, s)' = base[s]
        OBVIOUS
      <4>1. f = TailVhd BY <1>2
      <4>2. s \notin Bitmap(files[TailVhd]) BY <4>1, <1>3 DEF Gains
      <4>3. ~Wanted(S, s) BY <4>1, <3>2
      <4>4. PICK p, q : p = call.parent /\ q = Lower OBVIOUS
      <4>5. p \in S /\ q \in S /\ q <= p
        <5>1. \A g \in S : g \in Nat BY NamesAreNumbers DEF Struct, Path
        <5> QED BY <5>1, <4>4, <1>2
      <4>6. \A g \in S : q <= g /\ g < p => s \notin Bitmap(files[g]) BY <4>3, <4>4 DEF Wanted
      <4>7. Below(S, p, s) = Below(S, q, s) BY <4>5, <4>6, BelowSkips DEF Struct
      <4>8. Below(S, q, s) = base[s] BY <4>1, <4>2, <4>4, <1>2, CopyBase
      <4>9. Below(S, p, s)' = base[s] BY <4>5, <4>7, <4>8, <2>1
      <4> QED BY <4>4, <4>9, <2>2 DEF Below
    <3>5. LinkedInv(S, base)'
      <4>1. call'.op = "intoTail" => OnFile(TailVhd)' BY <3>1, <2>2, <1>2
      <4>2. call'.op = "safely" => OnFile(Tmp)' /\ \A s \in Sectors : Wanted(S, s)' => s \in Bitmap(files'[Tmp])
        BY <3>1, <3>2, <2>1, <2>2, <1>2
      <4> QED BY <4>1, <4>2, <3>4, <2>2, <2>5 DEF LinkedInv
    <3> QED BY <3>3, <3>5, <1>4, <1>6, <1>7 DEF Content
  <2>8. call'.pc \in CopyPcs \/ call'.pc = "locators" BY <1>9 DEF CopyGoesOn
  <2> QED BY <2>6, <2>7, <2>8
<1> QED BY <1>8, <1>9

(* Nothing more is known to be copied when the next block is looked at. *)
LEMMA NextBlockGoesOn ==
  ASSUME TypeInv, NEW S, CopyInv(S), call.pc \in CopyPcs, NextBlock, call.todo = {}, NEW X,
         \A s \in Sectors : Visited(s) /\ Wanted(S, s) => s \in Cached(call.to),
         \A s \in Sectors : SectorToBlockNumber(s) = call.block /\ Wanted(S, s) =>
            s \in Cached(call.to)
  PROVE  CopyGoesOn(S, X)
<1>1. /\ SameCall /\ call'.todo = {}
      /\ \/ call.block = NumBlocks - 1 /\ call'.pc = "detach" /\ call'.block = call.block
         \/ call.block < NumBlocks - 1 /\ call'.pc = "block" /\ call'.block = call.block + 1
  BY NextBlocks
<1>2. call'.pc \in CopyPcs /\ call'.pc \notin {"append", "copy"} BY <1>1 DEF CopyPcs
<1>3. ASSUME NEW s \in Sectors, Visited(s)' PROVE Visited(s) \/ SectorToBlockNumber(s) = call.block
  <2>1. PICK b : b = SectorToBlockNumber(s) OBVIOUS
  <2>2. b \in Blocks /\ b <= NumBlocks - 1 /\ call.block \in Blocks BY <2>1, BlockOfSector, CallFields
  <2>3. b \in Nat /\ call.block \in Nat BY <2>2 DEF Blocks
  <2>4. CASE call.block = NumBlocks - 1
    <3>1. b < call.block \/ b = call.block BY <2>2, <2>3, <2>4
    <3> QED BY <3>1, <2>1 DEF Visited
  <2>5. CASE call'.pc = "block" /\ call'.block = call.block + 1
    <3>1. b < call.block + 1 BY <1>3, <2>1, <2>5 DEF Visited
    <3>2. b < call.block \/ b = call.block BY <3>1, <2>3
    <3> QED BY <3>2, <2>1 DEF Visited
  <2> QED BY <2>4, <2>5, <1>1
<1> QED BY <1>1, <1>2, <1>3 DEF CopyGoesOn

(* Looking for what is to be copied of a block. *)
LEMMA CoalesceBlockContent ==
  ASSUME TypeInv, TypeInv', NEW S, Struct(S), NEW base, Content(S, base), call.op # "none",
         CoalesceBlock, UNCHANGED <<content, recent>>
  PROVE  Content(S, base)'
<1>1. call.pc = "block" /\ call.pc \in CopyPcs BY DEF CoalesceBlock, CopyPcs
<1>2. CoalescesBlock /\ CopyOutcome BY CoalesceBlockDoes
<1>3. PICK f, todo : f = call.to /\ todo = ToCopy(View(call.to), call.block, call.len) OBVIOUS
<1>4. f \in Objects /\ vhd[f].open /\ CacheInv(f) BY <1>1, <1>3, CopySource DEF Content
<1>5. PICK D \in SUBSET (vhd[f].dirty \ {call.block}) :
        /\ WroteBack(f, D, files[f].present) /\ Cleaned(f, D)
        /\ \/ call' = NoCall
           \/ GoesOn("giveUp")
           \/ todo = {} /\ NextBlock
           \/ /\ todo # {} /\ SameCall /\ call'.block = call.block /\ call'.todo = todo
              /\ call'.pc = IF call.block \in vhd[f].present THEN "copy" ELSE "append"
  BY <1>2, <1>3 DEF CoalescesBlock
<1>6. Gains(f, {}) /\ vhd'[f].present = vhd[f].present
  <2>1. D \in SUBSET vhd[f].dirty OBVIOUS
  <2>2. Gains(f, {}) BY <2>1, <1>4, <1>5, FlushGains
  <2> QED BY <2>2, <1>5 DEF Cleaned
<1>7. /\ CopyInv(S) /\ LengthInv(S) /\ call.todo = {}
      /\ \A s \in Sectors : Visited(s) /\ Wanted(S, s) => s \in Cached(f)
  BY <1>1, <1>3 DEF Content, CopyInv
<1>8. /\ todo \subseteq Sectors
      /\ \A s \in Sectors : s \in todo <=> /\ SectorToBlockNumber(s) = call.block
                                           /\ s \notin Cached(f) /\ Wanted(S, s)
  BY <1>1, <1>3, <1>7, ToCopyIs
<1>9. CASE todo = {} /\ NextBlock
  <2>1. CopyGoesOn(S, {}) BY <1>1, <1>3, <1>7, <1>8, <1>9, NextBlockGoesOn
  <2> QED BY <2>1, <1>1, <1>2, <1>3, <1>6, CopyingContent
<1>10. CASE /\ todo # {} /\ SameCall /\ call'.block = call.block /\ call'.todo = todo
            /\ call'.pc = IF call.block \in vhd[f].present THEN "copy" ELSE "append"
  <2>1. call'.pc \in CopyPcs /\ call'.pc \notin {"block", "flushBits", "detach"} BY <1>10 DEF CopyPcs
  <2>2. \A s \in Sectors : Visited(s)' => Visited(s) \/ SectorToBlockNumber(s) = call.block
    BY <2>1, <1>10 DEF Visited
  <2>3. \A s \in Sectors : Visited(s)' /\ Wanted(S, s) => s \in Cached(f) \/ s \in todo
    BY <2>2, <1>7, <1>8
  <2>4. \A s \in todo : s \in SectorsOf(call'.block) /\ s \notin Cached(f)
    BY <1>8, <1>10 DEF SectorsOf
  <2>5. call'.pc = "append" => call'.block \notin vhd'[f].present BY <1>6, <1>10
  <2>6. CopyGoesOn(S, {}) BY <2>1, <2>3, <2>4, <2>5, <1>3, <1>10 DEF CopyGoesOn
  <2> QED BY <2>6, <1>1, <1>2, <1>3, <1>6, CopyingContent
<1>11. CASE call' = NoCall \/ GoesOn("giveUp")
  BY <1>1, <1>2, <1>3, <1>6, <1>11, CopyingContent
<1> QED BY <1>5, <1>9, <1>10, <1>11

(* Flushing the bitmaps of a block. *)
LEMMA FlushBitsContent ==
  ASSUME TypeInv, TypeInv', NEW S, Struct(S), NEW base, Content(S, base), call.op # "none",
         FlushBits, UNCHANGED <<content, recent>>
  PROVE  Content(S, base)'
<1>1. call.pc = "flushBits" /\ call.pc \in CopyPcs BY DEF FlushBits, CopyPcs
<1>2. PICK f : f = call.to OBVIOUS
<1>3. f \in Objects /\ vhd[f].open /\ CacheInv(f) BY <1>1, <1>2, CopySource DEF Content
<1>4. /\ CopyOutcome
      /\ \/ Flushed(f) /\ NextBlock
         \/ FlushedPartly(f) /\ (call' = NoCall \/ GoesOn("giveUp"))
  BY <1>2, FlushBitsDoes
<1>5. Gains(f, {}) BY <1>3, <1>4, FlushGains DEF Flushed, FlushedPartly
<1>6. /\ CopyInv(S) /\ call.todo = {}
      /\ \A s \in Sectors : Visited(s) /\ Wanted(S, s) => s \in Cached(f)
  BY <1>1, <1>2 DEF Content, CopyInv
<1>7. CASE NextBlock
  <2>1. \A s \in Sectors : SectorToBlockNumber(s) = call.block => Visited(s) BY <1>1 DEF Visited
  <2>2. CopyGoesOn(S, {}) BY <2>1, <1>1, <1>2, <1>6, <1>7, NextBlockGoesOn
  <2> QED BY <2>2, <1>1, <1>2, <1>4, <1>5, CopyingContent
<1>8. CASE call' = NoCall \/ GoesOn("giveUp")
  BY <1>1, <1>2, <1>4, <1>5, <1>8, CopyingContent
<1> QED BY <1>4, <1>7, <1>8

(* All is flushed before the parent is changed. *)
LEMMA DetachContent ==
  ASSUME TypeInv, TypeInv', NEW S, Struct(S), NEW base, Content(S, base), call.op # "none",
         Detach, UNCHANGED <<content, recent>>
  PROVE  Content(S, base)'
<1>1. call.pc = "detach" /\ call.pc \in CopyPcs BY DEF Detach, CopyPcs
<1>2. PICK f : f = call.to OBVIOUS
<1>3. f \in Objects /\ vhd[f].open /\ CacheInv(f) BY <1>1, <1>2, CopySource DEF Content
<1>4. /\ CopyOutcome
      /\ \/ Flushed(f) /\ SameCall /\ call'.pc = "locators"
         \/ (Flushed(f) \/ FlushedPartly(f)) /\ (call' = NoCall \/ GoesOn("giveUp"))
  BY <1>2, DetachDoes
<1>5. Gains(f, {}) BY <1>3, <1>4, FlushGains DEF Flushed, FlushedPartly
<1>6. CASE Flushed(f) /\ SameCall /\ call'.pc = "locators"
  <2>1. OnFile(f)' BY <1>3, <1>6, FlushGains DEF Flushed
  <2>2. call'.to = f BY <1>2, <1>6 DEF SameCall
  <2>3. OnFile(call.to)' BY <2>1, <2>2 DEF OnFile, Cached, View
  <2>4. CopyGoesOn(S, {}) BY <2>3, <1>1, <1>6 DEF CopyGoesOn
  <2> QED BY <2>4, <1>1, <1>2, <1>4, <1>5, CopyingContent
<1>7. CASE call' = NoCall \/ GoesOn("giveUp")
  BY <1>1, <1>2, <1>4, <1>5, <1>7, CopyingContent
<1> QED BY <1>4, <1>6, <1>7
(* A new block holds nothing yet, and nothing that was there is lost. *)
LEMMA AppendGains ==
  ASSUME TypeInv, TypeInv', NEW f \in Objects, CacheInv(f), vhd[f].open,
         call.block \notin vhd[f].present,
         NEW table \in {vhd[f].present \cup {call.block}, files[f].present}, Appended(f, table)
  PROVE  Gains(f, {})
<1>1. PICK b : b = call.block OBVIOUS
<1>2. /\ files'[f].kind = files[f].kind /\ files'[f].present = table
      /\ \A s \in Sectors : s \in files'[f].bits <=>
            s \in files[f].bits /\ SectorToBlockNumber(s) # b
      /\ \A s \in Sectors : SectorToBlockNumber(s) # b => files'[f].data[s] = files[f].data[s]
      /\ vhd'[f].open = vhd[f].open
      /\ vhd'[f].present = vhd[f].present \cup {b} /\ vhd'[f].dirty = vhd[f].dirty
      /\ \A s \in Sectors : s \in vhd'[f].bits <=> s \in vhd[f].bits /\ SectorToBlockNumber(s) # b
  BY <1>1 DEF Appended, Kept, ObjectKept, SameFrame, SectorsOf
<1>3. /\ files[f].kind # "head" /\ files[f].present \subseteq vhd[f].present
      /\ \A s \in Sectors : SectorToBlockNumber(s) \in vhd[f].present =>
           /\ s \in files[f].bits => s \in vhd[f].bits
           /\ s \in vhd[f].bits /\ SectorToBlockNumber(s) \notin vhd[f].dirty => s \in files[f].bits
      /\ b \notin vhd[f].present
      /\ table \in {vhd[f].present \cup {b}, files[f].present}
  BY <1>1 DEF CacheInv
<1>4. CacheInv(f)' BY <1>2, <1>3 DEF CacheInv
<1>5. ASSUME NEW s \in Sectors
      PROVE  /\ s \in Bitmap(files[f]) => s \in Bitmap(files'[f])
             /\ s \in Cached(f)' <=> s \in Cached(f)
             /\ s \in Cached(f) => files'[f].data[s] = files[f].data[s]
  <2>1. /\ s \in Bitmap(files[f]) <=>
             s \in files[f].bits /\ SectorToBlockNumber(s) \in files[f].present
        /\ s \in Bitmap(files'[f]) <=>
             s \in files'[f].bits /\ SectorToBlockNumber(s) \in files'[f].present
    BY <1>2, <1>3, OwnIs, OwnIsNext
  <2>2. /\ s \in Cached(f) <=> s \in vhd[f].bits /\ SectorToBlockNumber(s) \in vhd[f].present
        /\ s \in Cached(f)' <=> s \in vhd'[f].bits /\ SectorToBlockNumber(s) \in vhd'[f].present
    BY <1>2, <1>3, OwnIs, OwnIsNext
  <2> QED BY <2>1, <2>2, <1>2, <1>3
<1> QED BY <1>4, <1>5 DEF Gains

(* Appending a block. *)
LEMMA AppendBlockContent ==
  ASSUME TypeInv, TypeInv', NEW S, Struct(S), NEW base, Content(S, base), call.op # "none",
         AppendBlock, UNCHANGED <<content, recent>>
  PROVE  Content(S, base)'
<1>1. call.pc = "append" /\ call.pc \in CopyPcs BY DEF AppendBlock, CopyPcs
<1>2. PICK f : f = call.to OBVIOUS
<1>3. f \in Objects /\ vhd[f].open /\ CacheInv(f) BY <1>1, <1>2, CopySource DEF Content
<1>4. /\ call.block \notin vhd[f].present /\ call.todo \subseteq SectorsOf(call.block) \ Cached(f)
      /\ \A s \in Sectors : Visited(s) /\ Wanted(S, s) => s \in Cached(f) \cup call.todo
  BY <1>1, <1>2 DEF Content, CopyInv
<1>5. /\ CopyOutcome
      /\ \/ Appended(f, vhd[f].present \cup {call.block}) /\ GoesOn("copy")
         \/ /\ \/ UNCHANGED <<files, vhd>>
               \/ \E table \in {vhd[f].present \cup {call.block}, files[f].present} : Appended(f, table)
            /\ call' = NoCall \/ GoesOn("giveUp")
  BY <1>2, AppendBlockDoes DEF AppendsBlock
<1>6. Gains(f, {})
  <2>1. UNCHANGED <<files, vhd>> => Gains(f, {}) BY <1>3, LeftAlone
  <2> QED BY <2>1, <1>3, <1>4, <1>5, AppendGains
<1>7. CASE GoesOn("copy")
  <2>1. /\ SameCall /\ call'.pc = "copy" /\ call'.block = call.block /\ call'.todo = call.todo
    BY <1>7 DEF GoesOn
  <2>2. \A s \in Sectors : Visited(s)' => Visited(s) BY <2>1, <1>1 DEF Visited
  <2>3. CopyGoesOn(S, {}) BY <2>1, <2>2, <1>2, <1>4 DEF CopyGoesOn, CopyPcs
  <2> QED BY <2>3, <1>1, <1>2, <1>5, <1>6, CopyingContent
<1>8. CASE call' = NoCall \/ GoesOn("giveUp")
  BY <1>1, <1>2, <1>5, <1>6, <1>8, CopyingContent
<1> QED BY <1>5, <1>7, <1>8

(* Data that is copied does not change what the file has, and its bits add the sectors. *)
LEMMA CopyGains ==
  ASSUME TypeInv, TypeInv', NEW f \in Objects, CacheInv(f), vhd[f].open, NEW W \in SUBSET Sectors,
         DataCopied(f, W), \A s \in W : s \notin Cached(f),
         NEW X, NEW b \in vhd[f].present,
         \/ vhd'[f] = vhd[f] /\ X = {}
         \/ /\ vhd'[f].open = vhd[f].open /\ vhd'[f].present = vhd[f].present
            /\ vhd'[f].bits = vhd[f].bits \cup X /\ vhd'[f].dirty = vhd[f].dirty \cup {b}
            /\ X \subseteq SectorsOf(b)
  PROVE  Gains(f, X)
<1>1. /\ files'[f].kind = files[f].kind /\ files'[f].present = files[f].present
      /\ files'[f].bits = files[f].bits
      /\ \A s \in Sectors : s \notin W => files'[f].data[s] = files[f].data[s]
  BY DEF DataCopied, Kept, SameFrame
<1>2. /\ files[f].kind # "head" /\ files[f].present \subseteq vhd[f].present
      /\ \A s \in Sectors : SectorToBlockNumber(s) \in vhd[f].present =>
           /\ s \in files[f].bits => s \in vhd[f].bits
           /\ s \in vhd[f].bits /\ SectorToBlockNumber(s) \notin vhd[f].dirty => s \in files[f].bits
  BY DEF CacheInv
<1>3. /\ vhd'[f].open = vhd[f].open /\ vhd'[f].present = vhd[f].present
      /\ \A s \in Sectors : s \in vhd'[f].bits <=> s \in vhd[f].bits \/ s \in X
      /\ \A s \in X : SectorToBlockNumber(s) = b /\ b \in vhd'[f].dirty
      /\ vhd[f].dirty \subseteq vhd'[f].dirty
  BY DEF SectorsOf
<1>4. CacheInv(f)' BY <1>1, <1>2, <1>3 DEF CacheInv
<1>5. ASSUME NEW s \in Sectors
      PROVE  /\ s \in Bitmap(files[f]) => s \in Bitmap(files'[f])
             /\ s \in Cached(f)' <=> s \in Cached(f) \/ s \in X
  <2>1. /\ s \in Bitmap(files[f]) <=>
             s \in files[f].bits /\ SectorToBlockNumber(s) \in files[f].present
        /\ s \in Bitmap(files'[f]) <=>
             s \in files'[f].bits /\ SectorToBlockNumber(s) \in files'[f].present
    BY <1>1, <1>2, OwnIs, OwnIsNext
  <2>2. /\ s \in Cached(f) <=> s \in vhd[f].bits /\ SectorToBlockNumber(s) \in vhd[f].present
        /\ s \in Cached(f)' <=> s \in vhd'[f].bits /\ SectorToBlockNumber(s) \in vhd'[f].present
    BY <1>1, <1>2, <1>3, OwnIs, OwnIsNext
  <2> QED BY <2>1, <2>2, <1>1, <1>3
<1>6. \A s \in Sectors : s \in Cached(f) => files'[f].data[s] = files[f].data[s] BY <1>1
<1> QED BY <1>4, <1>5, <1>6 DEF Gains

(* Copying an extent. *)
LEMMA CopyExtentContent ==
  ASSUME TypeInv, TypeInv', NEW S, Struct(S), NEW base, Content(S, base), call.op # "none",
         CopyExtent, ~Misreads, UNCHANGED <<content, recent>>
  PROVE  Content(S, base)'
<1>1. call.pc = "copy" /\ call.pc \in CopyPcs BY DEF CopyExtent, CopyPcs
<1>2. PICK f, b, X : f = call.to /\ b = call.block /\ X = FirstExtent(call.todo) OBVIOUS
<1>3. f \in Objects /\ vhd[f].open /\ CacheInv(f) BY <1>1, <1>2, CopySource DEF Content
<1>4. /\ b \in vhd[f].present /\ call.todo \subseteq Sectors /\ X \subseteq call.todo
      /\ \A s \in call.todo : s \in SectorsOf(b) /\ s \notin Cached(f)
      /\ \A s \in Sectors : Visited(s) /\ Wanted(S, s) => s \in Cached(f) \cup call.todo
  <2>1. b \in vhd[f].present BY <1>1, <1>2 DEF TypeInv
  <2>2. X \subseteq call.todo /\ call.todo \subseteq Sectors BY <1>2, CallFields DEF FirstExtent
  <2> QED BY <2>1, <2>2, <1>1, <1>2 DEF Content, CopyInv
<1>5. /\ CopyOutcome
      /\ \/ /\ DataCopied(f, X) /\ DataRead(f, X)
            /\ vhd'[f].present = vhd[f].present /\ vhd'[f].bits = vhd[f].bits \cup X
            /\ vhd'[f].dirty = vhd[f].dirty \cup {b} /\ vhd'[f].open = vhd[f].open
            /\ SameCall /\ call'.block = call.block /\ call'.todo = call.todo \ X
            /\ call'.pc = IF X = call.todo THEN "flushBits" ELSE "copy"
         \/ /\ \E W \in SUBSET X : DataCopied(f, W)
            /\ UNCHANGED vhd /\ (call' = NoCall \/ GoesOn("giveUp"))
  BY <1>2, CopyExtentDoes DEF CopiesExtent, ObjectKept
<1>6. CASE /\ DataCopied(f, X) /\ DataRead(f, X)
           /\ vhd'[f].present = vhd[f].present /\ vhd'[f].bits = vhd[f].bits \cup X
           /\ vhd'[f].dirty = vhd[f].dirty \cup {b} /\ vhd'[f].open = vhd[f].open
           /\ SameCall /\ call'.block = call.block /\ call'.todo = call.todo \ X
           /\ call'.pc = IF X = call.todo THEN "flushBits" ELSE "copy"
  <2>1. X \in SUBSET Sectors /\ X \subseteq SectorsOf(b) /\ \A s \in X : s \notin Cached(f) BY <1>4
  <2>2. Gains(f, X) BY <2>1, <1>3, <1>4, <1>6, CopyGains
  <2>3. \A s \in X : files'[f].data[s] = Below(S, Lower, s)
    <3> SUFFICES ASSUME NEW s \in X PROVE files'[f].data[s] = Below(S, Lower, s) OBVIOUS
    <3>1. s \in Sectors BY <2>1
    <3>2. files'[f].data[s] = ReadFrom(ParentsOf(View(f)), s, Pure(f)) BY <1>6 DEF DataRead
    <3>3. ReadFrom(ParentsOf(View(f)), s, Pure(f)) = Below(S, Lower, s)
      BY <3>1, <1>1, <1>2, CopyReads DEF Content
    <3> QED BY <3>2, <3>3
  <2>4. \A s \in Sectors : Visited(s)' => Visited(s) BY <1>1, <1>6 DEF Visited
  <2>5. call'.pc \in {"copy", "flushBits"} /\ call'.pc \in CopyPcs /\ call'.pc # "append"
    BY <1>6 DEF CopyPcs
  <2>6. call'.pc = "flushBits" => call'.todo = {} BY <1>6
  <2>7. \A s \in Sectors : Visited(s)' /\ Wanted(S, s) => s \in Cached(f) \/ s \in X \/ s \in call'.todo
    BY <2>4, <1>4, <1>6
  <2>8. \A s \in call'.todo : s \in SectorsOf(call'.block) /\ s \notin Cached(f) /\ s \notin X
    BY <1>2, <1>4, <1>6
  <2>9. CopyGoesOn(S, X) BY <2>5, <2>6, <2>7, <2>8, <1>2, <1>6 DEF CopyGoesOn
  <2> QED BY <2>1, <2>2, <2>3, <2>9, <1>1, <1>2, <1>5, CopyingContent
<1>7. CASE /\ \E W \in SUBSET X : DataCopied(f, W)
           /\ UNCHANGED vhd /\ (call' = NoCall \/ GoesOn("giveUp"))
  <2>1. PICK W \in SUBSET X : DataCopied(f, W) BY <1>7
  <2>2. W \in SUBSET Sectors /\ \A s \in W : s \notin Cached(f) BY <1>4
  <2>3. Gains(f, {}) BY <2>1, <2>2, <1>3, <1>4, <1>7, CopyGains
  <2> QED BY <2>3, <1>1, <1>2, <1>5, <1>7, CopyingContent
<1> QED BY <1>5, <1>6, <1>7
-----------------------------------------------------------------------------
(***************************************************************************)
(* The temporary file keeps the content                                    *)
(***************************************************************************)

(* Nothing but the temporary file changes. *)
LEMMA TmpContent ==
  ASSUME TypeInv, TypeInv', NEW S, Struct(S), NEW base, Content(S, base), call.op # "none",
         UNCHANGED <<content, recent>>, handle' = handle,
         \A g \in Names \ {Tmp} : files'[g] = files[g], vhd'[TailVhd] = vhd[TailVhd],
         CacheInv(Tmp)', "PURE" \notin vhd'[Tmp].flags, CopyInv(S)', LinkedInv(S, base)'
  PROVE  Content(S, base)'
<1>0. Objects = {TailVhd, Tmp} /\ TailVhd \in Objects /\ TailVhd # Tmp /\ TailVhd \in Names
  BY Fields DEF Objects
<1>1. NotPure' BY <1>0 DEF Content, NotPure
<1>2. Gains(TailVhd, {})
  <2>1. CacheInv(TailVhd) /\ files'[TailVhd] = files[TailVhd] BY <1>0 DEF Content
  <2> QED BY <2>1, <1>0, LeftAlone
<1>3. \A f \in Objects : CacheInv(f)' BY <1>0, <1>2 DEF Gains
<1>4. ChainKept BY TmpChain
<1>5. ValuesKept({}, base) BY DEF ValuesKept
<1>6. ContentInv(S, base)' BY <1>2, <1>4, <1>5, ContentFramed
<1> QED BY <1>1, <1>3, <1>6 DEF Content

(* The process dies: what was not flushed of the tail is lost. *)
LEMMA DeathContent ==
  ASSUME TypeInv, TypeInv', NEW S, Struct(S), NEW base, Content(S, base),
         UNCHANGED <<content, recent>>, handle' = FALSE, vhd' = [g \in Objects |-> Closed],
         call' = NoCall, ChainKept, files'[TailVhd].parent = files[TailVhd].parent, Sheds(TailVhd)
  PROVE  Content(S, base)'
<1>1. \A g \in Objects : vhd'[g] = Closed OBVIOUS
<1>2. NotPure' BY <1>1, Constants DEF NotPure
<1>3. \A f \in Objects : CacheInv(f)' BY <1>1, Constants DEF CacheInv
<1>4. call'.op = "none" /\ call'.pc = "none" BY Constants
<1>5. CopyInv(S)' /\ LinkedInv(S, base)' BY <1>4, NothingToCopy
<1>6. Linked' => Linked BY LinkedFramed
<1>7. ContentInv(S, base)' BY <1>4, <1>6, ContentFramed
<1> QED BY <1>2, <1>3, <1>5, <1>7 DEF Content

(* Creating the temporary file. *)
LEMMA CreateTmpContent ==
  ASSUME TypeInv, TypeInv', NEW S, Struct(S), NEW base, Content(S, base), call.op # "none",
         CreateTmp, UNCHANGED <<content, recent>>
  PROVE  Content(S, base)'
<1>1. call.pc = "create" /\ handle' = handle /\ vhd' = vhd BY DEF CreateTmp
<1>2. call.op = "safely" BY <1>1, StepOfCall
<1>3. ~vhd[Tmp].open BY <1>1, <1>2 DEF Struct, CallInv, TmpPcs, CopyPcs, LinkPcs
<1>4. CacheInv(Tmp)' /\ "PURE" \notin vhd'[Tmp].flags
  BY <1>1, <1>3, Fields DEF Content, CacheInv, NotPure
<1>6. CASE TmpLeft /\ Return("error")
  <2>1. call'.pc = "none" BY <1>6, Constants DEF Return
  <2>2. CopyInv(S)' /\ LinkedInv(S, base)' BY <2>1, NothingToCopy
  <2> QED BY <2>2, <1>1, <1>4, <1>6, TmpContent DEF TmpLeft
<1>7. CASE files' = [files EXCEPT ![Tmp] = BadFile] /\ Goto("generate")
  <2>0. \A g \in Names \ {Tmp} : files'[g] = files[g] BY <1>7, Constants, TmpReplaced
  <2>1. GoesOn("generate")
    <3>1. "generate" \in SafelyPcs BY DEF SafelyPcs
    <3> QED BY <3>1, <1>7, Gotos
  <2>2. call'.pc = "generate" /\ call'.op = "safely" /\ call'.block = 0 /\ call'.todo = {}
    BY <2>1, <1>1, <1>2 DEF GoesOn, SameCall, Content, CopyInv
  <2>3. "generate" \notin TmpPcs /\ "generate" \notin CopyPcs /\ "generate" \notin LinkPcs
    BY DEF TmpPcs, CopyPcs, LinkPcs
  <2>4. CopyInv(S)' BY <2>2, <2>3 DEF CopyInv
  <2>5. LinkedInv(S, base)' BY <2>2, <2>3 DEF LinkedInv
  <2> QED BY <2>0, <2>4, <2>5, <1>1, <1>4, <1>7, TmpContent
<1> QED BY <1>6, <1>7, CreateTmpDoes

(* Generating the temporary file. *)
LEMMA GenerateTmpContent ==
  ASSUME TypeInv, TypeInv', NEW S, Struct(S), NEW base, Content(S, base), call.op # "none",
         GenerateTmp, UNCHANGED <<content, recent>>
  PROVE  Content(S, base)'
<1>0. Tmp \in Objects /\ TailVhd \in Objects /\ TailVhd # Tmp BY Fields
<1>1. call.pc = "generate" /\ handle' = handle BY GenerateTmpDoes
<1>2. call.op = "safely" BY <1>1, StepOfCall
<1>3. ~vhd[Tmp].open BY <1>1, <1>2 DEF Struct, CallInv, TmpPcs, CopyPcs, LinkPcs
<1>4. CASE TmpLeft /\ call' = NoCall /\ vhd' = vhd
  <2>1. \A g \in Names \ {Tmp} : files'[g] = files[g] BY <1>4 DEF TmpLeft
  <2>2. CacheInv(Tmp)' /\ "PURE" \notin vhd'[Tmp].flags
    BY <1>0, <1>3, <1>4 DEF Content, CacheInv, NotPure
  <2>3. call'.pc = "none" BY <1>4, Constants
  <2>4. CopyInv(S)' /\ LinkedInv(S, base)' BY <2>3, NothingToCopy
  <2> QED BY <2>1, <2>2, <2>4, <1>1, <1>4, TmpContent
<1>5. ASSUME NEW r \in S, Generates(S, r) PROVE Content(S, base)'
  <2>1. /\ \A g \in Names \ {Tmp} : files'[g] = files[g]
        /\ vhd'[TailVhd] = vhd[TailVhd] /\ "PURE" \notin vhd'[Tmp].flags
        /\ vhd'[Tmp].open /\ vhd'[Tmp].present = {} /\ vhd'[Tmp].bits = {}
        /\ files'[Tmp].kind = "diff" /\ files'[Tmp].uuid = r /\ files'[Tmp].present = {}
    BY <1>5 DEF Generates, EmptyTmp
  <2>2. CacheInv(Tmp)' BY <2>1 DEF CacheInv
  <2>3. CASE GoesOn("giveUp")
    <3>1. call'.pc = "giveUp" BY <2>3 DEF GoesOn
    <3>2. CopyInv(S)' /\ LinkedInv(S, base)' BY <3>1, NothingToCopy
    <3> QED BY <3>2, <2>1, <2>2, <1>1, TmpContent
  <2>4. CASE /\ call' \in Calls /\ call' = [call EXCEPT !.pc = "block", !.parent = call'.parent]
             /\ Ahead(S, r, call.len, call'.parent)
    <3>1. /\ call'.pc = "block" /\ call'.op = "safely" /\ call'.to = Tmp
          /\ call'.len = call.len /\ call'.block = call.block /\ call'.todo = call.todo
      <4>1. PICK p : p = call'.parent OBVIOUS
      <4>2. call' = [call EXCEPT !.pc = "block", !.parent = p] BY <4>1, <2>4
      <4>3. call.to = Tmp BY <1>1, StepOfCall
      <4> QED BY <4>2, <4>3, <1>2, CallFields DEF Calls
    <3>2. call.block = 0 /\ call.todo = {} BY <1>1 DEF Content, CopyInv
    <3>3. LengthInv(S)'
      <4>1. Lower' = r BY <2>1, <3>1 DEF Lower
      <4> QED BY <4>1, <3>1, <2>4 DEF LengthInv, Ahead, Enumerates, Follows
    <3>4. \A s \in Sectors : ~Visited(s)'
      <4> SUFFICES ASSUME NEW s \in Sectors PROVE ~Visited(s)' OBVIOUS
      <4>1. SectorToBlockNumber(s) \in Nat BY BlockOfSector DEF Blocks
      <4>2. ~(SectorToBlockNumber(s) < call'.block) BY <4>1, <3>1, <3>2
      <4> QED BY <4>2, <3>1 DEF Visited
    <3>5. CopyInv(S)' BY <3>1, <3>2, <3>3, <3>4 DEF CopyInv
    <3>6. \A s \in Cached(Tmp)' : FALSE
      <4>1. \A s \in Sectors : s \notin Cached(Tmp)' BY <1>0, <2>1, OwnIsNext
      <4>2. Cached(Tmp)' \subseteq Sectors
        <5>1. \A g \in Objects, t \in Sectors : Cached(g)' \subseteq Sectors BY OwnIsNext
        <5> QED BY <5>1, <1>0, FirstSector
      <4> QED BY <4>1, <4>2
    <3>7. LinkedInv(S, base)' BY <3>1, <3>6 DEF LinkedInv, LinkPcs
    <3> QED BY <3>5, <3>7, <2>1, <2>2, <1>1, TmpContent
  <2> QED BY <2>3, <2>4, <1>5 DEF Generates
<1> QED BY <1>4, <1>5, GenerateTmpDoes

(* Giving the temporary file up. *)
LEMMA GiveUpContent ==
  ASSUME TypeInv, TypeInv', NEW S, Struct(S), NEW base, Content(S, base), call.op # "none",
         GiveUp, UNCHANGED <<content, recent>>
  PROVE  Content(S, base)'
<1>0. TailVhd \in Objects /\ Tmp \in Objects /\ Tmp \in Names /\ TailVhd \in Names /\ TailVhd # Tmp
  BY Fields
<1>1. CASE /\ TmpLeft /\ vhd' = [vhd EXCEPT ![Tmp] = Closed]
           /\ Return("error") /\ UNCHANGED handle
  <2>1. \A g \in Names \ {Tmp} : files'[g] = files[g] BY <1>1 DEF TmpLeft
  <2>2. vhd'[Tmp] = Closed /\ \A g \in Objects \ {Tmp} : vhd'[g] = vhd[g]
    BY <1>0, <1>1, Constants, OneObject
  <2>3. CacheInv(Tmp)' /\ "PURE" \notin vhd'[Tmp].flags BY <2>2, Constants DEF CacheInv
  <2>4. call'.pc = "none" BY <1>1, Constants DEF Return
  <2>5. CopyInv(S)' /\ LinkedInv(S, base)' BY <2>4, NothingToCopy
  <2> QED BY <2>1, <2>2, <2>3, <2>5, <1>0, <1>1, TmpContent
<1>2. CASE CloseDies(Tmp)
  <2>1. PICK D \in SUBSET vhd[Tmp].dirty, table \in {vhd[Tmp].present, files[Tmp].present} :
          WroteBack(Tmp, D, table)
    BY <1>0, <1>2, DiesClosing
  <2>2. handle' = FALSE /\ vhd' = [g \in Objects |-> Closed] /\ call' = NoCall
    BY <1>0, <1>2, DiesClosing
  <2>3. Kept(Tmp) BY <2>1 DEF WroteBack, Kept
  <2>4. ChainKept /\ files'[TailVhd] = files[TailVhd] BY <2>3, <1>0, KeptChain DEF Kept
  <2>5. ~vhd'[TailVhd].open /\ vhd'[TailVhd].dirty = {} BY <2>2, <1>0, Constants
  <2>6. Sheds(TailVhd)
    <3>1. CacheInv(TailVhd) BY <1>0 DEF Content
    <3> QED BY <3>1, <2>4, <2>5, <1>0, DeathSheds
  <2> QED BY <2>2, <2>4, <2>6, DeathContent
<1> QED BY <1>1, <1>2, GiveUpDoes
(* What has been copied stays, when the temporary file is linked, flushed and the tail closed. *)
LEMMA TmpKept ==
  ASSUME TypeInv, TypeInv', NEW S, Struct(S), NEW base, Content(S, base), call.op = "safely",
         call.pc \in LinkPcs \cup {"flushTmp", "closeTail"}, SameCall,
         call'.pc \in LinkPcs \cup {"flushTmp", "closeTail", "rename"},
         ChainKept, files'[Tmp].uuid = files[Tmp].uuid, Gains(Tmp, {}), OnFile(Tmp)'
  PROVE  CopyInv(S)' /\ LinkedInv(S, base)'
<1>1. /\ call.to = Tmp /\ call'.to = Tmp /\ call'.op = "safely" /\ call'.parent = call.parent
  BY DEF Struct, SafelyInv, SameCall
<1>2. call'.pc \notin CopyPcs \cup {"create", "generate"} BY DEF LinkPcs, CopyPcs
<1>3. call.pc \in TmpPcs \cup {"closeTail", "rename"} BY DEF LinkPcs, TmpPcs
<1>4. PICK r, p : r = files[Tmp].uuid /\ p = call.parent OBVIOUS
<1>5. /\ r \in S /\ \A s \in Sectors : Wanted(S, s) => s \in Bitmap(files[Tmp])
      /\ \A s \in Cached(Tmp) : files[Tmp].data[s] = Below(S, r, s)
  BY <1>3, <1>4 DEF Struct, SafelyInv, Content, LinkedInv
<1>6. Lower = r /\ Lower' = r BY <1>1, <1>4 DEF Lower
<1>7. \A f \in S : files'[f] = files[f] BY DEF ChainKept, Struct, Path
<1>8. \A s \in Sectors : Wanted(S, s)' <=> Wanted(S, s) BY <1>1, <1>6, <1>7 DEF Wanted
<1>9. \A s \in Sectors : Wanted(S, s)' => s \in Bitmap(files'[Tmp]) BY <1>5, <1>8 DEF Gains
<1>10. \A q \in S, s \in Sectors : Below(S, q, s)' = Below(S, q, s) BY <1>7, PathFrame DEF Struct
<1>11. \A s \in Cached(Tmp)' : files'[Tmp].data[s] = Below(S, files[Tmp].uuid, s)'
  <2> SUFFICES ASSUME NEW s \in Cached(Tmp)'
               PROVE  files'[Tmp].data[s] = Below(S, files[Tmp].uuid, s)'
    OBVIOUS
  <2>1. s \in Sectors
    <3>1. \A g \in Objects, t \in Sectors : Cached(g)' \subseteq Sectors BY OwnIsNext
    <3>2. Cached(Tmp)' \subseteq Sectors BY <3>1, FirstSector, Fields
    <3> QED BY <3>2
  <2>2. s \in Cached(Tmp) /\ files'[Tmp].data[s] = files[Tmp].data[s] BY <2>1 DEF Gains
  <2>3. files'[Tmp].data[s] = Below(S, r, s)' BY <2>1, <2>2, <1>5, <1>10
  <2> QED BY <2>3, <1>4 DEF Below
<1>12. CopyInv(S)' BY <1>1, <1>2 DEF CopyInv, CopyPcs
<1>13. LinkedInv(S, base)' BY <1>1, <1>9, <1>11 DEF LinkedInv
<1> QED BY <1>12, <1>13

(* Its locators. *)
LEMMA TmpLocatorContent ==
  ASSUME TypeInv, TypeInv', NEW S, Struct(S), NEW base, Content(S, base), call.op = "safely",
         WriteLocator, UNCHANGED <<content, recent>>
  PROVE  Content(S, base)'
<1>0. Tmp \in Objects /\ TailVhd \in Objects /\ TailVhd # Tmp BY Fields
<1>1. call.pc = "locators" /\ handle' = handle BY WriteLocatorDoes
<1>2. call.to = Tmp BY <1>1, StepOfCall
<1>3. PICK L : LocatorsWritten(Tmp, L) BY <1>2, WriteLocatorDoes
<1>4. /\ \A g \in Names \ {Tmp} : files'[g] = files[g]
      /\ vhd'[TailVhd] = vhd[TailVhd] /\ vhd'[Tmp].flags = vhd[Tmp].flags
      /\ files'[Tmp].uuid = files[Tmp].uuid
  BY <1>0, <1>3 DEF LocatorsWritten
<1>5. OnFile(Tmp) /\ CacheInv(Tmp) /\ "PURE" \notin vhd[Tmp].flags
  BY <1>0, <1>1 DEF Content, LinkedInv, LinkPcs, NotPure
<1>6. Gains(Tmp, {}) /\ OnFile(Tmp)' BY <1>0, <1>3, <1>5, LeftAlone DEF LocatorsWritten
<1>7. CacheInv(Tmp)' BY <1>6 DEF Gains
<1>8. CASE call' = NoCall \/ GoesOn("giveUp")
  <2>1. call'.pc \in {"none", "giveUp"} BY <1>8, Constants DEF GoesOn
  <2>2. CopyInv(S)' /\ LinkedInv(S, base)' BY <2>1, NothingToCopy
  <2> QED BY <2>2, <1>1, <1>4, <1>5, <1>7, TmpContent
<1>9. CASE SameCall /\ call'.pc \in LinkPcs
  <2>1. ChainKept BY <1>4, TmpChain
  <2>2. call.pc \in LinkPcs BY <1>1 DEF LinkPcs
  <2>3. CopyInv(S)' /\ LinkedInv(S, base)' BY <2>1, <2>2, <1>4, <1>6, <1>9, TmpKept
  <2> QED BY <2>3, <1>1, <1>4, <1>5, <1>7, TmpContent
<1>10. (call' = NoCall \/ GoesOn("giveUp")) \/ (SameCall /\ call'.pc \in LinkPcs)
  BY WriteLocatorDoes DEF LinkPcs
<1> QED BY <1>8, <1>9, <1>10

(* Its header. *)
LEMMA TmpHeaderContent ==
  ASSUME TypeInv, TypeInv', NEW S, Struct(S), NEW base, Content(S, base), call.op = "safely",
         WriteHeader, UNCHANGED <<content, recent>>
  PROVE  Content(S, base)'
<1>0. Tmp \in Objects /\ TailVhd \in Objects /\ TailVhd # Tmp BY Fields
<1>1. call.pc = "header" /\ handle' = handle /\ vhd' = vhd BY WriteHeaderDoes
<1>2. call.to = Tmp BY <1>1, StepOfCall
<1>3. PICK kind \in {files[Tmp].kind, "bad"}, parent \in {files[Tmp].parent, call.parent} :
        HeaderWritten(Tmp, kind, parent)
  BY <1>2, WriteHeaderDoes
<1>4. /\ \A g \in Names \ {Tmp} : files'[g] = files[g]
      /\ vhd'[TailVhd] = vhd[TailVhd] /\ vhd'[Tmp].flags = vhd[Tmp].flags
      /\ files'[Tmp].uuid = files[Tmp].uuid
  BY <1>1, <1>3 DEF HeaderWritten
<1>5. OnFile(Tmp) /\ CacheInv(Tmp) /\ "PURE" \notin vhd[Tmp].flags
  BY <1>0, <1>1 DEF Content, LinkedInv, LinkPcs, NotPure
<1>6. Gains(Tmp, {}) /\ OnFile(Tmp)'
  <2>1. call.pc \in TmpPcs BY <1>1 DEF TmpPcs, LinkPcs
  <2>2. files[Tmp].kind = "diff" BY <2>1 DEF Struct, SafelyInv
  <2>3. files[Tmp].kind = "head" <=> files'[Tmp].kind = "head" BY <2>2, <1>3 DEF HeaderWritten
  <2> QED BY <2>3, <1>0, <1>1, <1>3, <1>5, LeftAlone DEF HeaderWritten
<1>7. CacheInv(Tmp)' BY <1>6 DEF Gains
<1>8. CASE call' = NoCall \/ GoesOn("giveUp")
  <2>1. call'.pc \in {"none", "giveUp"} BY <1>8, Constants DEF GoesOn
  <2>2. CopyInv(S)' /\ LinkedInv(S, base)' BY <2>1, NothingToCopy
  <2> QED BY <2>2, <1>1, <1>4, <1>5, <1>7, TmpContent
<1>9. CASE SameCall /\ call'.pc = "flushTmp"
  <2>1. ChainKept BY <1>4, TmpChain
  <2>2. call.pc \in LinkPcs BY <1>1 DEF LinkPcs
  <2>3. CopyInv(S)' /\ LinkedInv(S, base)' BY <2>1, <2>2, <1>4, <1>6, <1>9, TmpKept
  <2> QED BY <2>3, <1>1, <1>4, <1>5, <1>7, TmpContent
<1>10. (call' = NoCall \/ GoesOn("giveUp")) \/ (SameCall /\ call'.pc = "flushTmp")
  BY <1>2, WriteHeaderDoes DEF GoesOn
<1> QED BY <1>8, <1>9, <1>10

(* It is flushed and closed. *)
LEMMA FlushTmpContent ==
  ASSUME TypeInv, TypeInv', NEW S, Struct(S), NEW base, Content(S, base), call.op # "none",
         FlushTmp, UNCHANGED <<content, recent>>
  PROVE  Content(S, base)'
<1>0. Tmp \in Objects /\ Tmp \in Names /\ TailVhd \in Objects /\ TailVhd # Tmp BY Fields
<1>1. call.pc = "flushTmp" /\ handle' = handle BY FlushTmpDoes
<1>2. call.op = "safely" /\ vhd[Tmp].open
  <2>1. call.op = "safely" BY <1>1, StepOfCall
  <2> QED BY <2>1, <1>1 DEF Struct, CallInv, TmpPcs
<1>3. CacheInv(Tmp) /\ "PURE" \notin vhd[Tmp].flags BY <1>0 DEF Content, NotPure
<1>4. CASE /\ WroteBack(Tmp, vhd[Tmp].dirty, vhd[Tmp].present)
           /\ vhd'[Tmp] = Closed /\ vhd'[TailVhd] = vhd[TailVhd] /\ GoesOn("closeTail")
  <2>1. ~vhd'[Tmp].open /\ vhd'[Tmp].dirty = {} /\ "PURE" \notin vhd'[Tmp].flags
    BY <1>4, Constants
  <2>2. Gains(Tmp, {}) /\ OnFile(Tmp)' BY <2>1, <1>0, <1>2, <1>3, <1>4, ClosingSheds
  <2>3. /\ \A g \in Names \ {Tmp} : files'[g] = files[g]
        /\ files'[Tmp].uuid = files[Tmp].uuid
    BY <1>4 DEF WroteBack, SameFrame
  <2>4. ChainKept BY <2>3, TmpChain
  <2>5. SameCall /\ call'.pc = "closeTail" BY <1>4 DEF GoesOn
  <2>6. CopyInv(S)' /\ LinkedInv(S, base)' BY <2>2, <2>3, <2>4, <2>5, <1>1, <1>2, TmpKept
  <2>7. CacheInv(Tmp)' BY <2>2 DEF Gains
  <2> QED BY <2>1, <2>3, <2>6, <2>7, <1>1, <1>4, TmpContent
<1>5. CASE FlushedPartly(Tmp) /\ (call' = NoCall \/ GoesOn("giveUp"))
  <2>1. CacheInv(Tmp)' BY <1>0, <1>2, <1>3, <1>5, FlushGains DEF FlushedPartly, Gains
  <2>2. Kept(Tmp) /\ ObjectKept(Tmp) BY <1>0, <1>5, FlushedKept
  <2>3. /\ \A g \in Names \ {Tmp} : files'[g] = files[g]
        /\ vhd'[TailVhd] = vhd[TailVhd] /\ vhd'[Tmp].flags = vhd[Tmp].flags
    BY <2>2, <1>0 DEF Kept, ObjectKept
  <2>4. call'.pc \in {"none", "giveUp"} BY <1>5, Constants DEF GoesOn
  <2>5. CopyInv(S)' /\ LinkedInv(S, base)' BY <2>4, NothingToCopy
  <2> QED BY <2>1, <2>3, <2>5, <1>1, <1>3, TmpContent
<1> QED BY <1>4, <1>5, FlushTmpDoes

(* The tail is closed. *)
LEMMA CloseTailContent ==
  ASSUME TypeInv, TypeInv', NEW S, Struct(S), NEW base, Content(S, base), call.op # "none",
         CloseTail, UNCHANGED <<content, recent>>
  PROVE  Content(S, base)'
<1>0. Tmp \in Objects /\ Tmp \in Names /\ TailVhd \in Objects /\ TailVhd # Tmp
      /\ Objects = {TailVhd, Tmp}
  BY Fields DEF Objects
<1>1. call.pc = "closeTail" BY CloseTailDoes
<1>2. call.op = "safely" /\ vhd[TailVhd].open
  <2>1. call.op = "safely" BY <1>1, StepOfCall
  <2> QED BY <2>1, <1>1 DEF Struct, SafelyInv
<1>3. CacheInv(TailVhd) /\ CacheInv(Tmp) BY <1>0 DEF Content
<1>4. CASE /\ WroteBack(TailVhd, vhd[TailVhd].dirty, vhd[TailVhd].present) /\ handle' = handle
           /\ vhd'[Tmp] = vhd[Tmp]
           /\ ~vhd'[TailVhd].open /\ vhd'[TailVhd].flags = vhd[TailVhd].flags
           /\ vhd'[TailVhd].dirty = {} /\ GoesOn("rename")
  <2>1. Gains(TailVhd, {}) BY <1>0, <1>2, <1>3, <1>4, ClosingSheds
  <2>2. Kept(TailVhd) BY <1>4 DEF WroteBack, Kept
  <2>3. ChainKept BY <2>2, <1>0, KeptChain
  <2>4. files'[Tmp] = files[Tmp] BY <2>2, <1>0 DEF Kept
  <2>5. OnFile(Tmp) BY <1>1, <1>2 DEF Content, LinkedInv
  <2>6. Gains(Tmp, {}) /\ OnFile(Tmp)' BY <2>4, <2>5, <1>0, <1>3, <1>4, LeftAlone
  <2>7. SameCall /\ call'.pc = "rename" BY <1>4 DEF GoesOn
  <2>8. CopyInv(S)' /\ LinkedInv(S, base)' BY <2>3, <2>4, <2>6, <2>7, <1>1, <1>2, TmpKept
  <2>9. NotPure'
    <3>1. \A g \in Objects : vhd'[g].flags = vhd[g].flags BY <1>0, <1>4
    <3> QED BY <3>1 DEF Content, NotPure
  <2>10. \A g \in Objects : CacheInv(g)' BY <2>1, <2>6, <1>0 DEF Gains
  <2>11. ValuesKept({}, base) BY DEF ValuesKept
  <2>12. ContentInv(S, base)' BY <2>1, <2>3, <2>11, <1>4, ContentFramed
  <2> QED BY <2>8, <2>9, <2>10, <2>12 DEF Content
<1>5. CASE CloseDies(TailVhd)
  <2>1. PICK D \in SUBSET vhd[TailVhd].dirty,
             table \in {vhd[TailVhd].present, files[TailVhd].present} : WroteBack(TailVhd, D, table)
    BY <1>0, <1>5, DiesClosing
  <2>2. handle' = FALSE /\ vhd' = [g \in Objects |-> Closed] /\ call' = NoCall
    BY <1>0, <1>5, DiesClosing
  <2>3. Kept(TailVhd) BY <2>1 DEF WroteBack, Kept
  <2>4. ChainKept /\ files'[TailVhd].parent = files[TailVhd].parent
    BY <2>3, <1>0, KeptChain DEF Kept, SameFrame
  <2>5. ~vhd'[TailVhd].open /\ vhd'[TailVhd].dirty = {} BY <2>2, <1>0, Constants
  <2>6. Sheds(TailVhd) BY <2>1, <2>5, <1>0, <1>2, <1>3, ClosingSheds
  <2> QED BY <2>2, <2>4, <2>6, DeathContent
<1> QED BY <1>4, <1>5, CloseTailDoes
(* A value read from the path is that of the first file that has the sector: now and next. *)
LEMMA BelowReads ==
  \A S \in SUBSET (1 .. NumDiffs) : \A q \in S : \A s, g :
     FirstWith(S, q, s, g) => Below(S, q, s) = files[g].data[s]
BY BelowIs

LEMMA BelowReadsNext ==
  (\A S \in SUBSET (1 .. NumDiffs) : \A q \in S : \A s, g :
     FirstWith(S, q, s, g) => Below(S, q, s) = files[g].data[s])'
BY BelowReads, PTL

(* The temporary file in place of the files whose data it holds reads the same. *)
LEMMA RenamedReads ==
  ASSUME TypeInv, NEW S, Path(S), NEW r \in S, NEW p \in S, r < p, NEW w,
         files'[r] = w, \A f \in S \ {r} : files'[f] = files[f],
         NEW T, T = {f \in S : f <= r \/ p <= f}, NEW q \in S, q <= r, NEW s \in Sectors,
         (\E f \in S : r <= f /\ f < p /\ s \in Bitmap(files[f])) => s \in Bitmap(w),
         s \in Bitmap(w) => w.data[s] = Below(S, r, s)
  PROVE  Below(T, q, s)' = Below(S, q, s)
<1>0. S \in SUBSET (1 .. NumDiffs) /\ (\A f \in S : f \in Nat) /\ T \in SUBSET (1 .. NumDiffs)
  <2>1. S \in SUBSET (1 .. NumDiffs) BY DEF Path
  <2>2. \A f \in S : f \in Nat BY ONLY <2>1, NamesAreNumbers
  <2>3. T \subseteq S OBVIOUS
  <2>4. T \in SUBSET (1 .. NumDiffs) BY <2>1, <2>3, Zenon
  <2> QED BY <2>1, <2>2, <2>4
<1>1. r \in T /\ q \in T
  <2>1. r \in Nat BY <1>0
  <2>2. r <= r BY ONLY <2>1, SMT
  <2>3. r \in T BY <2>2
  <2>4. q \in T OBVIOUS
  <2> QED BY <2>3, <2>4
<1>2. PICK g \in S : FirstWith(S, q, s, g) BY BelowFrom
<1>3. Below(S, q, s) = files[g].data[s] BY <1>0, <1>2, BelowIs
<1>4. /\ q <= g /\ s \in Bitmap(files[g])
      /\ \A h \in S : q <= h /\ h < g => s \notin Bitmap(files[h])
      /\ g \in Nat /\ r \in Nat /\ p \in Nat /\ q \in Nat
  BY <1>0, <1>2 DEF FirstWith
<1>5. CASE g < r
  <2>1. g \in T /\ files'[g] = files[g] BY <1>4, <1>5
  <2>2. \A h \in T : q <= h /\ h < g => s \notin Bitmap(files'[h])
    <3> SUFFICES ASSUME NEW h \in T, q <= h, h < g PROVE s \notin Bitmap(files'[h]) OBVIOUS
    <3>1. h \in S /\ h \in Nat /\ h # r BY <1>0, <1>4, <1>5
    <3>2. files'[h] = files[h] BY <3>1
    <3> QED BY <3>1, <3>2, <1>4
  <2>3. FirstWith(T, q, s, g)' BY <2>1, <2>2, <1>4 DEF FirstWith, Bitmap
  <2>4. Below(T, q, s)' = files'[g].data[s] BY <2>3, <1>0, <1>1, BelowReadsNext
  <2> QED BY <2>1, <2>4, <1>3
<1>6. CASE ~(g < r) /\ s \in Bitmap(w)
  <2>1. FirstWith(S, r, s, g)
    <3>1. r <= g BY <1>4, <1>6
    <3>2. \A h \in S : r <= h /\ h < g => s \notin Bitmap(files[h])
      <4> SUFFICES ASSUME NEW h \in S, r <= h, h < g PROVE s \notin Bitmap(files[h]) OBVIOUS
      <4>1. h \in Nat BY <1>0
      <4>2. q <= h BY <4>1, <1>4
      <4> QED BY <4>2, <1>4
    <3> QED BY <3>1, <3>2, <1>4 DEF FirstWith
  <2>2. w.data[s] = files[g].data[s] BY <2>1, <1>0, <1>6, BelowIs
  <2>3. \A h \in T : q <= h /\ h < r => s \notin Bitmap(files'[h])
    <3> SUFFICES ASSUME NEW h \in T, q <= h, h < r PROVE s \notin Bitmap(files'[h]) OBVIOUS
    <3>1. h \in S /\ h \in Nat BY <1>0
    <3>2. h # r /\ h < g BY <3>1, <1>4, <1>6
    <3>3. files'[h] = files[h] BY <3>1, <3>2
    <3> QED BY <3>1, <3>2, <3>3, <1>4
  <2>4. FirstWith(T, q, s, r)' BY <2>3, <1>1, <1>6 DEF FirstWith, Bitmap
  <2>5. Below(T, q, s)' = files'[r].data[s] BY <2>4, <1>0, <1>1, BelowReadsNext
  <2> QED BY <2>2, <2>5, <1>3
<1>7. CASE ~(g < r) /\ s \notin Bitmap(w)
  <2>1. p <= g /\ g # r
    <3>1. r <= g BY <1>4, <1>7
    <3>2. ~(g < p) BY <3>1, <1>4, <1>7
    <3> QED BY <3>2, <1>4
  <2>2. g \in T /\ files'[g] = files[g] BY <2>1
  <2>3. \A h \in T : q <= h /\ h < g => s \notin Bitmap(files'[h])
    <3> SUFFICES ASSUME NEW h \in T, q <= h, h < g PROVE s \notin Bitmap(files'[h]) OBVIOUS
    <3>1. CASE h = r BY <3>1, <1>7
    <3>2. CASE h # r
      <4>1. h \in S /\ files'[h] = files[h] BY <3>2
      <4> QED BY <4>1, <1>4
    <3> QED BY <3>1, <3>2
  <2>4. FirstWith(T, q, s, g)' BY <2>2, <2>3, <1>4 DEF FirstWith, Bitmap
  <2>5. Below(T, q, s)' = files'[g].data[s] BY <2>4, <1>0, <1>1, BelowReadsNext
  <2> QED BY <2>2, <2>5, <1>3
<1> QED BY <1>5, <1>6, <1>7

(* Renaming. *)
LEMMA RenameContent ==
  ASSUME TypeInv, TypeInv', NEW S, Struct(S), NEW base, Content(S, base), call.op # "none",
         Rename, UNCHANGED <<content, recent>>, NEW T,
         \/ T = S /\ call' = NoCall
         \/ /\ GoesOn("reopen") /\ Renames(files[Tmp].uuid)
            /\ T = {f \in S : f <= files[Tmp].uuid \/ call.parent <= f}
  PROVE  Content(T, base)'
<1>0. Tmp \in Objects /\ Tmp \in Names /\ TailVhd \in Objects /\ TailVhd \in Names /\ TailVhd # Tmp
      /\ Objects = {TailVhd, Tmp}
  BY Fields DEF Objects
<1>1. call.pc = "rename" /\ handle' = handle /\ vhd' = vhd BY RenameDoes
<1>2. call.op = "safely" /\ call.to = Tmp BY <1>1, StepOfCall
<1>3. ~vhd[Tmp].open BY <1>1, <1>2 DEF Struct, CallInv, TmpPcs, CopyPcs, LinkPcs
<1>4. CacheInv(Tmp)' /\ NotPure'
  BY <1>0, <1>1, <1>3 DEF Content, CacheInv, NotPure
<1>5. CASE T = S /\ call' = NoCall
  <2>0. call' # call BY <1>1, <1>5, Constants
  <2>1. TmpLeft
    <3>1. ~GoesOn("reopen") BY <1>5, Constants DEF GoesOn
    <3> QED BY <3>1, RenameDoes
  <2>2. \A g \in Names \ {Tmp} : files'[g] = files[g] BY <2>1 DEF TmpLeft
  <2>3. call'.pc = "none" BY <1>5, Constants
  <2>4. CopyInv(S)' /\ LinkedInv(S, base)' BY <2>3, NothingToCopy
  <2>5. "PURE" \notin vhd'[Tmp].flags BY <1>0, <1>4 DEF NotPure
  <2>6. Content(S, base)' BY <2>2, <2>4, <2>5, <1>1, <1>4, TmpContent
  <2> QED BY <2>6, <1>5
<1>6. CASE /\ GoesOn("reopen") /\ Renames(files[Tmp].uuid)
           /\ T = {f \in S : f <= files[Tmp].uuid \/ call.parent <= f}
  <2>1. PICK r, p, w : r = files[Tmp].uuid /\ p = call.parent /\ w = files[Tmp] OBVIOUS
  <2>2. /\ r \in S /\ p \in S /\ r < p /\ vhd[TailVhd].parent <= r /\ w.kind = "diff"
    BY <2>1, <1>1, <1>2 DEF Struct, SafelyInv
  <2>3. S \in SUBSET (1 .. NumDiffs) /\ \A f \in S : f \in Nat
    <3>1. S \in SUBSET (1 .. NumDiffs) BY DEF Struct, Path
    <3> QED BY <3>1, NamesAreNumbers
  <2>4. files'[r] = w /\ (\A f \in S \ {r} : files'[f] = files[f]) /\ files'[TailVhd] = files[TailVhd]
    <3>1. \A f \in S : f \in Names \ {Tmp} /\ f # TailVhd BY <2>3, NamesAreNumbers
    <3> QED BY <3>1, <2>1, <2>2, <1>0, <1>6 DEF Renames
  <2>5. Gains(TailVhd, {})
    <3>1. CacheInv(TailVhd) BY <1>0 DEF Content
    <3> QED BY <3>1, <2>4, <1>0, <1>1, LeftAlone
  <2>6. \A g \in Objects : CacheInv(g)' BY <2>5, <1>0, <1>4 DEF Gains
  <2>7. CopyInv(T)' /\ LinkedInv(T, base)'
    <3>1. call'.pc = "reopen" BY <1>6 DEF GoesOn
    <3> QED BY <3>1, NothingToCopy
  <2>8. ASSUME NEW q \in S, q <= r, NEW s \in Sectors PROVE Below(T, q, s)' = Below(S, q, s)
    <3>1. Lower = r BY <2>1, <1>2 DEF Lower
    <3>2. Wanted(S, s) => s \in Bitmap(w) BY <2>1, <1>1, <1>2 DEF Content, LinkedInv
    <3>3. (\E f \in S : r <= f /\ f < p /\ s \in Bitmap(files[f])) => s \in Bitmap(w)
      BY <3>1, <3>2, <2>1 DEF Wanted
    <3>4. s \in Bitmap(w) => w.data[s] = Below(S, r, s)
      <4>1. Cached(Tmp) = Bitmap(w) BY <2>1, <1>3 DEF Cached
      <4>2. \A t \in Cached(Tmp) : files[Tmp].data[t] = Below(S, files[Tmp].uuid, t)
        BY <1>1, <1>2 DEF Content, LinkedInv
      <4> QED BY <4>1, <4>2, <2>1
    <3>5. T = {f \in S : f <= r \/ p <= f} BY <2>1, <1>6
    <3> QED BY <3>3, <3>4, <3>5, <2>2, <2>4, <2>8, RenamedReads DEF Struct
  <2>9. Held(S, base) /\ CacheInv(TailVhd) BY <1>0 DEF Content, ContentInv
  <2>10. /\ Leads(vhd[TailVhd].parent) /\ vhd[TailVhd].parent \in S
    BY <1>1, <1>2 DEF Struct, CallInv
  <2>11. ASSUME NEW q, NEW i \in Locators, NEW s \in Sectors,
                s \notin Bitmap(files'[TailVhd]), TailLocs'[i] = q, q # NoName
         PROVE  Below(T, q, s)' = base[s]
    <3>1. TailLocs[i] = q /\ s \notin Bitmap(files[TailVhd]) BY <2>4, <2>11 DEF TailLocs
    <3>2. q \in S BY <3>1, <2>11 DEF Struct, TailInv
    <3>3. q <= r
      <4>1. q <= vhd[TailVhd].parent BY <3>1, <2>10, <2>11 DEF Leads
      <4>2. q \in Nat /\ r \in Nat /\ vhd[TailVhd].parent \in Nat BY <3>2, <2>2, <2>3, <2>10
      <4> QED BY <4>1, <4>2, <2>2
    <3>4. Below(S, q, s) = base[s] BY <3>1, <2>9, <2>11 DEF Held
    <3> QED BY <3>2, <3>3, <3>4, <2>8
  <2>12. ValuesKept({}, base) BY DEF ValuesKept
  <2>13. Held(T, base)' BY <2>5, <2>9, <2>11, <2>12, <1>1, HeldKept
  <2> QED BY <2>6, <2>7, <2>13, <1>4 DEF Content, ContentInv
<1> QED BY <1>5, <1>6
(* An object that is opened has what is on file. *)
LEMMA OpenedGains ==
  ASSUME TypeInv, TypeInv', NEW f \in Objects, CacheInv(f), ~vhd[f].open, vhd'[f].open,
         files'[f] = files[f], files[f].kind # "head", vhd'[f].present = files[f].present,
         vhd'[f].bits = files[f].bits, vhd'[f].dirty = {}
  PROVE  Gains(f, {}) /\ OnFile(f)'
<1>1. CacheInv(f)' BY DEF CacheInv
<1>2. ASSUME NEW s \in Sectors
      PROVE  /\ s \in Cached(f) <=> s \in Bitmap(files[f])
             /\ s \in Cached(f)' <=> s \in Bitmap(files'[f])
             /\ s \in Bitmap(files'[f]) <=> s \in Bitmap(files[f])
  <2>1. s \in Bitmap(files[f]) <=>
             s \in files[f].bits /\ SectorToBlockNumber(s) \in files[f].present
    BY OwnIs
  <2>2. s \in Cached(f)' <=> s \in vhd'[f].bits /\ SectorToBlockNumber(s) \in vhd'[f].present
    BY OwnIsNext
  <2>3. s \in Cached(f) <=> s \in Bitmap(files[f]) BY OwnIs
  <2>4. s \in Bitmap(files'[f]) <=> s \in Bitmap(files[f]) OBVIOUS
  <2> QED BY <2>1, <2>2, <2>3, <2>4
<1> QED BY <1>1, <1>2 DEF Gains, OnFile

(* A step of a call that copies nothing and leaves the tail as it is. *)
LEMMA CallContent ==
  ASSUME TypeInv, TypeInv', NEW S, Struct(S), NEW base, Content(S, base), call.op # "none",
         UNCHANGED <<content, recent>>, handle' = handle, TailLocs' = TailLocs,
         \A f \in S : files'[f] = files[f], Gains(TailVhd, {}), CacheInv(Tmp)', NotPure',
         call'.pc \in {"none", "giveUp", "reopen", "unlink"}
  PROVE  Content(S, base)'
<1>0. Objects = {TailVhd, Tmp} /\ TailVhd \in Objects BY Fields DEF Objects
<1>1. \A g \in Objects : CacheInv(g)' BY <1>0 DEF Gains
<1>2. CopyInv(S)' /\ LinkedInv(S, base)' BY NothingToCopy
<1>3. Held(S, base) /\ CacheInv(TailVhd) BY <1>0 DEF Content, ContentInv
<1>4. ValuesKept({}, base) BY DEF ValuesKept
<1>5. Held(S, base)' BY <1>3, <1>4, HeldFramed DEF Struct
<1> QED BY <1>1, <1>2, <1>5 DEF Content, ContentInv

(* Opening the tail again. *)
LEMMA ReopenContent ==
  ASSUME TypeInv, TypeInv', NEW S, Struct(S), NEW base, Content(S, base), call.op # "none",
         Reopen, UNCHANGED <<content, recent>>
  PROVE  Content(S, base)'
<1>0. Objects = {TailVhd, Tmp} /\ TailVhd # Tmp /\ TailVhd \in Objects /\ Tmp \in Objects
      /\ Tmp \in Names /\ files[TailVhd] \in Vhds
  BY Fields DEF Objects
<1>1. call.pc = "reopen" /\ handle' = handle BY ReopenDoes
<1>2. call.op = "safely" /\ ~vhd[TailVhd].open /\ files[TailVhd].kind = "diff"
  <2>1. call.op = "safely" BY <1>1, StepOfCall
  <2> QED BY <2>1, <1>1 DEF Struct, SafelyInv, CallInv
<1>3. CacheInv(TailVhd) /\ CacheInv(Tmp) /\ "PURE" \notin vhd[TailVhd].flags
      /\ "PURE" \notin vhd[Tmp].flags
  BY <1>0 DEF Content, NotPure
<1>4. CASE UNCHANGED <<files, vhd>> /\ call' = NoCall
  <2>1. Gains(TailVhd, {}) /\ Gains(Tmp, {}) BY <1>0, <1>3, <1>4, LeftAlone
  <2>2. CacheInv(Tmp)' BY <2>1 DEF Gains
  <2>3. NotPure' BY <1>4 DEF Content, NotPure
  <2>4. call'.pc = "none" BY <1>4, Constants
  <2>5. TailLocs' = TailLocs /\ \A f \in S : files'[f] = files[f] BY <1>4 DEF TailLocs
  <2> QED BY <2>1, <2>2, <2>3, <2>4, <2>5, <1>1, CallContent
<1>5. CASE /\ Kept(TailVhd) /\ files'[TailVhd] = Filled(files[TailVhd], vhd[TailVhd].flags)
           /\ vhd'[Tmp] = vhd[Tmp]
           /\ vhd'[TailVhd].open /\ vhd'[TailVhd].dirty = {}
           /\ vhd'[TailVhd].flags = vhd[TailVhd].flags
           /\ vhd'[TailVhd].present = files'[TailVhd].present
           /\ vhd'[TailVhd].bits = files'[TailVhd].bits
           /\ GoesOn("unlink")
  <2>1. files'[TailVhd] = files[TailVhd] BY <1>0, <1>3, <1>5, FilledType
  <2>2. Gains(TailVhd, {}) BY <2>1, <1>0, <1>2, <1>3, <1>5, OpenedGains
  <2>3. files'[Tmp] = files[Tmp] BY <1>0, <1>5 DEF Kept
  <2>4. Gains(Tmp, {}) BY <2>3, <1>0, <1>3, <1>5, LeftAlone
  <2>5. CacheInv(Tmp)' BY <2>4 DEF Gains
  <2>6. NotPure' BY <1>0, <1>3, <1>5 DEF NotPure
  <2>7. call'.pc = "unlink" BY <1>5 DEF GoesOn
  <2>8. TailLocs' = TailLocs /\ \A f \in S : files'[f] = files[f]
    <3>1. ChainKept BY <1>0, <1>5, KeptChain
    <3> QED BY <3>1 DEF ChainKept, Struct, Path, TailLocs
  <2> QED BY <2>2, <2>5, <2>6, <2>7, <2>8, <1>1, CallContent
<1> QED BY <1>4, <1>5, ReopenDoes

(* Deleting a file that is not in the chain any more. *)
LEMMA UnlinkContent ==
  ASSUME TypeInv, TypeInv', NEW S, Struct(S), NEW base, Content(S, base), call.op # "none",
         UnlinkStrays, UNCHANGED <<content, recent>>
  PROVE  Content(S, base)'
<1>0. Objects = {TailVhd, Tmp} /\ TailVhd \in Objects /\ Tmp \in Objects
      /\ TailVhd \in Names \ (1 .. NumDiffs) /\ Tmp \in Names \ (1 .. NumDiffs)
      /\ 1 .. NumDiffs \subseteq Names
  BY NamesAreNumbers DEF Objects
<1>1. call.pc = "unlink" /\ handle' = handle /\ vhd' = vhd BY UnlinkDoes
<1>2. files'[TailVhd] = files[TailVhd] /\ files'[Tmp] = files[Tmp]
      /\ \A f \in S : files'[f] = files[f]
  <2>1. S \subseteq 1 .. NumDiffs BY DEF Struct, Path
  <2>2. \/ files' = files
        \/ \E x \in (1 .. NumDiffs) \ S : files' = [files EXCEPT ![x] = NoFile]
    BY UnlinkDoes
  <2>3. CASE files' = files BY <2>3
  <2>4. ASSUME NEW x \in (1 .. NumDiffs) \ S, files' = [files EXCEPT ![x] = NoFile]
        PROVE  \A g \in Names \ {x} : files'[g] = files[g]
    <3>1. x \in Names BY <1>0
    <3> QED BY <3>1, <2>4, Constants, OneFile
  <2> QED BY <2>1, <2>2, <2>3, <2>4, <1>0
<1>3. Gains(TailVhd, {}) /\ Gains(Tmp, {})
  <2>1. CacheInv(TailVhd) /\ CacheInv(Tmp) BY <1>0 DEF Content
  <2> QED BY <2>1, <1>0, <1>1, <1>2, LeftAlone
<1>4. CacheInv(Tmp)' BY <1>3 DEF Gains
<1>5. NotPure' BY <1>1 DEF Content, NotPure
<1>6. call'.pc \in {"none", "unlink"}
  <2>1. CASE call' = NoCall BY <2>1, Constants
  <2>2. CASE call' = [call EXCEPT !.strays = call'.strays]
    <3>1. PICK R : R = call'.strays OBVIOUS
    <3>2. call' = [call EXCEPT !.strays = R] BY <3>1, <2>2
    <3> QED BY <3>2, <1>1, CallFields DEF Calls
  <2> QED BY <2>1, <2>2, UnlinkDoes
<1>7. TailLocs' = TailLocs BY <1>2 DEF TailLocs
<1> QED BY <1>1, <1>2, <1>3, <1>4, <1>5, <1>6, <1>7, CallContent

-----------------------------------------------------------------------------
(***************************************************************************)
(* The tail is unlinked                                                    *)
(***************************************************************************)

(* Its locators. *)
LEMMA TailLocatorContent ==
  ASSUME TypeInv, TypeInv', NEW S, Struct(S), NEW base, Content(S, base), call.op = "intoTail",
         WriteLocator, UNCHANGED <<content, recent>>
  PROVE  Content(S, base)'
<1>0. Objects = {TailVhd, Tmp} /\ TailVhd # Tmp /\ TailVhd \in Objects /\ Tmp \in Objects
      /\ Tmp \in Names
  BY Fields DEF Objects
<1>1. call.pc = "locators" /\ call.parent \in S /\ handle' = handle BY WriteLocatorDoes
<1>2. call.to = TailVhd BY <1>1, StepOfCall
<1>3. PICK L \in {TailLocs, Relinked(TailVhd, call.parent), Relinked(TailVhd, NoName)} :
        LocatorsWritten(TailVhd, L)
  BY <1>2, WriteLocatorDoes DEF TailLocs
<1>4. CacheInv(TailVhd) /\ CacheInv(Tmp) /\ Held(S, base) /\ OnFile(TailVhd)
      /\ \A s \in Sectors \ Bitmap(files[TailVhd]) : Below(S, call.parent, s) = base[s]
  BY <1>0, <1>1 DEF Content, ContentInv, LinkedInv, LinkPcs
<1>5. Gains(TailVhd, {}) /\ OnFile(TailVhd)' BY <1>0, <1>3, <1>4, LeftAlone DEF LocatorsWritten
<1>6. Gains(Tmp, {})
  <2>1. files'[Tmp] = files[Tmp] /\ vhd'[Tmp] = vhd[Tmp] BY <1>0, <1>3 DEF LocatorsWritten
  <2> QED BY <2>1, <1>0, <1>4, LeftAlone
<1>7. \A g \in Objects : CacheInv(g)' BY <1>0, <1>5, <1>6 DEF Gains
<1>8. NotPure'
  <2>1. \A g \in Objects : vhd'[g].flags = vhd[g].flags BY <1>0, <1>3 DEF LocatorsWritten
  <2> QED BY <2>1 DEF Content, NotPure
<1>9. \A q \in S, s \in Sectors : Below(S, q, s)' = Below(S, q, s)
  <2>1. \A f \in S : f \in Names \ {TailVhd} BY NamesAreNumbers DEF Struct, Path
  <2>2. \A f \in S : files'[f] = files[f] BY <2>1, <1>3 DEF LocatorsWritten
  <2> QED BY <2>2, PathFrame DEF Struct
<1>10. ASSUME NEW q, NEW i \in Locators, NEW s \in Sectors,
              s \notin Bitmap(files'[TailVhd]), TailLocs'[i] = q, q # NoName
       PROVE  Below(S, q, s)' = base[s]
  <2>1. s \notin Bitmap(files[TailVhd]) BY <1>5, <1>10 DEF Gains
  <2>2. L[i] = q BY <1>3, <1>10 DEF LocatorsWritten, TailLocs
  <2>3. q = TailLocs[i] \/ q = call.parent
    <3>1. TailLocs \in [Locators -> Names \cup {NoName}] BY <1>0, Fields DEF TailLocs
    <3> QED BY <3>1, <2>2, <1>10 DEF Relinked, TailLocs
  <2>4. q \in S /\ Below(S, q, s) = base[s]
    BY <2>1, <2>3, <1>1, <1>4, <1>10 DEF Held, Struct, TailInv
  <2> QED BY <2>4, <1>9
<1>11. ValuesKept({}, base) BY DEF ValuesKept
<1>12. Held(S, base)' BY <1>1, <1>4, <1>5, <1>10, <1>11, HeldKept
<1>13. CASE call' = NoCall
  <2>1. call'.pc = "none" BY <1>13, Constants
  <2>2. CopyInv(S)' /\ LinkedInv(S, base)' BY <2>1, NothingToCopy
  <2> QED BY <2>2, <1>7, <1>8, <1>12 DEF Content, ContentInv
<1>14. CASE SameCall /\ call'.pc \in LinkPcs
  <2>1. call'.op = "intoTail" /\ call'.parent = call.parent BY <1>14 DEF SameCall
  <2>2. CopyInv(S)' BY <1>14 DEF CopyInv, CopyPcs, LinkPcs
  <2>3. \A s \in Sectors \ Bitmap(files'[TailVhd]) : Below(S, call.parent, s)' = base[s]
    <3> SUFFICES ASSUME NEW s \in Sectors, s \notin Bitmap(files'[TailVhd])
                 PROVE  Below(S, call.parent, s)' = base[s]
      OBVIOUS
    <3>1. PICK p : p = call.parent OBVIOUS
    <3>2. s \notin Bitmap(files[TailVhd]) BY <1>5 DEF Gains
    <3>3. Below(S, p, s)' = base[s] BY <3>1, <3>2, <1>1, <1>4, <1>9
    <3> QED BY <3>1, <3>3, <2>1 DEF Below
  <2>4. LinkedInv(S, base)' BY <2>1, <2>3, <1>5 DEF LinkedInv
  <2> QED BY <2>2, <2>4, <1>7, <1>8, <1>12 DEF Content, ContentInv
<1>15. call' = NoCall \/ (SameCall /\ call'.pc \in LinkPcs)
  BY <1>0, <1>2, WriteLocatorDoes DEF LinkPcs
<1> QED BY <1>13, <1>14, <1>15

(* From the new parent on the chain reads the same, without the files below. *)
LEMMA AboveReads ==
  ASSUME NEW S, Path(S), NEW p \in S, \A f \in S : files'[f] = files[f],
         NEW T, T = S \/ T = {f \in S : p <= f}, NEW s \in Sectors
  PROVE  Below(T, p, s)' = Below(S, p, s)
<1>0. S \in SUBSET (1 .. NumDiffs) /\ T \in SUBSET (1 .. NumDiffs) /\ p \in T /\ T \subseteq S
  <2>1. S \in SUBSET (1 .. NumDiffs) BY DEF Path
  <2>2. p \in Nat BY <2>1, NamesAreNumbers
  <2>3. p <= p BY <2>2
  <2>4. T \subseteq S /\ p \in T BY <2>3
  <2> QED BY <2>1, <2>4
<1>1. PICK g \in S : FirstWith(S, p, s, g) BY BelowFrom
<1>2. Below(S, p, s) = files[g].data[s] BY <1>0, <1>1, BelowIs
<1>3. g \in T BY <1>1 DEF FirstWith
<1>4. \A h \in T : p <= h /\ h < g => s \notin Bitmap(files'[h]) BY <1>0, <1>1 DEF FirstWith
<1>5. p <= g /\ s \in Bitmap(files'[g]) BY <1>1 DEF FirstWith
<1>6. FirstWith(T, p, s, g)' BY <1>3, <1>4, <1>5 DEF FirstWith, Bitmap
<1>7. Below(T, p, s)' = files'[g].data[s] BY <1>0, <1>6, BelowReadsNext
<1> QED BY <1>2, <1>7

(* Its header. *)
LEMMA TailHeaderContent ==
  ASSUME TypeInv, TypeInv', NEW S, Struct(S), NEW base, Content(S, base), call.op = "intoTail",
         WriteHeader, UNCHANGED <<content, recent>>,
         NEW T, T = S \/ T = {f \in S : call.parent <= f}
  PROVE  Content(T, base)'
<1>0. Objects = {TailVhd, Tmp} /\ TailVhd # Tmp /\ TailVhd \in Objects /\ Tmp \in Objects
      /\ Tmp \in Names
  BY Fields DEF Objects
<1>1. call.pc = "header" /\ call.parent \in S /\ handle' = handle /\ vhd' = vhd BY WriteHeaderDoes
<1>2. call.to = TailVhd BY <1>1, StepOfCall
<1>3. PICK p : p = call.parent OBVIOUS
<1>4. PICK kind \in {files[TailVhd].kind, "bad"}, parent \in {files[TailVhd].parent, p} :
        HeaderWritten(TailVhd, kind, parent)
  BY <1>2, <1>3, WriteHeaderDoes
<1>5. CacheInv(TailVhd) /\ CacheInv(Tmp) /\ Held(S, base)
      /\ \A s \in Sectors \ Bitmap(files[TailVhd]) : Below(S, p, s) = base[s]
  BY <1>0, <1>1, <1>3 DEF Content, ContentInv, LinkedInv, LinkPcs
<1>6. files[TailVhd].kind = "diff" /\ \A i \in Locators : TailLocs[i] = p
  BY <1>1, <1>3 DEF Struct, CallInv, IntoTailInv, LinkInv, TailLocs
<1>7. Gains(TailVhd, {})
  <2>1. files[TailVhd].kind = "head" <=> files'[TailVhd].kind = "head"
    BY <1>4, <1>6 DEF HeaderWritten
  <2> QED BY <2>1, <1>0, <1>1, <1>4, <1>5, LeftAlone DEF HeaderWritten
<1>8. Gains(Tmp, {})
  <2>1. files'[Tmp] = files[Tmp] BY <1>0, <1>4 DEF HeaderWritten
  <2> QED BY <2>1, <1>0, <1>1, <1>5, LeftAlone
<1>9. \A g \in Objects : CacheInv(g)' BY <1>0, <1>7, <1>8 DEF Gains
<1>10. NotPure' BY <1>1 DEF Content, NotPure
<1>11. \A f \in S : files'[f] = files[f]
  <2>1. \A f \in S : f \in Names \ {TailVhd} BY NamesAreNumbers DEF Struct, Path
  <2> QED BY <2>1, <1>4 DEF HeaderWritten
<1>12. ASSUME NEW q, NEW i \in Locators, NEW s \in Sectors,
              s \notin Bitmap(files'[TailVhd]), TailLocs'[i] = q, q # NoName
       PROVE  Below(T, q, s)' = base[s]
  <2>1. s \notin Bitmap(files[TailVhd]) BY <1>7, <1>12 DEF Gains
  <2>2. q = p BY <1>4, <1>6, <1>12 DEF HeaderWritten, TailLocs
  <2>3. Below(T, p, s)' = Below(S, p, s) BY <1>1, <1>3, <1>11, AboveReads DEF Struct
  <2> QED BY <2>1, <2>2, <2>3, <1>5
<1>13. ValuesKept({}, base) BY DEF ValuesKept
<1>14. Held(T, base)' BY <1>1, <1>5, <1>7, <1>12, <1>13, HeldKept
<1>15. call'.pc \in {"none", "unlink"}
  BY <1>0, <1>2, WriteHeaderDoes, Constants DEF GoesOn
<1>16. CopyInv(T)' /\ LinkedInv(T, base)' BY <1>15, NothingToCopy
<1> QED BY <1>9, <1>10, <1>14, <1>16 DEF Content, ContentInv
-----------------------------------------------------------------------------
(***************************************************************************)
(* What the client does                                                    *)
(***************************************************************************)

(* What is found of the disk is data. *)
LEMMA DiskIsData ==
  ASSUME TypeInv
  PROVE  OnDisk \in [Sectors -> Data]
<1>1. Unreadable \in Data BY NamesAreNumbers DEF Data, Unreadable
<1>2. files[TailVhd].data \in [Sectors -> Data] BY Fields
<1>3. Contents(files[TailVhd], FALSE) \in [Sectors -> Data] BY <1>2, ContentsData
<1> QED BY <1>1, <1>3 DEF OnDisk

(* What is found of it when the tail has a parent. *)
LEMMA FoundOnDisk ==
  ASSUME TypeInv, NEW S, Struct(S), NEW base, Held(S, base), files[TailVhd].kind = "diff",
         Leads(files[TailVhd].parent)
  PROVE  \A s \in Sectors :
            OnDisk[s] = IF s \in Bitmap(files[TailVhd]) THEN files[TailVhd].data[s] ELSE base[s]
<1>1. PICK v, q : v = files[TailVhd] /\ q = files[TailVhd].parent OBVIOUS
<1>2. v.locs = TailLocs /\ v.kind = "diff" /\ v.parent = q /\ v.parent \in 0 .. NoUuid
  BY <1>1, Fields DEF TailLocs
<1>3. Leads(v.parent) BY <1>1
<1>4. q \in S /\ OpenParentVHD(v) = q /\ CanOpen(v) BY <1>2, <1>3, TailParent DEF Struct
<1>6. OnDisk = Contents(v, FALSE) BY <1>1, <1>4 DEF OnDisk
<1>5. \A s \in Sectors : OnDisk[s] = IF s \in Bitmap(v) THEN v.data[s] ELSE Below(S, q, s)
  <2>1. v.kind # "head" /\ OpenParentVHD(v) \in S BY <1>2, <1>4
  <2>2. Contents(v, FALSE) = [s \in Sectors |-> IF s \in Bitmap(v) THEN v.data[s]
                                               ELSE Below(S, OpenParentVHD(v), s)]
    BY <2>1, ContentsOfPath DEF Struct
  <2>3. ASSUME NEW s \in Sectors
        PROVE  Contents(v, FALSE)[s] = IF s \in Bitmap(v) THEN v.data[s]
                                       ELSE Below(S, OpenParentVHD(v), s)
    BY <2>2
  <2> QED BY <2>3, <1>4, <1>6
<1>7. ASSUME NEW s \in Sectors, s \notin Bitmap(v) PROVE Below(S, q, s) = base[s]
  <2>1. PICK i \in Locators : TailLocs[i] = q BY <1>1, <1>3 DEF Leads
  <2>2. q # NoName
    <3>1. q \in 1 .. NumDiffs BY <1>4 DEF Struct, Path
    <3> QED BY <3>1, NamesAreNumbers
  <2> QED BY <2>1, <2>2, <1>1, <1>7 DEF Held
<1> QED BY <1>1, <1>5, <1>7

(* Nothing happens to what the content is made of. *)
LEMMA ContentStays ==
  ASSUME NEW S, NEW base, UNCHANGED <<files, handle, vhd, content, recent>>
  PROVE  /\ NotPure' <=> NotPure
         /\ (\A f \in Objects : CacheInv(f)') <=> \A f \in Objects : CacheInv(f)
         /\ Held(S, base)' <=> Held(S, base)
         /\ Linked' <=> Linked
         /\ call' = call /\ Content(S, base) => Content(S, base)'
<1>1. NotPure' <=> NotPure BY DEF NotPure
<1>2. (\A f \in Objects : CacheInv(f)') <=> \A f \in Objects : CacheInv(f) BY DEF CacheInv
<1>3. \A f : Bitmap(files[f])' = Bitmap(files[f]) BY DEF Bitmap
<1>4. \A f : Cached(f)' = Cached(f) BY DEF Cached, Bitmap, View
<1>5. \A q, s : Below(S, q, s)' = Below(S, q, s) BY DEF Below, Least, Bitmap
<1>6. Held(S, base)' <=> Held(S, base)
  <2>1. TailLocs' = TailLocs BY DEF TailLocs
  <2> QED BY <1>3, <1>4, <2>1 DEF Held, Below, Least, Bitmap
<1>7. Linked' <=> Linked BY DEF Linked, Leads, TailLocs
<1>8. ASSUME call' = call, Content(S, base) PROVE Content(S, base)'
  <2>1. ContentInv(S, base)' BY <1>6, <1>7, <1>8 DEF ContentInv, Content
  <2>2. CopyInv(S)'
    <3>1. LengthInv(S)' <=> LengthInv(S) BY <1>8 DEF LengthInv, Lower, Ahead, Enumerates, Follows
    <3>2. \A s : Wanted(S, s)' <=> Wanted(S, s) BY <1>8 DEF Wanted, Lower, Bitmap
    <3>3. \A s : Visited(s)' <=> Visited(s) BY <1>8 DEF Visited
    <3>4. CopyInv(S) BY <1>8 DEF Content
    <3>5. Cached(call.to)' = Cached(call.to) BY <1>8 DEF Cached, Bitmap, View
    <3> QED BY <1>8, <3>1, <3>2, <3>3, <3>4, <3>5 DEF CopyInv
  <2>3. LinkedInv(S, base)'
    <3>1. \A s : Wanted(S, s)' <=> Wanted(S, s) BY <1>8 DEF Wanted, Lower, Bitmap
    <3>2. \A f : OnFile(f)' <=> OnFile(f) BY <1>3, <1>4 DEF OnFile
    <3>3. LinkedInv(S, base) BY <1>8 DEF Content
    <3>4. \A s : Below(S, call.parent, s)' = Below(S, call.parent, s)
              /\ Below(S, files[Tmp].uuid, s)' = Below(S, files[Tmp].uuid, s)
      BY <1>8 DEF Below, Least, Bitmap
    <3> QED BY <1>3, <1>4, <1>8, <3>1, <3>2, <3>3, <3>4 DEF LinkedInv
  <2> QED BY <1>1, <1>2, <1>8, <2>1, <2>2, <2>3 DEF Content
<1> QED BY <1>1, <1>2, <1>6, <1>7, <1>8

(* VHD_Open: the client is to read what it finds. *)
LEMMA OpenContent ==
  ASSUME TypeInv, TypeInv', NEW S, Struct(S), NEW base, Content(S, base), NEW flags \in Modes,
         "PURE" \notin flags, Open(flags),
         IF handle' THEN content' = OnDisk /\ recent' = Only(OnDisk) ELSE UNCHANGED <<content, recent>>
  PROVE  Content(S, base)'
<1>0. Objects = {TailVhd, Tmp} /\ TailVhd # Tmp /\ TailVhd \in Objects /\ Tmp \in Objects
      /\ TailVhd \in Names /\ Tmp \in Names /\ files[TailVhd] \in Vhds
  BY Fields DEF Objects
<1>1. ~handle /\ call' = call BY OpenDoes
<1>2. call = NoCall /\ call.op = "none" /\ call.pc = "none" /\ ~vhd[TailVhd].open
  BY <1>1, Constants DEF Struct, CallInv
<1>3. CASE UNCHANGED <<files, handle, vhd>>
  <2>1. UNCHANGED <<content, recent>> BY <1>1, <1>3
  <2> QED BY <2>1, <1>1, <1>3, ContentStays
<1>4. CASE OpensTail(flags)
  <2>1. /\ handle' = TRUE /\ CanOpen(files[TailVhd]) /\ Kept(TailVhd) /\ vhd'[Tmp] = vhd[Tmp]
        /\ vhd'[TailVhd] = Opened(files'[TailVhd], flags, files[TailVhd].parent)
        /\ content' = OnDisk /\ recent' = Only(OnDisk)
    BY <1>0, <1>4 DEF OpensTail
  <2>2. files'[TailVhd] = files[TailVhd] /\ files'[Tmp] = files[Tmp]
    BY <1>0, <1>4, FilledType DEF OpensTail, Kept
  <2>3. files[TailVhd].kind = "diff"
    BY <2>1 DEF CanOpen, Struct, TailInv
  <2>4. /\ vhd'[TailVhd].open /\ vhd'[TailVhd].flags = flags
        /\ vhd'[TailVhd].parent = files[TailVhd].parent
        /\ vhd'[TailVhd].present = files[TailVhd].present
        /\ vhd'[TailVhd].bits = files[TailVhd].bits /\ vhd'[TailVhd].dirty = {}
    BY <2>1, <2>2 DEF Opened
  <2>5. CacheInv(TailVhd) /\ CacheInv(Tmp) /\ "PURE" \notin vhd[Tmp].flags
    BY <1>0 DEF Content, NotPure
  <2>6. Gains(TailVhd, {}) /\ OnFile(TailVhd)'
    BY <2>2, <2>3, <2>4, <2>5, <1>0, <1>2, OpenedGains
  <2>7. Gains(Tmp, {}) BY <2>1, <2>2, <2>5, <1>0, LeftAlone
  <2>8. NotPure' BY <2>1, <2>4, <2>5, <1>0 DEF NotPure
  <2>9. \A f \in Objects : CacheInv(f)' BY <2>6, <2>7, <1>0 DEF Gains
  <2>10. content' \in [Sectors -> Data] /\ recent' \in [Sectors -> SUBSET Data]
    <3>1. OnDisk \in [Sectors -> Data] BY DiskIsData
    <3> QED BY <3>1, <2>1 DEF Only
  <2>11. CopyInv(S)' /\ LinkedInv(S, base)' BY <1>1, <1>2, NothingToCopy
  <2>12. ASSUME Linked' PROVE Held(S, base)'
    <3>1. ChainKept BY <2>1, <1>0, KeptChain
    <3>2. Leads(files[TailVhd].parent)
      <4>1. PICK p : p = files[TailVhd].parent OBVIOUS
      <4>2. Leads(p)' <=> Leads(p) BY <3>1, ChainFrame DEF Struct
      <4>3. p = files'[TailVhd].parent /\ p = vhd'[TailVhd].parent BY <2>2, <2>4, <4>1
      <4>4. Leads(p)' BY <2>12, <4>3 DEF Linked, Leads
      <4> QED BY <4>1, <4>2, <4>4
    <3>3. Held(S, base) BY <2>3, <3>2 DEF Linked, Content, ContentInv
    <3>4. \A s \in Sectors :
            OnDisk[s] = IF s \in Bitmap(files[TailVhd]) THEN files[TailVhd].data[s] ELSE base[s]
      BY <2>3, <3>2, <3>3, FoundOnDisk
    <3>5. \A q \in S, s \in Sectors : Below(S, q, s)' = Below(S, q, s)
      <4>1. Path(S) BY DEF Struct
      <4>2. \A f \in S : files'[f] = files[f] BY <3>1, <4>1 DEF ChainKept, Path
      <4> QED BY <4>1, <4>2, PathFrame
    <3>6. \A s \in Sectors : s \in Cached(TailVhd)' <=> s \in Bitmap(files[TailVhd])
      BY <2>2, <2>6, <1>0 DEF OnFile
    <3>7. Cached(TailVhd)' \subseteq Sectors
      <4>1. \A f \in Objects, s \in Sectors : Cached(f)' \subseteq Sectors BY OwnIsNext
      <4> QED BY <4>1, <1>0, FirstSector
    <3>8. \A i \in Locators, s \in Sectors \ Bitmap(files'[TailVhd]) :
            TailLocs'[i] # NoName => Below(S, TailLocs[i], s)' = base[s]
      <4> SUFFICES ASSUME NEW i \in Locators, NEW s \in Sectors \ Bitmap(files'[TailVhd]),
                          TailLocs'[i] # NoName
                   PROVE  Below(S, TailLocs[i], s)' = base[s]
        OBVIOUS
      <4>1. PICK q : q = TailLocs'[i] OBVIOUS
      <4>2. TailLocs' = TailLocs BY <2>2 DEF TailLocs
      <4>3. q \in S BY <4>1, <4>2, <1>0 DEF Struct, TailInv
      <4>4. Below(S, q, s) = base[s] BY <4>1, <4>2, <2>2, <3>3 DEF Held
      <4>5. Below(S, q, s)' = base[s] BY <4>3, <4>4, <3>5
      <4> QED BY <4>1, <4>5 DEF Below
    <3>9. \A s \in Sectors : content'[s] = OnDisk[s] /\ recent'[s] = {OnDisk[s]}
      BY <2>1 DEF Only
    <3>10. \A s \in Sectors \ Bitmap(files'[TailVhd]) : base[s] \in recent'[s]
      BY <2>2, <3>4, <3>9
    <3>11. \A s \in Cached(TailVhd)' : files'[TailVhd].data[s] \in recent'[s]
      BY <2>2, <3>4, <3>6, <3>7, <3>9
    <3>12. \A s \in Sectors :
             content'[s] = IF s \in Cached(TailVhd)' THEN files'[TailVhd].data[s] ELSE base[s]
      BY <2>2, <3>4, <3>6, <3>9
    <3> QED BY <3>8, <3>10, <3>11, <3>12 DEF Held
  <2>13. ContentInv(S, base)'
    <3>1. call'.op = "none" BY <1>1, <1>2
    <3> QED BY <2>12, <3>1 DEF ContentInv
  <2> QED BY <2>8, <2>9, <2>10, <2>11, <2>13 DEF Content
<1> QED BY <1>3, <1>4, OpenDoes

(* A write to the tail: its file and its object gain the sector. *)
LEMMA WriteGains ==
  ASSUME TypeInv, TypeInv', NEW s \in Sectors, Writes(s), vhd[TailVhd].open, ~Pure(TailVhd),
         CacheInv(TailVhd)
  PROVE  /\ CacheInv(TailVhd)'
         /\ \A t \in Sectors :
              /\ t \in Bitmap(files[TailVhd]) => t \in Bitmap(files'[TailVhd])
              /\ t \in Cached(TailVhd)' <=> t \in Cached(TailVhd) \/ t = s
              /\ t \in Cached(TailVhd) /\ t # s =>
                   files'[TailVhd].data[t] = files[TailVhd].data[t]
         /\ files'[TailVhd].data[s] = New
<1>0. TailVhd \in Objects /\ TailVhd \in Names /\ vhd[TailVhd].dirty \subseteq vhd[TailVhd].present
  BY Fields
<1>b. PICK b, all : b = SectorToBlockNumber(s) /\ all = SectorsOf(b) OBVIOUS
<1>1. /\ \A t \in Sectors : t \in all <=> SectorToBlockNumber(t) = b
      /\ s \in all
  BY <1>b DEF SectorsOf
<1>2. PICK fresh \in BOOLEAN : fresh <=> b \notin vhd[TailVhd].present OBVIOUS
<1>3. PICK old : old = IF b \notin vhd[TailVhd].present THEN vhd[TailVhd].bits \ all
                       ELSE vhd[TailVhd].bits
  OBVIOUS
<1>4. /\ Kept(TailVhd) /\ ObjectKept(TailVhd) /\ files'[TailVhd].data[s] = New
      /\ \A t \in Sectors \ {s} : \/ b \notin vhd[TailVhd].present /\ t \in all
                                  \/ files'[TailVhd].data[t] = files[TailVhd].data[t]
      /\ files'[TailVhd].present = IF b \notin vhd[TailVhd].present THEN vhd[TailVhd].present \cup {b}
                                   ELSE files[TailVhd].present
      /\ vhd'[TailVhd].present = vhd[TailVhd].present \cup {b}
      /\ vhd'[TailVhd].bits = old \cup {s}
      /\ files'[TailVhd].bits = IF b \notin vhd[TailVhd].present THEN old \cup {s}
                                ELSE files[TailVhd].bits
      /\ vhd'[TailVhd].dirty = IF b \notin vhd[TailVhd].present THEN {}
                               ELSE IF all \subseteq old THEN vhd[TailVhd].dirty
                               ELSE vhd[TailVhd].dirty \cup {b}
  BY <1>b, <1>3 DEF Writes
<1>5. vhd'[TailVhd].open /\ files'[TailVhd].kind = files[TailVhd].kind
  BY <1>4 DEF Kept, SameFrame, ObjectKept
<1>6. /\ files[TailVhd].kind # "head" /\ files[TailVhd].present \subseteq vhd[TailVhd].present
      /\ \A t \in Sectors : SectorToBlockNumber(t) \in vhd[TailVhd].present =>
           /\ t \in files[TailVhd].bits => t \in vhd[TailVhd].bits
           /\ t \in vhd[TailVhd].bits /\ SectorToBlockNumber(t) \notin vhd[TailVhd].dirty =>
                t \in files[TailVhd].bits
  BY DEF CacheInv
<1>7. CacheInv(TailVhd)'
  <2>1. CASE b \notin vhd[TailVhd].present
    <3>1. /\ files'[TailVhd].present = vhd'[TailVhd].present /\ files'[TailVhd].bits = vhd'[TailVhd].bits
      BY <2>1, <1>4
    <3> QED BY <3>1, <1>5, <1>6 DEF CacheInv
  <2>2. CASE b \in vhd[TailVhd].present
    <3>1. /\ files'[TailVhd].present = files[TailVhd].present /\ files'[TailVhd].bits = files[TailVhd].bits
          /\ vhd'[TailVhd].present = vhd[TailVhd].present
          /\ vhd'[TailVhd].bits = vhd[TailVhd].bits \cup {s}
          /\ vhd'[TailVhd].dirty = IF all \subseteq vhd[TailVhd].bits THEN vhd[TailVhd].dirty
                                   ELSE vhd[TailVhd].dirty \cup {b}
      BY <2>2, <1>3, <1>4
    <3>2. ASSUME NEW t \in Sectors, SectorToBlockNumber(t) \in vhd'[TailVhd].present
          PROVE  /\ t \in files'[TailVhd].bits => t \in vhd'[TailVhd].bits
                 /\ t \in vhd'[TailVhd].bits /\ SectorToBlockNumber(t) \notin vhd'[TailVhd].dirty =>
                      t \in files'[TailVhd].bits
      <4>1. t = s => SectorToBlockNumber(t) = b BY <1>b
      <4>2. CASE all \subseteq vhd[TailVhd].bits
        <5>1. s \in vhd[TailVhd].bits BY <4>2, <1>1
        <5> QED BY <3>1, <3>2, <4>2, <5>1, <1>6
      <4>3. CASE ~(all \subseteq vhd[TailVhd].bits) BY <3>1, <3>2, <4>1, <4>3, <1>6
      <4> QED BY <4>2, <4>3
    <3> QED BY <3>1, <3>2, <1>5, <1>6 DEF CacheInv
  <2> QED BY <2>1, <2>2
<1>8. ASSUME NEW t \in Sectors
      PROVE  /\ t \in Bitmap(files[TailVhd]) => t \in Bitmap(files'[TailVhd])
             /\ t \in Cached(TailVhd)' <=> t \in Cached(TailVhd) \/ t = s
             /\ t \in Cached(TailVhd) /\ t # s =>
                  files'[TailVhd].data[t] = files[TailVhd].data[t]
  <2>1. /\ t \in Bitmap(files[TailVhd]) <=>
             t \in files[TailVhd].bits /\ SectorToBlockNumber(t) \in files[TailVhd].present
        /\ t \in Bitmap(files'[TailVhd]) <=>
             t \in files'[TailVhd].bits /\ SectorToBlockNumber(t) \in files'[TailVhd].present
    BY <1>0, <1>5, <1>6, OwnIs, OwnIsNext
  <2>2. /\ t \in Cached(TailVhd) <=>
             t \in vhd[TailVhd].bits /\ SectorToBlockNumber(t) \in vhd[TailVhd].present
        /\ t \in Cached(TailVhd)' <=>
             t \in vhd'[TailVhd].bits /\ SectorToBlockNumber(t) \in vhd'[TailVhd].present
    BY <1>0, <1>5, <1>6, OwnIs, OwnIsNext
  <2>3. t = s => SectorToBlockNumber(t) = b BY <1>b
  <2>4. t \in all <=> SectorToBlockNumber(t) = b BY <1>1
  <2>5. CASE b \notin vhd[TailVhd].present BY <2>1, <2>2, <2>3, <2>4, <2>5, <1>3, <1>4, <1>6
  <2>6. CASE b \in vhd[TailVhd].present BY <2>1, <2>2, <2>3, <2>4, <2>6, <1>3, <1>4, <1>6
  <2> QED BY <2>5, <2>6
<1> QED BY <1>4, <1>7, <1>8

(* VHD_WriteSectors: the client is to read what it wrote. *)
LEMMA WriteContent ==
  ASSUME TypeInv, TypeInv', NEW S, Struct(S), NEW base, Content(S, base), NEW s \in Writable,
         WriteSectors(s), content' = [content EXCEPT ![s] = New],
         recent' = [recent EXCEPT ![s] = @ \cup {New}]
  PROVE  Content(S, base)'
<1>0. Objects = {TailVhd, Tmp} /\ TailVhd # Tmp /\ TailVhd \in Objects /\ Tmp \in Objects
      /\ TailVhd \in Names /\ Tmp \in Names
  BY Fields DEF Objects
<1>1. s \in Sectors BY CallsAssumption
<1>2. Ready /\ Writes(s) /\ call' = call /\ handle' = handle BY WriteSectorsDoes
<1>3. vhd[TailVhd].open /\ call.op = "none" /\ call.pc = "none" BY <1>2, Constants DEF Ready
<1>4. ~Pure(TailVhd) /\ CacheInv(TailVhd) /\ CacheInv(Tmp) /\ NotPure
      /\ content \in [Sectors -> Data] /\ recent \in [Sectors -> SUBSET Data]
  BY <1>0 DEF Content, NotPure, Pure
<1>5. Kept(TailVhd) /\ ObjectKept(TailVhd) BY <1>2 DEF Writes
<1>6. /\ CacheInv(TailVhd)'
      /\ \A t \in Sectors :
           /\ t \in Bitmap(files[TailVhd]) => t \in Bitmap(files'[TailVhd])
           /\ t \in Cached(TailVhd)' <=> t \in Cached(TailVhd) \/ t = s
           /\ t \in Cached(TailVhd) /\ t # s => files'[TailVhd].data[t] = files[TailVhd].data[t]
      /\ files'[TailVhd].data[s] = New
  BY <1>1, <1>2, <1>3, <1>4, WriteGains
<1>7. vhd'[Tmp] = vhd[Tmp] /\ files'[Tmp] = files[Tmp] BY <1>0, <1>5 DEF Kept, ObjectKept
<1>8. Gains(Tmp, {}) BY <1>0, <1>4, <1>7, LeftAlone
<1>9. \A f \in Objects : CacheInv(f)' BY <1>0, <1>6, <1>8 DEF Gains
<1>10. NotPure' BY <1>0, <1>4, <1>5, <1>7 DEF NotPure, ObjectKept
<1>11. /\ content' \in [Sectors -> Data] /\ recent' \in [Sectors -> SUBSET Data]
       /\ \A t \in Sectors : /\ content'[t] = IF t = s THEN New ELSE content[t]
                             /\ recent[t] \subseteq recent'[t] /\ (t = s => New \in recent'[t])
  <2>1. New \in Data BY Constants
  <2> QED BY <2>1, <1>1, <1>4
<1>12. CopyInv(S)' /\ LinkedInv(S, base)' BY <1>2, <1>3, NothingToCopy
<1>13. ChainKept BY <1>0, <1>5, KeptChain
<1>14. ASSUME Linked' PROVE Held(S, base)'
  <2>1. Linked BY <1>2, <1>5, <1>13, <1>14, LinkedFramed DEF Kept, SameFrame, ObjectKept
  <2>2. /\ \A i \in Locators, t \in Sectors \ Bitmap(files[TailVhd]) :
             TailLocs[i] # NoName => Below(S, TailLocs[i], t) = base[t]
        /\ \A t \in Sectors \ Bitmap(files[TailVhd]) : base[t] \in recent[t]
        /\ \A t \in Cached(TailVhd) : files[TailVhd].data[t] \in recent[t]
        /\ handle => \A t \in Sectors :
             content[t] = IF t \in Cached(TailVhd) THEN files[TailVhd].data[t] ELSE base[t]
    BY <2>1 DEF Content, ContentInv, Held
  <2>3. \A q \in S, t \in Sectors : Below(S, q, t)' = Below(S, q, t)
    <3>1. Path(S) BY DEF Struct
    <3>2. \A f \in S : files'[f] = files[f] BY <1>13, <3>1 DEF ChainKept, Path
    <3> QED BY <3>1, <3>2, PathFrame
  <2>4. Cached(TailVhd)' \subseteq Sectors
    <3>1. \A f \in Objects, t \in Sectors : Cached(f)' \subseteq Sectors BY OwnIsNext
    <3> QED BY <3>1, <1>0, <1>1
  <2>5. \A i \in Locators, t \in Sectors \ Bitmap(files'[TailVhd]) :
          TailLocs'[i] # NoName => Below(S, TailLocs[i], t)' = base[t]
    <3> SUFFICES ASSUME NEW i \in Locators, NEW t \in Sectors \ Bitmap(files'[TailVhd]),
                        TailLocs'[i] # NoName
                 PROVE  Below(S, TailLocs[i], t)' = base[t]
      OBVIOUS
    <3>1. PICK q : q = TailLocs'[i] OBVIOUS
    <3>2. TailLocs' = TailLocs BY <1>13 DEF TailLocs, ChainKept
    <3>3. q \in S BY <3>1, <3>2 DEF Struct, TailInv
    <3>4. Below(S, q, t) = base[t] BY <3>1, <3>2, <1>6, <2>2
    <3>5. Below(S, q, t)' = base[t] BY <3>3, <3>4, <2>3
    <3> QED BY <3>1, <3>5 DEF Below
  <2>6. \A t \in Sectors \ Bitmap(files'[TailVhd]) : base[t] \in recent'[t]
    BY <1>6, <1>11, <2>2
  <2>7. ASSUME NEW t \in Cached(TailVhd)' PROVE files'[TailVhd].data[t] \in recent'[t]
    <3>1. t \in Sectors BY <2>4
    <3>2. CASE t = s BY <3>1, <3>2, <1>6, <1>11
    <3>3. CASE t # s BY <3>1, <3>3, <1>6, <1>11, <2>2
    <3> QED BY <3>2, <3>3
  <2>8. ASSUME NEW t \in Sectors
        PROVE  content'[t] = IF t \in Cached(TailVhd)' THEN files'[TailVhd].data[t] ELSE base[t]
    <3>1. handle BY <1>2 DEF Ready
    <3>2. CASE t = s BY <3>2, <1>6, <1>11
    <3>3. CASE t # s BY <3>1, <3>3, <1>6, <1>11, <2>2
    <3> QED BY <3>2, <3>3
  <2> QED BY <2>5, <2>6, <2>7, <2>8 DEF Held
<1>15. ContentInv(S, base)' BY <1>2, <1>3, <1>14 DEF ContentInv
<1> QED BY <1>9, <1>10, <1>11, <1>12, <1>15 DEF Content

(* What is flushed is there to stay. *)
LEMMA HeldFlushed ==
  ASSUME TypeInv, TypeInv', NEW S, Struct(S), NEW base, Held(S, base), handle, CacheInv(TailVhd),
         Gains(TailVhd, {}), OnFile(TailVhd)', ChainKept, content' = content,
         recent' = Only(content)
  PROVE  Held(S, base)'
<1>0. TailVhd \in Objects BY Fields
<1>1. ASSUME NEW s \in Sectors
      PROVE  /\ s \in Bitmap(files[TailVhd]) => s \in Bitmap(files'[TailVhd])
             /\ s \in Cached(TailVhd)' <=> s \in Cached(TailVhd)
             /\ s \in Cached(TailVhd)' <=> s \in Bitmap(files'[TailVhd])
             /\ s \in Cached(TailVhd) => files'[TailVhd].data[s] = files[TailVhd].data[s]
             /\ content'[s] = content[s] /\ recent'[s] = {content[s]}
             /\ content[s] = IF s \in Cached(TailVhd) THEN files[TailVhd].data[s] ELSE base[s]
  BY DEF Gains, OnFile, Held, Only
<1>2. Cached(TailVhd)' \subseteq Sectors
  <2>1. \A f \in Objects, s \in Sectors : Cached(f)' \subseteq Sectors BY OwnIsNext
  <2> QED BY <2>1, <1>0, FirstSector
<1>3. \A q \in S, s \in Sectors : Below(S, q, s)' = Below(S, q, s)
  <2>1. Path(S) BY DEF Struct
  <2>2. \A f \in S : files'[f] = files[f] BY <2>1 DEF ChainKept, Path
  <2> QED BY <2>1, <2>2, PathFrame
<1>4. \A i \in Locators, s \in Sectors \ Bitmap(files'[TailVhd]) :
        TailLocs'[i] # NoName => Below(S, TailLocs[i], s)' = base[s]
  <2> SUFFICES ASSUME NEW i \in Locators, NEW s \in Sectors \ Bitmap(files'[TailVhd]),
                      TailLocs'[i] # NoName
               PROVE  Below(S, TailLocs[i], s)' = base[s]
    OBVIOUS
  <2>1. PICK q : q = TailLocs'[i] OBVIOUS
  <2>2. TailLocs' = TailLocs BY DEF TailLocs, ChainKept
  <2>3. q \in S BY <2>1, <2>2 DEF Struct, TailInv
  <2>4. Below(S, q, s) = base[s] BY <2>1, <2>2, <1>1 DEF Held
  <2>5. Below(S, q, s)' = base[s] BY <2>3, <2>4, <1>3
  <2> QED BY <2>1, <2>5 DEF Below
<1>5. \A s \in Sectors \ Bitmap(files'[TailVhd]) : base[s] \in recent'[s] BY <1>1
<1>6. \A s \in Cached(TailVhd)' : files'[TailVhd].data[s] \in recent'[s] BY <1>1, <1>2
<1>7. \A s \in Sectors :
        content'[s] = IF s \in Cached(TailVhd)' THEN files'[TailVhd].data[s] ELSE base[s]
  BY <1>1
<1> QED BY <1>4, <1>5, <1>6, <1>7 DEF Held

(* Between calls, when the objects and the links stay as they are or are dropped. *)
LEMMA IdleContent ==
  ASSUME TypeInv, TypeInv', NEW S, Struct(S), NEW base, Content(S, base), call = NoCall,
         call' = NoCall, CacheInv(TailVhd)', vhd'[Tmp] = vhd[Tmp], files'[Tmp] = files[Tmp],
         "PURE" \notin vhd'[TailVhd].flags, content' = content,
         recent' = recent \/ recent' = Only(content), ChainKept,
         files'[TailVhd].parent = files[TailVhd].parent,
         handle' => handle /\ vhd'[TailVhd].parent = vhd[TailVhd].parent,
         Linked /\ Held(S, base) => Held(S, base)'
  PROVE  Content(S, base)'
<1>0. Objects = {TailVhd, Tmp} /\ Tmp \in Objects BY Fields DEF Objects
<1>1. call.op = "none" /\ call'.op = "none" /\ call'.pc = "none" BY Constants
<1>2. CacheInv(Tmp) /\ "PURE" \notin vhd[Tmp].flags /\ content \in [Sectors -> Data]
      /\ recent \in [Sectors -> SUBSET Data]
  BY <1>0 DEF Content, NotPure
<1>3. Gains(Tmp, {}) BY <1>0, <1>2, LeftAlone
<1>4. \A f \in Objects : CacheInv(f)' BY <1>0, <1>3 DEF Gains
<1>5. NotPure' BY <1>0, <1>2 DEF NotPure
<1>6. content' \in [Sectors -> Data] /\ recent' \in [Sectors -> SUBSET Data] BY <1>2 DEF Only
<1>7. CopyInv(S)' /\ LinkedInv(S, base)' BY <1>1, NothingToCopy
<1>8. Linked' => Linked BY LinkedFramed
<1>9. Linked => Held(S, base) BY DEF Content, ContentInv
<1>10. ContentInv(S, base)' BY <1>1, <1>8, <1>9 DEF ContentInv
<1> QED BY <1>4, <1>5, <1>6, <1>7, <1>10 DEF Content

(* VHD_Flush. *)
LEMMA FlushContent ==
  ASSUME TypeInv, TypeInv', NEW S, Struct(S), NEW base, Content(S, base), Flush,
         recent' = IF reply' = "ok" THEN Only(content) ELSE recent, content' = content
  PROVE  Content(S, base)'
<1>0. TailVhd \in Objects /\ Tmp \in Objects /\ TailVhd # Tmp /\ Tmp \in Names BY Fields
<1>1. /\ handle /\ vhd[TailVhd].open /\ call = NoCall /\ call' = NoCall /\ handle' = handle
      /\ \/ FlushOk(TailVhd) /\ reply' = "ok"
         \/ FlushFails(TailVhd) /\ reply' = "error"
  BY DEF Flush, Ready, Refuse
<1>2. CacheInv(TailVhd) /\ "PURE" \notin vhd[TailVhd].flags BY <1>0 DEF Content, NotPure
<1>3. PICK D \in SUBSET vhd[TailVhd].dirty, table \in {vhd[TailVhd].present, files[TailVhd].present} :
        /\ WroteBack(TailVhd, D, table) /\ Cleaned(TailVhd, D)
        /\ reply' = "ok" => D = vhd[TailVhd].dirty /\ table = vhd[TailVhd].present
  <2>1. CASE FlushOk(TailVhd) /\ reply' = "ok" BY <2>1, <1>0, FlushesOk
  <2>2. CASE FlushFails(TailVhd) /\ reply' = "error" BY <2>2, <1>0, FlushesPartly
  <2> QED BY <2>1, <2>2, <1>1
<1>4. /\ Gains(TailVhd, {})
      /\ D = vhd[TailVhd].dirty /\ table = vhd[TailVhd].present => OnFile(TailVhd)'
  BY <1>0, <1>1, <1>2, <1>3, FlushGains
<1>5. Kept(TailVhd) /\ vhd'[Tmp] = vhd[Tmp] /\ vhd'[TailVhd].flags = vhd[TailVhd].flags
      /\ vhd'[TailVhd].parent = vhd[TailVhd].parent
  BY <1>0, <1>3 DEF WroteBack, Cleaned, Kept
<1>6. files'[Tmp] = files[Tmp] /\ files'[TailVhd].parent = files[TailVhd].parent
  BY <1>0, <1>5 DEF Kept, SameFrame
<1>7. ChainKept BY <1>0, <1>5, KeptChain
<1>8. CacheInv(TailVhd)' BY <1>4 DEF Gains
<1>9. ASSUME Held(S, base) PROVE Held(S, base)'
  <2>1. CASE reply' = "ok"
    <3>1. OnFile(TailVhd)' BY <2>1, <1>3, <1>4
    <3>2. recent' = Only(content) BY <2>1
    <3> QED BY <3>1, <3>2, <1>1, <1>2, <1>4, <1>7, <1>9, HeldFlushed
  <2>2. CASE reply' # "ok"
    <3>1. UNCHANGED <<content, recent>> BY <2>2
    <3>2. ValuesKept({}, base) BY DEF ValuesKept
    <3>3. TailLocs' = TailLocs /\ \A f \in S : files'[f] = files[f]
      BY <1>7 DEF ChainKept, Struct, Path, TailLocs
    <3>4. Path(S) /\ TailInv(S) BY DEF Struct
    <3> QED BY <3>1, <3>2, <3>3, <3>4, <1>1, <1>2, <1>4, <1>9, HeldFramed
  <2> QED BY <2>1, <2>2
<1> QED BY <1>1, <1>2, <1>5, <1>6, <1>7, <1>8, <1>9, IdleContent

(* An object that is dropped when it was not open. *)
LEMMA StaysClosed ==
  ASSUME TypeInv, TypeInv', NEW f \in Objects, ~vhd[f].open, ~vhd'[f].open, vhd'[f].dirty = {},
         files'[f] = files[f]
  PROVE  Gains(f, {}) /\ OnFile(f)'
<1>1. CacheInv(f)' BY DEF CacheInv
<1>2. \A s \in Sectors : /\ s \in Cached(f) <=> s \in Bitmap(files[f])
                         /\ s \in Cached(f)' <=> s \in Bitmap(files'[f])
  BY OwnIs, OwnIsNext
<1> QED BY <1>1, <1>2 DEF Gains, OnFile

(* VHD_Close. *)
LEMMA CloseContent ==
  ASSUME TypeInv, TypeInv', NEW S, Struct(S), NEW base, Content(S, base), Close,
         recent' = IF reply' = "ok" THEN Only(content) ELSE recent, content' = content
  PROVE  Content(S, base)'
<1>0. TailVhd \in Objects /\ Tmp \in Objects /\ TailVhd # Tmp /\ Tmp \in Names /\ TailVhd \in Names
  BY Fields
<1>1. handle /\ call = NoCall /\ call' = NoCall /\ handle' = FALSE /\ Kept(TailVhd) BY CloseDoes
<1>2. CacheInv(TailVhd) BY <1>0 DEF Content
<1>3. files'[Tmp] = files[Tmp] /\ files'[TailVhd].parent = files[TailVhd].parent
  BY <1>0, <1>1 DEF Kept, SameFrame
<1>4. ChainKept BY <1>0, <1>1, KeptChain
<1>5. CASE /\ reply' = "ok" /\ vhd' = [vhd EXCEPT ![TailVhd] = Closed]
           /\ \/ vhd[TailVhd].open /\ WroteBack(TailVhd, vhd[TailVhd].dirty, vhd[TailVhd].present)
              \/ ~vhd[TailVhd].open /\ files' = files
  <2>1. /\ vhd'[TailVhd] = Closed /\ vhd'[Tmp] = vhd[Tmp]
    BY <1>0, <1>5, Constants, OneObject
  <2>2. ~vhd'[TailVhd].open /\ vhd'[TailVhd].dirty = {} /\ "PURE" \notin vhd'[TailVhd].flags
    BY <2>1, Constants
  <2>3. Gains(TailVhd, {}) /\ OnFile(TailVhd)'
    <3>1. CASE vhd[TailVhd].open
      <4>1. PICK D \in SUBSET vhd[TailVhd].dirty,
                 table \in {vhd[TailVhd].present, files[TailVhd].present} :
              D = vhd[TailVhd].dirty /\ table = vhd[TailVhd].present
        OBVIOUS
      <4>2. WroteBack(TailVhd, D, table) BY <3>1, <4>1, <1>5
      <4> QED BY <3>1, <4>1, <4>2, <2>2, <1>0, <1>2, ClosingSheds
    <3>2. CASE ~vhd[TailVhd].open BY <3>2, <1>0, <1>5, <2>2, StaysClosed
    <3> QED BY <3>1, <3>2
  <2>4. CacheInv(TailVhd)' BY <2>3 DEF Gains
  <2>5. recent' = Only(content) BY <1>5
  <2>6. ASSUME Held(S, base) PROVE Held(S, base)'
    BY <2>3, <2>5, <2>6, <1>1, <1>2, <1>4, HeldFlushed
  <2> QED BY <2>1, <2>2, <2>4, <2>5, <2>6, <1>1, <1>3, <1>4, IdleContent
<1>6. CASE /\ reply' = "died" /\ vhd' = [g \in Objects |-> Closed]
           /\ \E D \in SUBSET vhd[TailVhd].dirty,
                 table \in {vhd[TailVhd].present, files[TailVhd].present} :
                /\ WroteBack(TailVhd, D, table)
                /\ D # vhd[TailVhd].dirty \/ table # vhd[TailVhd].present
  <2>1. PICK D \in SUBSET vhd[TailVhd].dirty,
             table \in {vhd[TailVhd].present, files[TailVhd].present} :
                /\ WroteBack(TailVhd, D, table)
                /\ D # vhd[TailVhd].dirty \/ table # vhd[TailVhd].present
    BY <1>6
  <2>2. vhd'[TailVhd] = Closed BY <1>0, <1>6
  <2>3. ~vhd'[TailVhd].open /\ vhd'[TailVhd].dirty = {} BY <2>2, Constants
  <2>4. Sheds(TailVhd)
    <3>1. CASE vhd[TailVhd].open BY <3>1, <2>1, <2>3, <1>0, <1>2, ClosingSheds
    <3>2. CASE ~vhd[TailVhd].open
      <4>1. vhd[TailVhd].dirty = {} BY <3>2, <1>2 DEF CacheInv
      <4>2. D = {} /\ table = files[TailVhd].present BY <4>1, <2>1
      <4>3. /\ files'[TailVhd].kind = files[TailVhd].kind /\ files'[TailVhd].data = files[TailVhd].data
            /\ files'[TailVhd].present = files[TailVhd].present
            /\ \A s \in Sectors : s \in files'[TailVhd].bits <=> s \in files[TailVhd].bits
        BY <4>2, <2>1 DEF WroteBack, SameFrame
      <4>4. files[TailVhd].bits \subseteq Sectors BY <1>0, Fields
      <4>5. files'[TailVhd].bits \subseteq Sectors BY <1>0 DEF TypeInv, Vhds
      <4>6. files'[TailVhd].bits = files[TailVhd].bits BY <4>3, <4>4, <4>5
      <4> QED BY <4>3, <4>6, <2>3, <1>0, <1>2, DeathSheds
    <3> QED BY <3>1, <3>2
  <2>5. UNCHANGED <<content, recent>> BY <1>6
  <2> QED BY <2>4, <2>5, <1>1, <1>3, <1>4, <1>6, DeathContent
<1> QED BY <1>5, <1>6, CloseDoes

(* The process dies between two steps. *)
LEMMA ProcessDiesContent ==
  ASSUME TypeInv, TypeInv', NEW S, Struct(S), NEW base, Content(S, base), ProcessDies,
         UNCHANGED <<content, recent>>
  PROVE  Content(S, base)'
<1>0. TailVhd \in Objects BY Fields
<1>1. files' = files /\ handle' = FALSE /\ vhd' = [g \in Objects |-> Closed] /\ call' = NoCall
  BY DEF ProcessDies, Return
<1>2. vhd'[TailVhd] = Closed /\ CacheInv(TailVhd) BY <1>0, <1>1 DEF Content
<1>3. ~vhd'[TailVhd].open /\ vhd'[TailVhd].dirty = {} BY <1>2, Constants
<1>4. Sheds(TailVhd) BY <1>0, <1>1, <1>2, <1>3, DeathSheds
<1>5. ChainKept BY <1>1 DEF ChainKept
<1> QED BY <1>1, <1>4, <1>5, DeathContent

(* VHD_CoalesceChain begins, with nothing copied yet. *)
LEMMA CoalesceChainContent ==
  ASSUME TypeInv, TypeInv', NEW S, Struct(S), NEW base, Content(S, base), NEW args \in Args,
         CoalesceChain(args), UNCHANGED <<content, recent>>
  PROVE  Content(S, base)'
<1>0. TailVhd # Tmp BY Fields
<1>1. /\ UNCHANGED <<files, handle, vhd>> /\ call = NoCall /\ handle
      /\ \/ call' = call
         \/ /\ files[TailVhd].kind = "diff" /\ Leads(vhd[TailVhd].parent)
            /\ StartsIntoTail(S) \/ StartsSafely(S)
  BY CoalesceChainStarts
<1>2. CASE call' = call BY <1>1, <1>2, ContentStays
<1>3. CASE /\ files[TailVhd].kind = "diff" /\ Leads(vhd[TailVhd].parent)
           /\ StartsIntoTail(S) \/ StartsSafely(S)
  <2>1. Linked BY <1>1, <1>3 DEF Linked
  <2>2. Held(S, base) BY <2>1 DEF Content, ContentInv
  <2>3. /\ NotPure' <=> NotPure
        /\ (\A f \in Objects : CacheInv(f)') <=> \A f \in Objects : CacheInv(f)
        /\ Held(S, base)' <=> Held(S, base)
    BY <1>1, ContentStays
  <2>4. CopyInv(S)' /\ LinkedInv(S, base)'
    <3>1. CASE StartsIntoTail(S)
      <4>1. call'.op = "intoTail" /\ call'.pc = "block" /\ call'.to = TailVhd /\ call'.block = 0
            /\ call'.todo = {}
            /\ Ahead(S, vhd[TailVhd].parent, call'.len, call'.parent)
        BY <3>1 DEF StartsIntoTail
      <4>2. LengthInv(S)'
        <5>1. PICK q : q = vhd[TailVhd].parent OBVIOUS
        <5>2. Lower' = q BY <4>1, <5>1, <1>0, <1>1 DEF Lower
        <5>3. Ahead(S, q, call'.len, call'.parent) BY <4>1, <5>1
        <5> QED BY <5>2, <5>3 DEF LengthInv, Ahead, Enumerates, Follows
      <4>3. \A s \in Sectors : ~Visited(s)'
        <5> SUFFICES ASSUME NEW s \in Sectors, SectorToBlockNumber(s) < 0 PROVE FALSE
          BY <4>1 DEF Visited
        <5>1. SectorToBlockNumber(s) \in Nat BY BlockOfSector DEF Blocks
        <5> QED BY <5>1
      <4> QED BY <4>1, <4>2, <4>3 DEF CopyInv, LinkedInv, LinkPcs, CopyPcs
    <3>2. CASE StartsSafely(S)
      <4>1. call'.op = "safely" /\ call'.pc = "create" /\ call'.block = 0 /\ call'.todo = {}
        BY <3>2 DEF StartsSafely
      <4> QED BY <4>1 DEF CopyInv, LinkedInv, LinkPcs, CopyPcs, TmpPcs
    <3> QED BY <3>1, <3>2, <1>3
  <2> QED BY <2>2, <2>3, <2>4 DEF Content, ContentInv
<1> QED BY <1>1, <1>2, <1>3
-----------------------------------------------------------------------------
(***************************************************************************)
(* The content of the disk                                                 *)
(***************************************************************************)

\* What the content is as long as no session is pure.
DiskInv ==
    /\ TypeInv
    /\ \E S \in SUBSET (1 .. NumDiffs) : Struct(S) /\ \E base : Content(S, base)

(* At first the content is that of the files, and no object is there. *)
LEMMA InitContent ==
  ASSUME HistoryInit
  PROVE  DiskInv
<1>0. TypeInv BY InitStruct DEF HistoryInit, StructInv
<1>1. PICK S \in SUBSET (1 .. NumDiffs) : Struct(S) BY InitStruct DEF HistoryInit, StructInv
<1>2. /\ handle = FALSE /\ vhd = [f \in Objects |-> Closed] /\ call = NoCall
      /\ content = OnDisk /\ recent = Only(OnDisk)
  BY DEF HistoryInit, Init
<1>3. ParentNamed BY InitNamed DEF HistoryInit
<1>4. \A f \in Objects : vhd[f] = Closed BY <1>2
<1>5. TailVhd \in Objects /\ call.op = "none" /\ call.pc = "none" /\ ~vhd[TailVhd].open
  BY <1>0, <1>2, <1>4, Fields, Constants
<1>6. PICK v, q : v = files[TailVhd] /\ q = files[TailVhd].parent OBVIOUS
<1>7. v.kind = "diff" /\ v.locs = TailLocs /\ v.parent = q /\ v.parent \in 0 .. NoUuid
      /\ \A i \in Locators : TailLocs[i] = q
  BY <1>0, <1>3, <1>6, Fields DEF ParentNamed, TailLocs
<1>8. q \in S /\ Leads(q)
  <2>1. 1 \in Locators /\ NoName \notin 0 .. NoUuid BY NamesAreNumbers
  <2>2. q \in S BY <2>1, <1>1, <1>7 DEF Struct, TailInv
  <2>3. q <= q
    <3>1. q \in Nat BY <2>2, <1>1, NamesAreNumbers
    <3> QED BY <3>1
  <2> QED BY <2>1, <2>2, <2>3, <1>7 DEF Leads
<1>9. OpenParentVHD(v) = q /\ CanOpen(v) BY <1>1, <1>7, <1>8, TailParent DEF Struct
<1>10. \A s \in Sectors : OnDisk[s] = IF s \in Bitmap(v) THEN v.data[s] ELSE Below(S, q, s)
  <2>1. v.kind # "head" /\ OpenParentVHD(v) \in S BY <1>7, <1>8, <1>9
  <2>2. Contents(v, FALSE) = [s \in Sectors |-> IF s \in Bitmap(v) THEN v.data[s]
                                               ELSE Below(S, OpenParentVHD(v), s)]
    BY <2>1, <1>1, ContentsOfPath DEF Struct
  <2>3. ASSUME NEW s \in Sectors
        PROVE  Contents(v, FALSE)[s] = IF s \in Bitmap(v) THEN v.data[s]
                                       ELSE Below(S, OpenParentVHD(v), s)
    BY <2>2
  <2>4. OnDisk = Contents(v, FALSE) BY <1>6, <1>9 DEF OnDisk
  <2> QED BY <2>3, <2>4, <1>9
<1>11. PICK base : base = [s \in Sectors |-> Below(S, q, s)] OBVIOUS
<1>12. Held(S, base)
  <2>1. \A s \in Sectors : base[s] = Below(S, q, s) BY <1>11
  <2>2. \A s \in Sectors : recent[s] = {OnDisk[s]} BY <1>2 DEF Only
  <2>3. \A s \in Sectors : s \in Cached(TailVhd) <=> s \in Bitmap(v)
    BY <1>0, <1>5, <1>6, OwnIs
  <2>4. Cached(TailVhd) \subseteq Sectors BY <1>0, <1>5, OwnIs, FirstSector
  <2>5. \A s \in Sectors \ Bitmap(files[TailVhd]) : base[s] \in recent[s]
    BY <2>1, <2>2, <1>6, <1>10
  <2>6. \A s \in Cached(TailVhd) : files[TailVhd].data[s] \in recent[s]
    BY <2>2, <2>3, <2>4, <1>6, <1>10
  <2>7. \A i \in Locators, s \in Sectors \ Bitmap(files[TailVhd]) :
          TailLocs[i] # NoName => Below(S, TailLocs[i], s) = base[s]
    BY <2>1, <1>7
  <2> QED BY <2>5, <2>6, <2>7, <1>2 DEF Held
<1>13. OnDisk \in [Sectors -> Data] BY <1>0, DiskIsData
<1>14. content \in [Sectors -> Data] /\ recent \in [Sectors -> SUBSET Data]
  BY <1>2, <1>13 DEF Only
<1>15. NotPure BY <1>4, Constants DEF NotPure
<1>16. \A f \in Objects : CacheInv(f) BY <1>4, Constants DEF CacheInv
<1>17. ContentInv(S, base) BY <1>12 DEF ContentInv
<1>18. CopyInv(S) /\ LinkedInv(S, base)
  BY <1>5 DEF CopyInv, LinkedInv, CopyPcs, LinkPcs, TmpPcs
<1>19. Content(S, base) BY <1>14, <1>15, <1>16, <1>17, <1>18 DEF Content
<1> QED BY <1>0, <1>1, <1>19 DEF DiskInv

(* The steps of a call. *)
LEMMA StepContent ==
  ASSUME DiskInv, Step, ~Misreads, UNCHANGED <<content, recent>>
  PROVE  DiskInv'
<1>1. TypeInv BY DEF DiskInv
<1>2. PICK S \in SUBSET (1 .. NumDiffs) : Struct(S) /\ \E base : Content(S, base) BY DEF DiskInv
<1>3. PICK base : Content(S, base) BY <1>2
<1>4. call.op # "none"
  <2>1. call.pc # "none"
    BY DEF Step, CreateTmp, GenerateTmp, GiveUp, CoalesceBlock, AppendBlock, CopyExtent, FlushBits,
        Detach, WriteLocator, WriteHeader, FlushTmp, CloseTail, Rename, Reopen, UnlinkStrays
  <2> QED BY <2>1, <1>1, <1>2, StepOfCall
<1>5. SUFFICES TypeInv' /\ \E T \in SUBSET (1 .. NumDiffs) : Struct(T)' /\ Content(T, base)'
  BY NamesAreNumbers DEF DiskInv
<1>6. CASE CreateTmp
  <2>1. TypeInv' /\ Struct(S)' BY <1>1, <1>2, <1>6, CreateTmpKeeps
  <2> QED BY <2>1, <1>1, <1>2, <1>3, <1>4, <1>6, CreateTmpContent
<1>7. CASE GenerateTmp
  <2>1. TypeInv' /\ Struct(S)' BY <1>1, <1>2, <1>7, GenerateTmpKeeps
  <2> QED BY <2>1, <1>1, <1>2, <1>3, <1>4, <1>7, GenerateTmpContent
<1>8. CASE GiveUp
  <2>1. TypeInv' /\ Struct(S)' BY <1>1, <1>2, <1>8, GiveUpKeeps
  <2> QED BY <2>1, <1>1, <1>2, <1>3, <1>4, <1>8, GiveUpContent
<1>9. CASE CoalesceBlock \/ AppendBlock \/ CopyExtent \/ FlushBits \/ Detach
  <2>1. CopyOutcome /\ call.pc \in CopyPcs BY <1>1, <1>2, <1>9, CopyStep
  <2>2. TypeInv' /\ Struct(S)' BY <2>1, <1>1, <1>2, <1>4, CopyingKeeps
  <2>3. Content(S, base)'
    BY <2>2, <1>1, <1>2, <1>3, <1>4, <1>9, CoalesceBlockContent, AppendBlockContent,
       CopyExtentContent, FlushBitsContent, DetachContent
  <2> QED BY <2>2, <2>3, <1>2
<1>10. CASE WriteLocator
  <2>1. TypeInv' /\ Struct(S)' BY <1>1, <1>2, <1>10, WriteLocatorKeeps
  <2>2. CASE call.op = "safely"
    BY <2>1, <2>2, <1>1, <1>2, <1>3, <1>10, TmpLocatorContent
  <2>3. CASE call.op = "intoTail"
    BY <2>1, <2>3, <1>1, <1>2, <1>3, <1>10, TailLocatorContent
  <2> QED BY <2>2, <2>3, <1>2, <1>4 DEF Struct, CallInv
<1>11. CASE WriteHeader
  <2>1. PICK T \in SUBSET (1 .. NumDiffs) :
          /\ TypeInv' /\ Struct(T)'
          /\ T = S \/ (call.op = "intoTail" /\ T = {f \in S : call.parent <= f})
    BY <1>1, <1>2, <1>11, WriteHeaderKeeps
  <2>2. CASE call.op = "safely"
    <3>1. T = S BY <2>1, <2>2
    <3>2. Content(S, base)' BY <2>1, <2>2, <1>1, <1>2, <1>3, <1>11, TmpHeaderContent
    <3> QED BY <2>1, <3>1, <3>2
  <2>3. CASE call.op = "intoTail"
    BY <2>1, <2>3, <1>1, <1>2, <1>3, <1>11, TailHeaderContent
  <2> QED BY <2>2, <2>3, <1>2, <1>4 DEF Struct, CallInv
<1>12. CASE FlushTmp
  <2>1. TypeInv' /\ Struct(S)' BY <1>1, <1>2, <1>12, FlushTmpKeeps
  <2> QED BY <2>1, <1>1, <1>2, <1>3, <1>4, <1>12, FlushTmpContent
<1>13. CASE CloseTail
  <2>1. TypeInv' /\ Struct(S)' BY <1>1, <1>2, <1>13, CloseTailKeeps
  <2> QED BY <2>1, <1>1, <1>2, <1>3, <1>4, <1>13, CloseTailContent
<1>14. CASE Rename
  <2>1. PICK T \in SUBSET (1 .. NumDiffs) :
          /\ TypeInv' /\ Struct(T)'
          /\ \/ T = S /\ call' = NoCall
             \/ /\ GoesOn("reopen") /\ Renames(files[Tmp].uuid)
                /\ T = {f \in S : f <= files[Tmp].uuid \/ call.parent <= f}
    BY <1>1, <1>2, <1>14, RenameKeeps
  <2> QED BY <2>1, <1>1, <1>2, <1>3, <1>4, <1>14, RenameContent
<1>15. CASE Reopen
  <2>1. TypeInv' /\ Struct(S)' BY <1>1, <1>2, <1>15, ReopenKeeps
  <2> QED BY <2>1, <1>1, <1>2, <1>3, <1>4, <1>15, ReopenContent
<1>16. CASE UnlinkStrays
  <2>1. TypeInv' /\ Struct(S)' BY <1>1, <1>2, <1>16, UnlinkKeeps
  <2> QED BY <2>1, <1>1, <1>2, <1>3, <1>4, <1>16, UnlinkContent
<1> QED
  BY <1>6, <1>7, <1>8, <1>9, <1>10, <1>11, <1>12, <1>13, <1>14, <1>15, <1>16 DEF Step

(* Every step that does not misread, of a client none of whose sessions is pure. *)
LEMMA DiskStep ==
  ASSUME DiskInv, [HistoryNext /\ ~Misreads]_historyVars, \A mode \in Modes : "PURE" \notin mode
  PROVE  DiskInv'
<1>1. TypeInv BY DEF DiskInv
<1>2. PICK S \in SUBSET (1 .. NumDiffs) : Struct(S) /\ \E base : Content(S, base) BY DEF DiskInv
<1>3. PICK base : Content(S, base) BY <1>2
<1>4. CASE Step /\ ~Misreads /\ UNCHANGED <<content, recent>> BY <1>4, StepContent
<1>5. SUFFICES ASSUME ~(Step /\ ~Misreads /\ UNCHANGED <<content, recent>>)
               PROVE  TypeInv' /\ Struct(S)' /\ Content(S, base)'
  BY <1>2, <1>4, NamesAreNumbers DEF DiskInv
<1>6. CASE HistoryOpen
  <2>1. PICK flags \in Modes : Open(flags) BY <1>6 DEF HistoryOpen
  <2>2. TypeInv' /\ Struct(S)' BY <2>1, <1>1, <1>2, OpenKeeps
  <2>3. IF handle' THEN content' = OnDisk /\ recent' = Only(OnDisk) ELSE UNCHANGED <<content, recent>>
    BY <1>6 DEF HistoryOpen
  <2>4. "PURE" \notin flags BY <2>1
  <2> QED BY <2>1, <2>2, <2>3, <2>4, <1>1, <1>2, <1>3, OpenContent
<1>7. CASE HistoryWrite
  <2>1. PICK s \in Writable : /\ WriteSectors(s) /\ content' = [content EXCEPT ![s] = New]
                              /\ recent' = [recent EXCEPT ![s] = @ \cup {New}]
    BY <1>7 DEF HistoryWrite
  <2>2. TypeInv' /\ Struct(S)' BY <2>1, <1>1, <1>2, ClientKeeps
  <2> QED BY <2>1, <2>2, <1>1, <1>2, <1>3, WriteContent
<1>8. CASE HistoryFlush
  <2>1. /\ Flush \/ Close
        /\ recent' = IF reply' = "ok" THEN Only(content) ELSE recent
        /\ content' = content
    BY <1>8 DEF HistoryFlush
  <2>2. TypeInv' /\ Struct(S)' BY <2>1, <1>1, <1>2, ClientKeeps
  <2> QED BY <2>1, <2>2, <1>1, <1>2, <1>3, FlushContent, CloseContent
<1>9. CASE ProcessDies /\ UNCHANGED <<content, recent>>
  <2>1. TypeInv' /\ Struct(S)' BY <1>9, <1>1, <1>2, ClientKeeps
  <2> QED BY <2>1, <1>1, <1>2, <1>3, <1>9, ProcessDiesContent
<1>10. CASE (\E args \in Args : CoalesceChain(args)) /\ UNCHANGED <<content, recent>>
  <2>1. PICK args \in Args : CoalesceChain(args) BY <1>10
  <2>2. TypeInv' /\ Struct(S)' BY <2>1, <1>1, <1>2, CoalesceChainKeeps
  <2> QED BY <2>1, <2>2, <1>1, <1>2, <1>3, <1>10, CoalesceChainContent
<1>11. CASE UNCHANGED historyVars
  <2>1. UNCHANGED <<files, handle, vhd, call, reply, content, recent>>
    BY <1>11 DEF historyVars, vars
  <2>2. TypeInv' BY <2>1, <1>1 DEF TypeInv
  <2>3. Content(S, base)' BY <2>1, <1>3, ContentStays
  <2>4. Struct(S)' BY <2>1, <1>2, StructStays
  <2> QED BY <2>2, <2>3, <2>4
<1> QED BY <1>5, <1>6, <1>7, <1>8, <1>9, <1>10, <1>11 DEF HistoryNext, HistoryStep

(* As long as no session is pure and no extent was misread, the content has its inductive *)
(* invariant.                                                                            *)
LEMMA DiskInvariant ==
  ASSUME \A mode \in Modes : "PURE" \notin mode
  PROVE  HistorySpec => [](misread \/ DiskInv)
<1>1. HistoryInit => misread \/ DiskInv BY InitContent
<1>2. (misread \/ DiskInv) /\ [HistoryNext]_historyVars => (misread \/ DiskInv)'
  <2> SUFFICES ASSUME misread \/ DiskInv, [HistoryNext]_historyVars, ~misread'
               PROVE  DiskInv'
    OBVIOUS
  <2>1. CASE HistoryNext
    <3>1. misread' = (misread \/ Misreads) BY <2>1 DEF HistoryNext
    <3>2. ~misread /\ ~Misreads BY ONLY <3>1, ~misread', Zenon
    <3> QED BY <2>1, <3>2, DiskStep
  <2>2. CASE UNCHANGED historyVars
    <3>1. misread' = misread BY <2>2 DEF historyVars
    <3>2. ~misread BY <3>1
    <3> QED BY <2>2, <3>2, DiskStep
  <2> QED BY <2>1, <2>2
<1> QED BY <1>1, <1>2, PTL DEF HistorySpec

(* A file or object of the tail whose parents can be opened: its parent is in the path. *)
LEMMA ReadsThrough ==
  ASSUME NEW S, Path(S), TailInv(S), NEW v, v.locs = TailLocs, v.kind = "diff",
         v.parent \in 0 .. NoUuid, Complete(ParentsOf(v))
  PROVE  Leads(v.parent) /\ v.parent \in S /\ OpenParentVHD(v) = v.parent
<1>1. ParentsOf(v) # << >> BY DEF Complete
<1>2. OpenParentVHD(v) # NoName BY <1>1, ParentsShape
<1>3. Leads(v.parent) /\ OpenParentVHD(v) = v.parent BY <1>2, TailParent
<1>4. v.parent \in S BY <1>3, TailParent
<1> QED BY <1>3, <1>4

(* Whatever has happened, also a call that failed half-way or a process that died: if the chain *)
(* can be opened, it holds what the client wrote and flushed, and of what it did not flush      *)
(* yet one of the values written, until an extent is copied that a file of the chain holds a    *)
(* part of (CoalesceHistory.DiskKeepsContent).                                                  *)
THEOREM DiskIsKept ==
  ASSUME \A mode \in Modes : "PURE" \notin mode
  PROVE  HistorySpec => []DiskKeepsContent
<1>1. ASSUME DiskInv PROVE DiskKeepsContent
  <2>1. SUFFICES ASSUME ChainIntact, NEW s \in Sectors PROVE OnDisk[s] \in recent[s]
    BY DEF DiskKeepsContent
  <2>2. TypeInv BY <1>1 DEF DiskInv
  <2>3. PICK S \in SUBSET (1 .. NumDiffs) : Struct(S) /\ \E base : Content(S, base)
    BY <1>1 DEF DiskInv
  <2>4. PICK base : Content(S, base) BY <2>3
  <2>5. PICK v : v = files[TailVhd] OBVIOUS
  <2>6. /\ v.kind = "diff" /\ v.locs = TailLocs /\ v.parent \in 0 .. NoUuid
        /\ Complete(ParentsOf(v)) /\ CanOpen(v) /\ Path(S) /\ TailInv(S)
    BY <2>1, <2>2, <2>3, <2>5, Fields DEF ChainIntact, CanOpen, Struct, TailInv, TailLocs
  <2>7. Leads(v.parent) BY <2>6, ReadsThrough
  <2>8. Linked BY <2>5, <2>6, <2>7 DEF Linked
  <2>9. Held(S, base) /\ CacheInv(TailVhd) /\ TailVhd \in Objects
    BY <2>2, <2>4, <2>8, Fields DEF Content, ContentInv
  <2>10. OnDisk[s] = IF s \in Bitmap(v) THEN v.data[s] ELSE base[s]
    BY <2>2, <2>3, <2>5, <2>6, <2>7, <2>9, FoundOnDisk
  <2>11. CASE s \in Bitmap(v)
    <3>1. s \in Cached(TailVhd) BY <2>2, <2>5, <2>9, <2>11, FileInCache
    <3> QED BY <3>1, <2>5, <2>9, <2>10, <2>11 DEF Held
  <2>12. CASE s \notin Bitmap(v) BY <2>5, <2>9, <2>10, <2>12 DEF Held
  <2> QED BY <2>11, <2>12
<1>2. misread => DiskKeepsContent BY DEF DiskKeepsContent
<1>3. misread \/ DiskInv => DiskKeepsContent BY <1>1, <1>2
<1> QED BY <1>3, DiskInvariant, PTL

(* The client reads what it wrote, sector by sector, through its caches and the parents it has, *)
(* also after a call that failed half-way, as long as the chain can be opened from its object   *)
(* and until an extent is copied that a file of the chain holds a part of                       *)
(* (CoalesceHistory.ClientSeesContent).                                                         *)
THEOREM ClientReadsContent ==
  ASSUME \A mode \in Modes : "PURE" \notin mode
  PROVE  HistorySpec => []ClientSeesContent
<1>1. ASSUME DiskInv PROVE ClientSeesContent
  <2>1. SUFFICES ASSUME handle, vhd[TailVhd].open, Complete(ParentsOf(View(TailVhd)))
                 PROVE  Seen = content
    BY DEF ClientSeesContent
  <2>2. TypeInv BY <1>1 DEF DiskInv
  <2>3. PICK S \in SUBSET (1 .. NumDiffs) : Struct(S) /\ \E base : Content(S, base)
    BY <1>1 DEF DiskInv
  <2>4. PICK base : Content(S, base) BY <2>3
  <2>5. TailVhd \in Objects BY <2>2, Fields
  <2>6. PICK v : v = View(TailVhd) OBVIOUS
  <2>7. /\ v.kind = files[TailVhd].kind /\ v.locs = TailLocs /\ v.parent = vhd[TailVhd].parent
        /\ v.parent \in 0 .. NoUuid /\ v.data = files[TailVhd].data
        /\ Complete(ParentsOf(v)) /\ Path(S) /\ TailInv(S)
    BY <2>1, <2>2, <2>3, <2>5, <2>6, ViewFields, Fields DEF Struct, TailLocs
  <2>8. v.kind = "diff"
    <3>1. ParentsOf(v) # << >> BY <2>7 DEF Complete
    <3>2. OpenParentVHD(v) # NoName BY <3>1, ParentsShape
    <3> QED BY <3>2 DEF OpenParentVHD
  <2>d. PICK disk : disk = Contents(v, FALSE) OBVIOUS
  <2>9. Leads(v.parent) /\ v.parent \in S /\ OpenParentVHD(v) = v.parent
    BY <2>7, <2>8, ReadsThrough
  <2>e. disk = [s \in Sectors |-> IF s \in Bitmap(v) THEN v.data[s] ELSE Below(S, OpenParentVHD(v), s)]
    <3>1. v.kind # "head" /\ OpenParentVHD(v) \in S BY <2>8, <2>9
    <3> QED BY <3>1, <2>7, <2>d, ContentsOfPath
  <2>10. Linked BY <2>1, <2>7, <2>8, <2>9 DEF Linked
  <2>11. Held(S, base) /\ content \in [Sectors -> Data] /\ "PURE" \notin vhd[TailVhd].flags
    BY <2>4, <2>5, <2>10 DEF Content, ContentInv, NotPure
  <2>12. ASSUME NEW s \in Sectors PROVE disk[s] = content[s]
    <3>1. disk[s] = IF s \in Bitmap(v) THEN v.data[s] ELSE Below(S, v.parent, s)
      <4>1. disk[s] = IF s \in Bitmap(v) THEN v.data[s] ELSE Below(S, OpenParentVHD(v), s)
        BY <2>e
      <4> QED BY <4>1, <2>9
    <3>2. s \in Cached(TailVhd) <=> s \in Bitmap(v) BY <2>1, <2>6 DEF Cached
    <3>3. content[s] = IF s \in Cached(TailVhd) THEN files[TailVhd].data[s] ELSE base[s]
      BY <2>1, <2>11 DEF Held
    <3>4. CASE s \in Bitmap(v) BY <3>1, <3>2, <3>3, <3>4, <2>7
    <3>5. CASE s \notin Bitmap(v)
      <4>1. PICK i \in Locators : TailLocs[i] = v.parent BY <2>9 DEF Leads
      <4>2. v.parent # NoName
        <5>1. v.parent \in 1 .. NumDiffs BY <2>7, <2>9 DEF Path
        <5> QED BY <5>1, NamesAreNumbers
      <4>3. s \notin Bitmap(files[TailVhd])
        <5>1. CacheInv(TailVhd) BY <2>4, <2>5 DEF Content
        <5> QED BY <5>1, <3>2, <3>5, <2>2, <2>5, FileInCache
      <4>4. Below(S, v.parent, s) = base[s] BY <4>1, <4>2, <4>3, <2>11 DEF Held
      <4> QED BY <4>4, <3>1, <3>2, <3>3, <3>5
    <3> QED BY <3>4, <3>5
  <2>13. disk \in [Sectors -> Data]
    <3>1. v.data \in [Sectors -> Data] BY <2>2, <2>5, <2>7, Fields
    <3>2. Contents(v, FALSE) \in [Sectors -> Data] BY <3>1, <2>2, ContentsData
    <3> QED BY <3>2, <2>d
  <2>14. disk = content BY <2>11, <2>12, <2>13
  <2>15. Pure(TailVhd) = FALSE BY <2>11 DEF Pure
  <2>16. Seen = Contents(v, FALSE) BY <2>6, <2>15, Zenon DEF Seen
  <2> QED BY <2>14, <2>16, <2>d
<1>2. misread => ClientSeesContent BY DEF ClientSeesContent
<1>3. misread \/ DiskInv => ClientSeesContent BY <1>1, <1>2
<1> QED BY <1>3, DiskInvariant, PTL

=============================================================================
