----------------------------- MODULE FilesProofs -----------------------------
(***************************************************************************)
(* Proofs about what is kept in files: Dict, for any terms and bounds,     *)
(* CommonIndex, for any indexes, and Logger, for any number and size of    *)
(* its files.                                                              *)
(*                                                                         *)
(* A file of the first two says less than what was saved, never something  *)
(* else.  Hence the invariants: a dictionary file is a part of the         *)
(* dictionary saved last (PartOfSaved), and each of the two files of an    *)
(* index a first part of the array dumped last into it (PartsOfDumps).     *)
(*                                                                         *)
(* For the log, what is lost is the oldest file at each rotation.  That it *)
(* is old enough is Distant: by its place a file tells how many lines have *)
(* been written since, one file less for each process that has ended.      *)
(***************************************************************************)
EXTENDS Logger, Dict, CommonIndex, FiniteSetTheorems, SequenceTheorems, TLAPS

(***************************************************************************)
(* Dict.                                                                   *)
(***************************************************************************)
IsMap(map) == /\ DOMAIN map \subseteq Signs
              /\ map \in [DOMAIN map -> [termID : Int, termFreq : Nat]]

(* The numbers of the terms are 0 .. max, each used once. *)
Dense(map, max) == /\ {map[s].termID : s \in DOMAIN map} = 0 .. max
                   /\ Cardinality(DOMAIN map) = max + 1

PartOfSaved ==
    dictf # NoFile =>
        /\ dictf.max = asSaved.max
        /\ dictf.num = Cardinality(DOMAIN asSaved.map)
        /\ DOMAIN dictf.pairs \subseteq DOMAIN asSaved.map
        /\ dictf.pairs = [s \in DOMAIN dictf.pairs |-> asSaved.map[s]]

DictInv == /\ IsMap(mDictMap) /\ mCurrMaxID \in Int
           /\ IsMap(asSaved.map) /\ asSaved.max \in Int
           /\ ~misled => Dense(mDictMap, mCurrMaxID)
           /\ ~asSaved.misled => Dense(asSaved.map, asSaved.max)
           /\ PartOfSaved

(* A map without terms is dense. *)
LEMMA NoTermsDense == IsMap(NoTerms) /\ Dense(NoTerms, -1)
<1>1. DOMAIN NoTerms = {}
  BY DEF NoTerms
<1>2. {NoTerms[s].termID : s \in DOMAIN NoTerms} = {} /\ 0 .. -1 = {}
  BY <1>1
<1>3. NoTerms \in [{} -> [termID : Int, termFreq : Nat]]
  BY DEF NoTerms
<1>4. IsMap(NoTerms)
  BY <1>1, <1>3 DEF IsMap
<1>5. Dense(NoTerms, -1)
  BY <1>1, <1>2, FS_EmptySet DEF Dense
<1> QED BY <1>4, <1>5

LEMMA InitDict == DictInit => DictInv
  BY NoTermsDense DEF DictInit, New, DictInv, PartOfSaved

(* A term more: the next number, used for the first time. *)
LEMMA TermAdded ==
  ASSUME IsMap(mDictMap), mCurrMaxID \in Int, NEW sign \in Signs, sign \notin Terms,
         NEW map, map = [s \in Terms \cup {sign} |->
                            IF s = sign THEN [termID |-> mCurrMaxID + 1, termFreq |-> 1]
                            ELSE mDictMap[s]]
  PROVE  /\ IsMap(map)
         /\ Dense(mDictMap, mCurrMaxID) => Dense(map, mCurrMaxID + 1)
<1>1. DOMAIN map = Terms \cup {sign}
  OBVIOUS
<1>2. IsMap(map)
  <2>1. \A s \in DOMAIN map : map[s] \in [termID : Int, termFreq : Nat]
    BY <1>1 DEF IsMap, Terms
  <2> QED BY <1>1, <2>1 DEF IsMap, Terms
<1>3. ASSUME Dense(mDictMap, mCurrMaxID) PROVE Dense(map, mCurrMaxID + 1)
  <2>1. IsFiniteSet(Terms)
    BY DictAssumption, FS_Subset DEF IsMap, Terms
  <2>2. Cardinality(DOMAIN map) = (mCurrMaxID + 1) + 1
    BY <1>1, <1>3, <2>1, FS_AddElement DEF Dense, Terms
  <2>3. {map[s].termID : s \in DOMAIN map} = (0 .. mCurrMaxID) \cup {mCurrMaxID + 1}
    <3>1. {map[s].termID : s \in DOMAIN map}
             = {map[s].termID : s \in Terms} \cup {map[sign].termID}
      BY <1>1
    <3>2. {map[s].termID : s \in Terms} = {mDictMap[s].termID : s \in Terms}
      <4>1. \A s \in Terms : map[s] = mDictMap[s]
        OBVIOUS
      <4> QED BY <4>1
    <3>3. map[sign].termID = mCurrMaxID + 1
      OBVIOUS
    <3> QED BY <1>3, <3>1, <3>2, <3>3 DEF Dense, Terms
  <2>4. mCurrMaxID + 1 \in Nat
    BY <1>3, <2>1, FS_CardinalityType DEF Dense, Terms
  <2>5. (0 .. mCurrMaxID) \cup {mCurrMaxID + 1} = 0 .. (mCurrMaxID + 1)
    BY <2>4
  <2>6. {map[s].termID : s \in DOMAIN map} = 0 .. (mCurrMaxID + 1)
    BY <2>3, <2>5
  <2> QED BY <2>2, <2>6 DEF Dense
<1> QED BY <1>2, <1>3

(* What load() accepts is all of what was saved last. *)
LEMMA AcceptedIsSaved ==
  ASSUME DictInv, dictf # NoFile, Loadable
  PROVE  dictf.pairs = asSaved.map /\ dictf.max = asSaved.max
<1>1. IsFiniteSet(DOMAIN asSaved.map)
  BY DictAssumption, FS_Subset DEF DictInv, IsMap
<1>2. DOMAIN dictf.pairs = DOMAIN asSaved.map
  BY <1>1, FS_Subset DEF DictInv, PartOfSaved, Loadable
<1>3. asSaved.map = [s \in DOMAIN asSaved.map |-> asSaved.map[s]]
  BY DEF DictInv, IsMap
<1> QED BY <1>2, <1>3 DEF DictInv, PartOfSaved

LEMMA NextDict == DictInv /\ [DictNext \/ DictRestart]_dvars => DictInv'
<1> SUFFICES ASSUME DictInv, [DictNext \/ DictRestart]_dvars PROVE DictInv'
  OBVIOUS
<1> USE DEF DictInv
<1>0. CASE UNCHANGED dvars
  BY <1>0 DEF dvars, PartOfSaved
<1>1. ASSUME NEW sign \in Signs, insertSign(sign) PROVE DictInv'
  <2>0. UNCHANGED <<dictf, misled, asSaved>> /\ PartOfSaved'
    BY <1>1 DEF insertSign, PartOfSaved
  <2>1. CASE /\ sign \in Terms
             /\ mDictMap' = [mDictMap EXCEPT ![sign].termFreq = @ + 1]
             /\ UNCHANGED mCurrMaxID
    <3>1. DOMAIN mDictMap' = DOMAIN mDictMap
      BY <2>1
    <3>2. \A s \in DOMAIN mDictMap : /\ mDictMap'[s] \in [termID : Int, termFreq : Nat]
                                     /\ mDictMap'[s].termID = mDictMap[s].termID
      BY <2>1 DEF IsMap, Terms
    <3>3. IsMap(mDictMap')
      BY <2>1, <3>1, <3>2 DEF IsMap
    <3>4. {mDictMap'[s].termID : s \in DOMAIN mDictMap'}
             = {mDictMap[s].termID : s \in DOMAIN mDictMap}
      BY <3>1, <3>2
    <3> QED BY <2>0, <2>1, <3>1, <3>3, <3>4 DEF Dense
  <2>2. CASE /\ sign \notin Terms
             /\ mCurrMaxID' = mCurrMaxID + 1
             /\ mDictMap' = [s \in Terms \cup {sign} |->
                               IF s = sign THEN [termID |-> mCurrMaxID + 1, termFreq |-> 1]
                               ELSE mDictMap[s]]
    <3>1. /\ IsMap(mDictMap')
          /\ Dense(mDictMap, mCurrMaxID) => Dense(mDictMap', mCurrMaxID + 1)
      BY <2>2, TermAdded
    <3> QED BY <2>0, <2>2, <3>1
  <2> QED BY <1>1, <2>1, <2>2 DEF insertSign
<1>2. CASE Save
  <2>0. UNCHANGED <<mDictMap, mCurrMaxID, misled>>
    BY <1>2 DEF Save
  <2>1. asSaved'.map = mDictMap /\ asSaved'.max = mCurrMaxID /\ asSaved'.misled = misled
    BY <1>2 DEF Save
  <2>2. \E parts, terms : terms \subseteq Terms /\ dictf' = File(parts, terms)
    BY <1>2 DEF Save
  <2>3. PartOfSaved'
    BY <2>1, <2>2 DEF PartOfSaved, File, Terms
  <2> QED BY <2>0, <2>1, <2>3
<1>3. CASE Load
  <2>1. /\ mDictMap' = asSaved.map /\ mCurrMaxID' = asSaved.max
        /\ misled' = asSaved.misled /\ UNCHANGED <<dictf, asSaved>>
    BY <1>3, AcceptedIsSaved DEF Load
  <2>2. PartOfSaved'
    BY <2>1 DEF PartOfSaved
  <2> QED BY <2>1, <2>2
<1>4. CASE LoadThrows
  <2>1. mCurrMaxID' \in Int
    BY <1>4 DEF LoadThrows, PartOfSaved
  <2>2. UNCHANGED <<mDictMap, dictf, asSaved>> /\ PartOfSaved'
    BY <1>4 DEF LoadThrows, PartOfSaved
  <2>3. (~misled' => ~misled /\ mCurrMaxID' = mCurrMaxID)
    BY <1>4 DEF LoadThrows
  <2> QED BY <2>1, <2>2, <2>3
<1>5. CASE DictRestart
  BY <1>5, NoTermsDense DEF DictRestart, PartOfSaved
<1> QED BY <1>0, <1>1, <1>2, <1>3, <1>4, <1>5 DEF DictNext

LEMMA DictInvariant == DictSpec => []DictInv
  BY InitDict, NextDict, PTL DEF DictSpec

(* The numbers of the terms stay dense over every history of inserts,      *)
(* saves that are cut short, crashes and loads, unless a load() has thrown *)
(* after it had read the number of another dictionary.                     *)
THEOREM NumbersDense == DictSpec => []IdsDense
<1>1. DictInv => IdsDense
  BY DEF DictInv, IdsDense, Dense, Terms
<1> QED BY <1>1, DictInvariant, PTL

(* What load() accepts is the whole dictionary that was saved last.        *)
THEOREM AcceptsWhole == DictSpec => LoadsWhole
<1>1. DictInv /\ Load => mDictMap' = asSaved.map /\ mCurrMaxID' = asSaved.max
  BY AcceptedIsSaved DEF Load
<1> QED BY <1>1, DictInvariant, PTL DEF LoadsWhole

-----------------------------------------------------------------------------
(***************************************************************************)
(* CommonIndex.                                                            *)
(***************************************************************************)
Arrayed == /\ DOMAIN items = Arrays /\ DOMAIN index = Arrays /\ DOMAIN asDumped = Arrays
           /\ \A a \in Arrays : items[a] \in Seq(Items[a]) /\ asDumped[a] \in Seq(Items[a])

(* A file says what was dumped into it last, or less. *)
Says(file, array) ==
    file \notin {NoIndex, Headless} =>
        /\ file.num = Len(array)
        /\ file.items \in Seq(UNION {Items[a] : a \in Arrays})
        /\ Len(file.items) <= Len(array)
        /\ \A n \in 1 .. Len(file.items) : file.items[n] = array[n]

PartsOfDumps == \A a \in Arrays : Says(index[a], asDumped[a])

IndexInv == Arrayed /\ PartsOfDumps

LEMMA EmptyArray == \A S : <<>> \in Seq(S)
  OBVIOUS

LEMMA ItemsKnown == /\ DOMAIN Items = Arrays
                    /\ \A a \in Arrays : Junk \in Items[a]
                    /\ \A a \in Arrays : Items[a] \subseteq UNION {Items[b] : b \in Arrays}
  BY DEF Items

(* Nothing is built and nothing dumped. *)
LEMMA InitIndex == IndexInit => IndexInv
  BY EmptyArray DEF IndexInit, IndexInv, Arrayed, PartsOfDumps, Says, Both, Arrays

(* The first elements of a sequence. *)
LEMMA FirstPart ==
  ASSUME NEW S, NEW q \in Seq(S), NEW n \in 0 .. Len(q)
  PROVE  /\ SubSeq(q, 1, n) \in Seq(S)
         /\ Len(SubSeq(q, 1, n)) = n
         /\ \A k \in 1 .. n : SubSeq(q, 1, n)[k] = q[k]
<1>1. SubSeq(q, 1, n) = [k \in 1 .. n |-> q[k]]
  BY SubSeqRestrict DEF Restrict
<1>2. \A k \in 1 .. n : q[k] \in S
  OBVIOUS
<1> QED BY <1>1, <1>2

(* What dumpData() leaves says what was in memory, or less. *)
LEMMA DumpedSays ==
  ASSUME Arrayed, NEW a \in Arrays, NEW file \in Dumped(a)
  PROVE  Says(file, items[a])
<1> SUFFICES ASSUME file \notin {NoIndex, Headless}
             PROVE  /\ file.num = Len(items[a])
                    /\ file.items \in Seq(UNION {Items[b] : b \in Arrays})
                    /\ Len(file.items) <= Len(items[a])
                    /\ \A n \in 1 .. Len(file.items) : file.items[n] = items[a][n]
  BY DEF Says
<1>1. items[a] \in Seq(UNION {Items[b] : b \in Arrays}) /\ Len(items[a]) \in Nat
  BY ItemsKnown DEF Arrayed
<1>2. PICK n \in 0 .. (IF ptr[a] = "null" THEN 0 ELSE Len(items[a])) :
             file = [num |-> Len(items[a]), items |-> SubSeq(items[a], 1, n)]
  BY DEF Dumped
<1>3. n \in 0 .. Len(items[a])
  BY <1>1, <1>2
<1>4. /\ SubSeq(items[a], 1, n) \in Seq(UNION {Items[b] : b \in Arrays})
      /\ Len(SubSeq(items[a], 1, n)) = n
      /\ \A k \in 1 .. n : SubSeq(items[a], 1, n)[k] = items[a][k]
  BY <1>1, <1>3, FirstPart
<1> QED BY <1>1, <1>2, <1>3, <1>4

LEMMA DumpKeeps ==
  ASSUME IndexInv, UNCHANGED items, NEW a \in Arrays, DumpOf(a)
  PROVE  IndexInv'
<1>1. PICK file \in Dumped(a) : index' = [index EXCEPT ![a] = file]
  BY DEF DumpOf
<1>2. /\ DOMAIN index' = Arrays /\ DOMAIN asDumped' = Arrays
      /\ index'[a] = file /\ asDumped'[a] = items[a]
      /\ \A b \in Arrays \ {a} : index'[b] = index[b] /\ asDumped'[b] = asDumped[b]
  BY <1>1 DEF DumpOf, IndexInv, Arrayed
<1>3. Arrayed'
  BY <1>2 DEF IndexInv, Arrayed
<1>4. ASSUME NEW b \in Arrays PROVE Says(index'[b], asDumped'[b])
  <2>1. CASE b = a
    BY <1>2, <2>1, DumpedSays DEF IndexInv
  <2>2. CASE b # a
    BY <1>2, <2>2 DEF IndexInv, PartsOfDumps
  <2> QED BY <2>1, <2>2
<1> QED BY <1>3, <1>4 DEF IndexInv, PartsOfDumps

(* What read() puts into a new array from a file that load() accepts. *)
LEMMA ReadArray ==
  ASSUME IndexInv, NEW a \in Arrays, Readable(a), NEW got \in 0 .. Len(index[a].items),
         NEW array, array = Read(a, got)
  PROVE  /\ array \in Seq(Items[a])
         /\ Len(array) = Len(asDumped[a])
         /\ \A n \in 1 .. Len(asDumped[a]) : array[n] \in {asDumped[a][n], Junk}
         /\ ~CutShort(a, got) => array = asDumped[a]
<1>1. /\ asDumped[a] \in Seq(Items[a]) /\ Len(asDumped[a]) \in Nat
      /\ index[a].num = Len(asDumped[a]) /\ Len(index[a].items) = Len(asDumped[a])
      /\ \A n \in 1 .. Len(asDumped[a]) : index[a].items[n] = asDumped[a][n]
  <2>1. asDumped[a] \in Seq(Items[a]) /\ Len(asDumped[a]) \in Nat
    BY DEF IndexInv, Arrayed
  <2>2. index[a] \notin {NoIndex, Headless} /\ Len(index[a].items) = index[a].num
    BY DEF Readable
  <2>3. /\ index[a].num = Len(asDumped[a])
        /\ \A n \in 1 .. Len(index[a].items) : index[a].items[n] = asDumped[a][n]
    BY <2>2 DEF IndexInv, PartsOfDumps, Says
  <2> QED BY <2>1, <2>2, <2>3
<1>2. array = [n \in 1 .. Len(asDumped[a]) |-> IF n <= got THEN index[a].items[n] ELSE Junk]
  BY <1>1 DEF Read
<1>3. \A n \in 1 .. Len(asDumped[a]) : asDumped[a][n] \in Items[a]
  BY <1>1
<1>4. \A n \in 1 .. Len(asDumped[a]) : array[n] \in {asDumped[a][n], Junk} /\ array[n] \in Items[a]
  BY <1>1, <1>2, <1>3, ItemsKnown
<1>5. array \in Seq(Items[a]) /\ Len(array) = Len(asDumped[a])
  <2>1. PICK len \in Nat : len = Len(asDumped[a])
    BY <1>1
  <2>2. array \in [1 .. len -> Items[a]]
    BY <1>2, <1>4, <2>1
  <2> QED BY <2>1, <2>2
<1>6. ASSUME ~CutShort(a, got) PROVE array = asDumped[a]
  <2>1. got = Len(asDumped[a])
    BY <1>1, <1>6 DEF CutShort
  <2>2. \A n \in 1 .. Len(asDumped[a]) : array[n] = asDumped[a][n]
    BY <1>1, <1>2, <2>1
  <2> QED BY <1>1, <1>5, <2>2, SeqEqual
<1> QED BY <1>4, <1>5, <1>6

(* An array of a refused file is a sequence, of memory that is not its. *)
LEMMA RefusedArray ==
  ASSUME IndexInv, NEW a \in Arrays, NEW array, array = Refused(a)
  PROVE  array \in Seq(Items[a])
<1>1. PICK n : n = CASE index[a] \notin {NoIndex, Headless} -> index[a].num
                     [] ptr[a] = "null" -> Len(items[a])
                     [] OTHER -> 0
  OBVIOUS
<1>2. n \in Nat
  <2>1. Len(items[a]) \in Nat /\ Len(asDumped[a]) \in Nat
    BY DEF IndexInv, Arrayed
  <2>2. index[a] \notin {NoIndex, Headless} => index[a].num = Len(asDumped[a])
    BY DEF IndexInv, PartsOfDumps, Says
  <2>3. CASE index[a] \notin {NoIndex, Headless}
    BY <1>1, <2>1, <2>2, <2>3
  <2>4. CASE index[a] \in {NoIndex, Headless} /\ ptr[a] = "null"
    BY <1>1, <2>1, <2>4
  <2>5. CASE index[a] \in {NoIndex, Headless} /\ ptr[a] # "null"
    BY <1>1, <2>5
  <2> QED BY <2>3, <2>4, <2>5
<1>3. array = [k \in 1 .. n |-> Junk]
  BY <1>1 DEF Refused
<1> QED BY <1>2, <1>3, ItemsKnown

LEMMA NextIndex == IndexInv /\ [IndexNext \/ IndexRestart]_ivars => IndexInv'
<1> SUFFICES ASSUME IndexInv, [IndexNext \/ IndexRestart]_ivars PROVE IndexInv'
  OBVIOUS
<1>a. Arrays = {1, 2}
  BY DEF Arrays
<1>b. ASSUME UNCHANGED <<index, asDumped>>, DOMAIN items' = Arrays,
             \A a \in Arrays : items'[a] \in Seq(Items[a])
      PROVE  IndexInv'
  BY <1>b DEF IndexInv, Arrayed, PartsOfDumps
<1>0. CASE UNCHANGED ivars
  BY <1>0 DEF ivars, IndexInv, Arrayed, PartsOfDumps
<1>1. CASE Build
  <2>1. PICK built \in Indexes : items' = built
    BY <1>1 DEF Build
  <2>2. built \in Indexes /\ \A a \in Arrays : built[a] \in Seq(Items[a])
    BY IndexAssumption
  <2>3. DOMAIN built = Arrays
    BY IndexAssumption
  <2> QED BY <1>1, <1>b, <2>1, <2>2, <2>3 DEF Build
<1>2. CASE DumpFirst
  BY <1>2, <1>a, DumpKeeps DEF DumpFirst
<1>3. CASE DumpSecond
  <2>1. CASE DumpOf(2)
    BY <1>3, <1>a, <2>1, DumpKeeps DEF DumpSecond
  <2>2. CASE UNCHANGED <<index, asDumped>>
    BY <1>3, <2>2 DEF DumpSecond, IndexInv, Arrayed, PartsOfDumps
  <2> QED BY <1>3, <2>1, <2>2 DEF DumpSecond
<1>4. CASE LoadIndex
  <2>1. PICK one \in 0 .. Len(index[1].items), two \in 0 .. Len(index[2].items) :
               items' = <<Read(1, one), Read(2, two)>>
    BY <1>4 DEF LoadIndex
  <2>2. PICK p, q : p = Read(1, one) /\ q = Read(2, two)
    OBVIOUS
  <2>3. p \in Seq(Items[1]) /\ q \in Seq(Items[2])
    BY <1>4, <1>a, <2>1, <2>2, ReadArray DEF LoadIndex
  <2>4. items' = <<p, q>>
    BY <2>1, <2>2
  <2> QED BY <1>4, <1>a, <1>b, <2>3, <2>4 DEF LoadIndex
<1>5. CASE LoadIndexThrows
  <2>1. CASE items' = [items EXCEPT ![1] = Refused(1)]
    <3>1. PICK p : p = Refused(1)
      OBVIOUS
    <3>2. p \in Seq(Items[1])
      BY <1>a, <3>1, RefusedArray
    <3>3. DOMAIN items' = Arrays /\ items'[1] = p /\ items'[2] = items[2]
      BY <1>a, <2>1, <3>1 DEF IndexInv, Arrayed
    <3> QED BY <1>5, <1>a, <1>b, <3>2, <3>3 DEF LoadIndexThrows, IndexInv, Arrayed
  <2>2. CASE Readable(1) /\ \E one \in 0 .. Len(index[1].items) : items' = <<Read(1, one), Refused(2)>>
    <3>1. PICK one \in 0 .. Len(index[1].items) : items' = <<Read(1, one), Refused(2)>>
      BY <2>2
    <3>2. PICK p, q : p = Read(1, one) /\ q = Refused(2)
      OBVIOUS
    <3>3. p \in Seq(Items[1]) /\ q \in Seq(Items[2])
      BY <1>a, <2>2, <3>1, <3>2, ReadArray, RefusedArray
    <3>4. items' = <<p, q>>
      BY <3>1, <3>2
    <3> QED BY <1>5, <1>a, <1>b, <3>3, <3>4 DEF LoadIndexThrows
  <2> QED BY <1>5, <2>1, <2>2 DEF LoadIndexThrows
<1>6. CASE Replace \/ IndexRestart
  <2>1. items' = Both(<<>>) /\ UNCHANGED <<index, asDumped>>
    BY <1>6 DEF Replace, IndexRestart
  <2> QED BY <1>b, <2>1, EmptyArray DEF Both
<1> QED BY <1>0, <1>1, <1>2, <1>3, <1>4, <1>5, <1>6 DEF IndexNext

LEMMA IndexInvariant == IndexSpec => []IndexInv
  BY InitIndex, NextIndex, PTL DEF IndexSpec

(* What load() answers with is what was dumped last, array by array, or    *)
(* memory that a short read() has not filled in, whatever dumps have lost  *)
(* and loads have refused.                                                 *)
THEOREM AnswersAsDumped == IndexSpec => ArraysAsDumped
<1>1. ASSUME IndexInv, LoadIndex, NEW a \in Arrays
      PROVE  /\ Len(items'[a]) = Len(asDumped[a])
             /\ \A n \in 1 .. Len(asDumped[a]) : items'[a][n] \in {asDumped[a][n], Junk}
             /\ a \notin short' => items'[a] = asDumped[a]
  <2>1. PICK one \in 0 .. Len(index[1].items), two \in 0 .. Len(index[2].items) :
               /\ items' = <<Read(1, one), Read(2, two)>>
               /\ short' = {b \in Arrays : CutShort(b, <<one, two>>[b])}
    BY <1>1 DEF LoadIndex
  <2>2. PICK got \in 0 .. Len(index[a].items) :
               /\ items'[a] = Read(a, got)
               /\ a \notin short' => ~CutShort(a, got)
    <3>1. CASE a = 1
      BY <2>1, <3>1
    <3>2. CASE a = 2
      BY <2>1, <3>2
    <3> QED BY <3>1, <3>2 DEF Arrays
  <2>3. Readable(a)
    BY <1>1 DEF LoadIndex
  <2>4. PICK array : array = items'[a]
    OBVIOUS
  <2> QED BY <1>1, <2>2, <2>3, <2>4, ReadArray
<1>2. IndexInv /\ [IndexNext \/ IndexRestart]_ivars =>
        [LoadIndex => \A a \in Arrays :
           /\ Len(items'[a]) = Len(asDumped[a])
           /\ \A n \in 1 .. Len(asDumped[a]) : items'[a][n] \in {asDumped[a][n], Junk}
           /\ a \notin short' => items'[a] = asDumped[a]]_ivars
  BY <1>1
<1> QED BY <1>2, IndexInvariant, PTL DEF IndexSpec, ArraysAsDumped
-----------------------------------------------------------------------------
(***************************************************************************)
(* Logger.                                                                 *)
(***************************************************************************)
(* The places of the files, the newest first. *)
Places == 0 .. Count - 1

(* Whatever the files, the call in progress is in one of its states. *)
LoggerTyped ==
    /\ files \in [Places -> Seq(Entry) \cup {Absent}]
    /\ log_rotate_type \in {0, 1}
    /\ pc \in {"down", "idle", "check", "close", "remove", "rename", "open", "write"}
    /\ stamp \in Nat /\ i \in Nat /\ today \in Nat /\ day \in Nat /\ written \in Nat /\ crashes \in Nat
    /\ pc = "rename" => i \in 0 .. Count - 2

(* The file that is open exists. *)
Newest == pc \in {"idle", "check", "close", "write", "remove"} => Exists(0)

(* A rotation only ever renames to a name that is free. *)
RoomAbove ==
    ~disturbed => /\ pc = "rename" => ~Exists(i + 1) /\ Exists(0)
                  /\ pc = "open" => ~Exists(0)

(* By size, every file but the newest is full; the newest is, too, when it *)
(* is about to move.                                                       *)
Length(n) == IF Exists(n) THEN Len(files[n]) ELSE 0

Sized == log_rotate_type = 0 /\ ~disturbed =>
    /\ \A n \in 1 .. Count - 1 : Exists(n) => Len(files[n]) = FSize + 1
    /\ Length(0) <= FSize + 1
    /\ pc = "write" => Length(0) <= FSize
    /\ pc \in {"close", "remove", "rename"} => Length(0) = FSize + 1

Room(k) == (FSize + 1) * k     \* lines in k files

(* By size, the distance of a line in the file at p from the last line     *)
(* written: the newest file, and a full one for each place between, but    *)
(* for those that interrupted rotations have left empty, at most one each  *)
(* time a process ended; nor does the place count that the rotation in     *)
(* progress has just emptied.                                              *)
Shifted(p) == IF pc = "rename" /\ p > i + 1 THEN 1 ELSE 0

Distant == log_rotate_type = 0 /\ ~disturbed =>
    \A p \in 1 .. Count - 1 : \A x \in Lines(p) :
        x + Length(0) + Room(p - 1 - crashes - Shifted(p)) <= written

(* By day, in the first process: a file has the lines of one day, but for  *)
(* the first, and the newest those of the day the Logger believes it is;   *)
(* the line in hand is of that day too, when it is written, unless the     *)
(* file is new.                                                            *)
OneDay(n) == \A k \in 2 .. Length(n) : /\ files[n][k].day = files[n][2].day
                                       /\ files[n][1].day <= files[n][k].day

OfToday == \A k \in 1 .. Length(0) : /\ files[0][k].day <= today
                                     /\ k # 1 => files[0][k].day = today

Stamped == /\ pc = "check" => today <= stamp /\ stamp <= day
           /\ pc = "close" => stamp <= day
           /\ pc \in {"remove", "rename", "open", "write"} => stamp <= today
           /\ pc = "write" => stamp = today \/ Length(0) = 0

DayedParts == /\ today <= day
              /\ \A n \in Places : OneDay(n)
              /\ pc = "down" => \A n \in Places : ~Exists(n)
              /\ pc \in {"idle", "check", "write"} => OfToday
              /\ Stamped

Dayed == log_rotate_type = 1 /\ ~disturbed /\ crashes = 0 => DayedParts

(* The parts of NoGap. *)
Ascending == \A n \in Places : Exists(n) =>
    \A j, k \in 1 .. Len(files[n]) : j < k => files[n][j].line < files[n][k].line

Ordered == \A n, older \in Places : n < older =>
    \A x \in Lines(older), y \in Lines(n) : x < y

Unbroken == ~disturbed => \A x \in Kept : x .. written \subseteq Kept

LoggerInv == /\ LoggerTyped /\ Newest /\ RoomAbove
             /\ NoGap /\ Sized /\ Distant /\ HistoryKept /\ Dayed

(* The four ways in which a step changes the files. *)
Opened  == /\ pc \in {"down", "open"} /\ files' = [files EXCEPT ![0] = IF Exists(0) THEN @ ELSE <<>>]
Removed == files' = [files EXCEPT ![Count - 1] = Absent]
Renamed == /\ Exists(i)
           /\ files' = [files EXCEPT ![i + 1] = files[i], ![i] = Absent]
Written == files' = [files EXCEPT ![0] = Append(@, [line |-> written + 1, day |-> stamp])]

LEMMA ZeroInPlaces == 0 \in Places /\ Count - 1 \in Places /\ Count \in Nat /\ FSize \in Nat
                      /\ Count > 1 /\ Absent \notin Seq(Entry)
  BY LoggerAssumption DEF Places

LEMMA NoLines == <<>> \in Seq(Entry) /\ Len(<<>>) = 0 /\ <<>> # Absent
<1>1. <<>> \in Seq(Entry)
  OBVIOUS
<1> QED BY <1>1, LoggerAssumption

LEMMA OpenedFiles ==
  ASSUME LoggerTyped, Opened
  PROVE  /\ files' \in [Places -> Seq(Entry) \cup {Absent}]
         /\ Exists(0)'
         /\ \A n \in Places : n # 0 => files'[n] = files[n]
         /\ Exists(0) => files'[0] = files[0]
         /\ ~Exists(0) => files'[0] = <<>>
         /\ \A n \in Places : Lines(n)' = Lines(n) /\ Length(n)' = Length(n)
<1>1. /\ files' \in [Places -> Seq(Entry) \cup {Absent}]
      /\ Exists(0)'
      /\ \A n \in Places : n # 0 => files'[n] = files[n]
      /\ Exists(0) => files'[0] = files[0]
      /\ ~Exists(0) => files'[0] = <<>>
  BY NoLines, ZeroInPlaces DEF LoggerTyped, Opened, Exists
<1>2. ASSUME NEW n \in Places PROVE Lines(n)' = Lines(n) /\ Length(n)' = Length(n)
  <2>1. CASE n # 0 \/ Exists(0)
    BY <1>1, <2>1 DEF Lines, Length, Exists
  <2>2. CASE n = 0 /\ ~Exists(0)
    <3>1. Length(0)' = 0 /\ Length(0) = 0
      BY <1>1, <2>2, NoLines DEF Length
    <3>2. Lines(0)' = {} /\ Lines(0) = {}
      BY <1>1, <2>2, NoLines DEF Lines
    <3> QED BY <2>2, <3>1, <3>2
  <2> QED BY <2>1, <2>2
<1> QED BY <1>1, <1>2

LEMMA RemovedFiles ==
  ASSUME LoggerTyped, Removed
  PROVE  /\ files' \in [Places -> Seq(Entry) \cup {Absent}]
         /\ \A n \in Places : n # Count - 1 => files'[n] = files[n]
         /\ ~Exists(Count - 1)'
         /\ Lines(Count - 1)' = {}
         /\ \A n \in Places : n # Count - 1 => Lines(n)' = Lines(n) /\ Length(n)' = Length(n)
<1>1. /\ files' \in [Places -> Seq(Entry) \cup {Absent}]
      /\ \A n \in Places : n # Count - 1 => files'[n] = files[n]
      /\ ~Exists(Count - 1)'
  BY ZeroInPlaces DEF LoggerTyped, Removed, Exists
<1> QED BY <1>1 DEF Lines, Length, Exists

LEMMA RenamedFiles ==
  ASSUME LoggerTyped, pc = "rename", NEW m, m = i, Renamed
  PROVE  /\ m \in Places /\ m + 1 \in Places
         /\ files' \in [Places -> Seq(Entry) \cup {Absent}]
         /\ \A n \in Places : n \notin {m, m + 1} => files'[n] = files[n]
         /\ files'[m + 1] = files[m] /\ Exists(m + 1)' /\ ~Exists(m)'
         /\ Lines(m + 1)' = Lines(m) /\ Length(m + 1)' = Length(m)
         /\ Lines(m)' = {} /\ Length(m)' = 0
         /\ \A n \in Places : n \notin {m, m + 1} =>
               Lines(n)' = Lines(n) /\ Length(n)' = Length(n)
<1>1. m \in Places /\ m + 1 \in Places /\ m # m + 1
  BY LoggerAssumption DEF LoggerTyped, Places
<1>2. /\ files' \in [Places -> Seq(Entry) \cup {Absent}]
      /\ \A n \in Places : n \notin {m, m + 1} => files'[n] = files[n]
      /\ files'[m + 1] = files[m] /\ files'[m] = Absent /\ files[m] # Absent
  BY <1>1 DEF LoggerTyped, Renamed, Exists
<1>3. ASSUME NEW n \in Places, n \notin {m, m + 1}
      PROVE  Lines(n)' = Lines(n) /\ Length(n)' = Length(n)
  BY <1>2, <1>3 DEF Lines, Length, Exists
<1>4. Lines(m + 1)' = Lines(m) /\ Length(m + 1)' = Length(m) /\ Exists(m + 1)'
  BY <1>2 DEF Lines, Length, Exists
<1>5. Lines(m)' = {} /\ Length(m)' = 0 /\ ~Exists(m)'
  BY <1>2 DEF Lines, Length, Exists
<1> QED BY <1>1, <1>2, <1>3, <1>4, <1>5

(* The lines of a file, one by one. *)
LEMMA LinesOf ==
  ASSUME LoggerTyped, NEW n \in Places, Exists(n)
  PROVE  /\ files[n] \in Seq(Entry) /\ Len(files[n]) \in Nat /\ Length(n) = Len(files[n])
         /\ \A k \in 1 .. Len(files[n]) : files[n][k] \in Entry /\ files[n][k].line \in Lines(n)
         /\ \A x \in Lines(n) : x \in Nat /\ \E k \in 1 .. Len(files[n]) : x = files[n][k].line
<1>1. files[n] \in Seq(Entry) /\ Len(files[n]) \in Nat /\ Length(n) = Len(files[n])
  BY DEF LoggerTyped, Exists, Length
<1>2. \A k \in 1 .. Len(files[n]) : files[n][k] \in Entry
  BY <1>1
<1>3. \A k \in 1 .. Len(files[n]) : files[n][k].line \in Nat
  BY <1>2 DEF Entry
<1> QED BY <1>1, <1>2, <1>3 DEF Lines

LEMMA WrittenFiles ==
  ASSUME LoggerTyped, Exists(0), Written
  PROVE  /\ files' \in [Places -> Seq(Entry) \cup {Absent}]
         /\ Exists(0)'
         /\ \A n \in Places : n # 0 => files'[n] = files[n]
         /\ Len(files'[0]) = Len(files[0]) + 1 /\ Length(0)' = Length(0) + 1
         /\ \A k \in 1 .. Len(files[0]) : files'[0][k] = files[0][k]
         /\ files'[0][Len(files[0]) + 1] = [line |-> written + 1, day |-> stamp]
         /\ Lines(0)' = Lines(0) \cup {written + 1}
         /\ \A n \in Places : n # 0 => Lines(n)' = Lines(n) /\ Length(n)' = Length(n)
<1> DEFINE e == [line |-> written + 1, day |-> stamp]
<1>1. e \in Entry /\ e.line = written + 1
  BY DEF LoggerTyped, Entry
<1> HIDE DEF e
<1>2. files[0] \in Seq(Entry) /\ Len(files[0]) \in Nat /\ Length(0) = Len(files[0])
  BY LinesOf, ZeroInPlaces
<1>3. /\ Append(files[0], e) \in Seq(Entry)
      /\ Len(Append(files[0], e)) = Len(files[0]) + 1
      /\ \A k \in 1 .. Len(files[0]) : Append(files[0], e)[k] = files[0][k]
      /\ Append(files[0], e)[Len(files[0]) + 1] = e
  BY <1>1, <1>2, AppendProperties
<1>4. files' = [files EXCEPT ![0] = Append(files[0], e)]
  BY DEF Written, e
<1>5. /\ files'[0] = Append(files[0], e)
      /\ files' \in [Places -> Seq(Entry) \cup {Absent}]
      /\ \A n \in Places : n # 0 => files'[n] = files[n]
  BY <1>3, <1>4, ZeroInPlaces DEF LoggerTyped
<1>6. files'[0] # Absent
  BY <1>3, <1>5, ZeroInPlaces
<1>7. /\ Len(files'[0]) = Len(files[0]) + 1
      /\ \A k \in 1 .. Len(files[0]) : files'[0][k] = files[0][k]
      /\ files'[0][Len(files[0]) + 1] = e
  BY <1>3, <1>5
<1>8. Lines(0)' = {files'[0][k].line : k \in 1 .. Len(files[0]) + 1}
  BY <1>6, <1>7 DEF Lines, Exists
<1>9. Lines(0)' = Lines(0) \cup {written + 1}
  <2>1. 1 .. Len(files[0]) + 1 = 1 .. Len(files[0]) \cup {Len(files[0]) + 1}
    BY <1>2
  <2>2. Lines(0) = {files[0][k].line : k \in 1 .. Len(files[0])}
    BY DEF Lines
  <2>3. \A k \in 1 .. Len(files[0]) : files'[0][k].line = files[0][k].line
    BY <1>7
  <2>4. files'[0][Len(files[0]) + 1].line = written + 1
    BY <1>1, <1>7
  <2> QED BY <1>8, <2>1, <2>2, <2>3, <2>4
<1>10. ASSUME NEW n \in Places, n # 0 PROVE Lines(n)' = Lines(n) /\ Length(n)' = Length(n)
  BY <1>5, <1>10 DEF Lines, Length, Exists
<1> QED BY <1>2, <1>5, <1>6, <1>7, <1>9, <1>10 DEF Length, Exists, e

(* What a step does to the files, and when. *)
LEMMA HowFilesChange ==
  ASSUME LoggerTyped, Newest, [Next]_vars
  PROVE  \/ files' = files
         \/ Opened
         \/ pc = "remove" /\ Removed
         \/ pc = "rename" /\ Renamed
         \/ pc = "write" /\ Exists(0) /\ Written
<1>1. CASE Start \/ Open
  BY <1>1 DEF Start, Open, OpenNewest, Opened
<1>2. CASE RemoveOldest
  BY <1>2 DEF RemoveOldest, Removed
<1>3. CASE Rename
  BY <1>3 DEF Rename, Renamed
<1>4. CASE Write
  BY <1>4 DEF Write, Written, Newest
<1>5. CASE Log \/ Check \/ Close \/ RenameFails \/ Crash \/ NewDay \/ UNCHANGED vars
  BY <1>5 DEF Log, Check, Close, RenameFails, Crash, NewDay, vars
<1> QED BY <1>1, <1>2, <1>3, <1>4, <1>5 DEF Next

LEMMA KeepsTyped == LoggerTyped /\ Newest /\ [Next]_vars => LoggerTyped' /\ Newest'
<1> SUFFICES ASSUME LoggerTyped, Newest, [Next]_vars
             PROVE  LoggerTyped' /\ Newest'
  OBVIOUS
<1>1. files' \in [Places -> Seq(Entry) \cup {Absent}]
  <2>1. PICK m : m = i
    OBVIOUS
  <2> QED BY <2>1, HowFilesChange, OpenedFiles, RemovedFiles, RenamedFiles, WrittenFiles DEF LoggerTyped
<1>2. CASE Start
  <2>1. Exists(0)'
    BY <1>2, OpenedFiles DEF Start, OpenNewest, Opened
  <2> QED BY <1>1, <1>2, <2>1 DEF Start, LoggerTyped, Newest
<1>3. CASE Log \/ Check \/ Close
  BY <1>1, <1>3 DEF Log, Check, Close, LoggerTyped, Newest, Exists
<1>4. CASE RemoveOldest
  BY <1>1, <1>4, LoggerAssumption DEF RemoveOldest, LoggerTyped, Newest
<1>5. CASE Rename \/ RenameFails
  <2>1. pc = "rename" /\ NextRename
        /\ UNCHANGED <<log_rotate_type, today, stamp, day, written, crashes>>
    BY <1>5 DEF Rename, RenameFails
  <2> QED BY <1>1, <2>1, LoggerAssumption DEF NextRename, LoggerTyped, Newest
<1>6. CASE Open
  <2>1. Exists(0)'
    BY <1>6, OpenedFiles DEF Open, OpenNewest, Opened
  <2> QED BY <1>1, <1>6, <2>1 DEF Open, LoggerTyped, Newest
<1>7. CASE Write
  <2>1. Exists(0)'
    BY <1>7, WrittenFiles DEF Write, Written, Newest
  <2> QED BY <1>1, <1>7, <2>1 DEF Write, LoggerTyped, Newest
<1>8. CASE Crash \/ NewDay \/ UNCHANGED vars
  BY <1>1, <1>8 DEF Crash, NewDay, vars, LoggerTyped, Newest, Exists
<1> QED BY <1>2, <1>3, <1>4, <1>5, <1>6, <1>7, <1>8 DEF Next

LEMMA KeepsRoom ==
  LoggerTyped /\ Newest /\ RoomAbove /\ [Next]_vars => RoomAbove'
<1> SUFFICES ASSUME LoggerTyped, Newest, RoomAbove, [Next]_vars, ~disturbed'
             PROVE  /\ (pc = "rename" => ~Exists(i + 1) /\ Exists(0))'
                    /\ (pc = "open" => ~Exists(0))'
  BY DEF RoomAbove
<1>1. CASE RemoveOldest
  <2>1. i' = Count - 2 /\ pc' = "rename" /\ Removed /\ Exists(0)
    BY <1>1 DEF RemoveOldest, Removed, Newest
  <2>2. files'[Count - 1] = Absent /\ files'[0] = files[0]
    BY <2>1, RemovedFiles, ZeroInPlaces DEF Exists
  <2>3. i' + 1 = Count - 1
    BY <2>1, ZeroInPlaces
  <2> QED BY <2>1, <2>2, <2>3 DEF Exists
<1>2. CASE Rename
  <2>1. PICK m : m = i
    OBVIOUS
  <2>2. ~disturbed /\ ~Exists(m + 1) /\ Exists(0) /\ m \in 0 .. Count - 2 /\ pc = "rename"
    BY <1>2, <2>1 DEF Rename, RoomAbove, LoggerTyped
  <2>3. files'[m] = Absent
    <3>1. CASE Exists(m)
      BY <1>2, <2>1, <2>2, <3>1, RenamedFiles DEF Rename, Renamed, Exists
    <3>2. CASE ~Exists(m)
      BY <1>2, <2>1, <3>2 DEF Rename, Exists
    <3> QED BY <3>1, <3>2
  <2>4. m # 0 => files'[0] = files[0]
    <3>1. CASE Exists(m)
      <4>1. m # 0 => 0 \in Places /\ 0 \notin {m, m + 1}
        BY <2>2, ZeroInPlaces
      <4> QED BY <1>2, <2>1, <2>2, <3>1, <4>1, RenamedFiles DEF Rename, Renamed
    <3>2. CASE ~Exists(m)
      BY <1>2, <2>1, <3>2 DEF Rename
    <3> QED BY <3>1, <3>2
  <2>5. CASE m = 0
    <3>1. pc' = "open"
      BY <1>2, <2>1, <2>5 DEF Rename, NextRename
    <3> QED BY <2>3, <2>5, <3>1 DEF Exists
  <2>6. CASE m # 0
    <3>1. pc' = "rename" /\ i' + 1 = m
      BY <1>2, <2>1, <2>2, <2>6 DEF Rename, NextRename
    <3> QED BY <2>2, <2>3, <2>4, <2>6, <3>1 DEF Exists
  <2> QED BY <2>5, <2>6
<1>3. CASE Start \/ Log \/ Check \/ Close \/ Open \/ Write \/ Crash \/ RenameFails
  BY <1>3 DEF Start, Log, Check, Close, Open, Write, Crash, RenameFails
<1>4. CASE NewDay \/ UNCHANGED vars
  BY <1>4 DEF NewDay, vars, RoomAbove, Exists
<1> QED BY <1>1, <1>2, <1>3, <1>4 DEF Next

LEMMA NoGapParts == NoGap <=> Ascending /\ Ordered /\ Kept \subseteq 1 .. written /\ Unbroken
  BY DEF NoGap, Ascending, Ordered, Unbroken, Places

LEMMA InKept == \A x : x \in Kept <=> \E n \in Places : x \in Lines(n)
  BY DEF Kept, Places

LEMMA InKeptNext == \A x : x \in Kept' <=> \E n \in Places : x \in Lines(n)'
  BY DEF Kept, Places

(* Files that have not changed, or that have been opened, keep the lines. *)
LEMMA SameLines ==
  ASSUME \A n \in Places : Lines(n)' = Lines(n)
  PROVE  Kept' = Kept /\ (Ordered => Ordered')
<1>1. Kept' = Kept
  BY InKept, InKeptNext
<1>2. Ordered => Ordered'
  BY DEF Ordered, Places
<1> QED BY <1>1, <1>2

LEMMA SameFilesSameLines ==
  ASSUME files' = files
  PROVE  \A n \in Places : Lines(n)' = Lines(n) /\ Length(n)' = Length(n)
  BY DEF Lines, Length, Exists

LEMMA KeepsOrderOpened ==
  ASSUME LoggerTyped, NoGap, Opened
  PROVE  Ascending' /\ Ordered' /\ Kept' = Kept
<1>1. Ascending'
  <2> SUFFICES ASSUME NEW n \in Places, Exists(n)', NEW j \in 1 .. Len(files[n])',
                      NEW k \in 1 .. Len(files[n])', j < k
               PROVE  files'[n][j].line < files'[n][k].line
    BY DEF Ascending, Places
  <2>1. CASE n # 0 \/ Exists(0)
    <3>1. files'[n] = files[n] /\ Exists(n)
      BY <2>1, OpenedFiles DEF Exists
    <3> QED BY <3>1, NoGapParts DEF Ascending
  <2>2. CASE n = 0 /\ ~Exists(0)
    <3>1. Len(files'[n]) = 0
      BY <2>2, OpenedFiles, NoLines
    <3> QED BY <3>1
  <2> QED BY <2>1, <2>2
<1> QED BY <1>1, OpenedFiles, SameLines, NoGapParts

LEMMA KeepsOrderRemoved ==
  ASSUME LoggerTyped, NoGap, Removed
  PROVE  /\ Ascending' /\ Ordered'
         /\ Kept' \subseteq Kept
         /\ \A x \in Kept : x \in Kept' \/ x \in Lines(Count - 1)
         /\ \A x \in Kept', y \in Lines(Count - 1) : y < x
<1>1. \A n \in Places : n # Count - 1 => files'[n] = files[n] /\ Lines(n)' = Lines(n)
  BY RemovedFiles
<1>2. ~Exists(Count - 1)' /\ Lines(Count - 1)' = {}
  BY RemovedFiles
<1>3. Ascending'
  <2> SUFFICES ASSUME NEW n \in Places, Exists(n)', NEW j \in 1 .. Len(files[n])',
                      NEW k \in 1 .. Len(files[n])', j < k
               PROVE  files'[n][j].line < files'[n][k].line
    BY DEF Ascending, Places
  <2>1. n # Count - 1
    BY <1>2
  <2>2. files'[n] = files[n] /\ Exists(n)
    BY <1>1, <2>1 DEF Exists
  <2> QED BY <2>2, NoGapParts DEF Ascending
<1>4. Ordered'
  <2> SUFFICES ASSUME NEW n \in Places, NEW older \in Places, n < older,
                      NEW x \in Lines(older)', NEW y \in Lines(n)'
               PROVE  x < y
    BY DEF Ordered, Places
  <2>1. x \in Lines(older) /\ y \in Lines(n)
    BY <1>1, <1>2
  <2> QED BY <2>1, NoGapParts DEF Ordered
<1>5. Kept' \subseteq Kept /\ \A x \in Kept : x \in Kept' \/ x \in Lines(Count - 1)
  BY <1>1, <1>2, InKept, InKeptNext
<1>6. ASSUME NEW x \in Kept', NEW y \in Lines(Count - 1)
      PROVE  y < x
  <2>1. PICK n \in Places : x \in Lines(n)'
    BY InKeptNext
  <2>2. n # Count - 1 /\ x \in Lines(n)
    BY <1>1, <1>2, <2>1
  <2>3. n < Count - 1 /\ Count - 1 \in Places
    BY <2>2, ZeroInPlaces DEF Places
  <2> QED BY <2>2, <2>3, NoGapParts DEF Ordered
<1> QED BY <1>3, <1>4, <1>5, <1>6

LEMMA KeepsOrderRenamed ==
  ASSUME LoggerTyped, NoGap, pc = "rename", NEW m, m = i, Renamed
  PROVE  /\ Ascending' /\ Ordered'
         /\ Kept' \subseteq Kept
         /\ ~Exists(m + 1) => Kept' = Kept
<1>1. /\ m \in Places /\ m + 1 \in Places /\ m \in Int /\ m # m + 1
      /\ \A n \in Places : n \notin {m, m + 1} => files'[n] = files[n] /\ Lines(n)' = Lines(n)
      /\ files'[m + 1] = files[m] /\ ~Exists(m)'
      /\ Lines(m + 1)' = Lines(m) /\ Lines(m)' = {}
  BY RenamedFiles DEF Places
<1>2. Exists(m)
  BY DEF Renamed, Exists
<1>3. Ascending'
  <2> SUFFICES ASSUME NEW n \in Places, Exists(n)', NEW j \in 1 .. Len(files[n])',
                      NEW k \in 1 .. Len(files[n])', j < k
               PROVE  files'[n][j].line < files'[n][k].line
    BY DEF Ascending, Places
  <2>1. PICK old \in Places : files'[n] = files[old] /\ Exists(old)
    BY <1>1, <1>2 DEF Exists
  <2> QED BY <2>1, NoGapParts DEF Ascending
<1>4. Ordered'
  <2> SUFFICES ASSUME NEW n \in Places, NEW older \in Places, n < older,
                      NEW x \in Lines(older)', NEW y \in Lines(n)'
               PROVE  x < y
    BY DEF Ordered, Places
  <2>1. n # m /\ older # m
    BY <1>1
  <2>2. CASE older = m + 1
    <3>1. x \in Lines(m) /\ n < m /\ y \in Lines(n)
      BY <1>1, <2>1, <2>2 DEF Places
    <3> QED BY <1>1, <3>1, NoGapParts DEF Ordered
  <2>3. CASE n = m + 1
    <3>1. y \in Lines(m) /\ m < older /\ x \in Lines(older)
      BY <1>1, <2>1, <2>3 DEF Places
    <3> QED BY <1>1, <3>1, NoGapParts DEF Ordered
  <2>4. CASE older # m + 1 /\ n # m + 1
    BY <1>1, <2>1, <2>4, NoGapParts DEF Ordered
  <2> QED BY <2>2, <2>3, <2>4
<1>5. Kept' \subseteq Kept
  BY <1>1, InKept, InKeptNext
<1>6. ASSUME ~Exists(m + 1) PROVE Kept \subseteq Kept'
  <2>1. Lines(m + 1) = {}
    BY <1>6 DEF Lines
  <2> QED BY <1>1, <2>1, InKept, InKeptNext
<1> QED BY <1>3, <1>4, <1>5, <1>6

LEMMA KeepsOrderWritten ==
  ASSUME LoggerTyped, NoGap, Exists(0), Written
  PROVE  /\ Ascending' /\ Ordered'
         /\ Kept' = Kept \cup {written + 1}
<1>1. /\ \A n \in Places : n # 0 => files'[n] = files[n] /\ Lines(n)' = Lines(n)
      /\ Lines(0)' = Lines(0) \cup {written + 1} /\ 0 \in Places
      /\ Len(files'[0]) = Len(files[0]) + 1
      /\ \A k \in 1 .. Len(files[0]) : files'[0][k] = files[0][k]
      /\ files'[0][Len(files[0]) + 1] = [line |-> written + 1, day |-> stamp]
  BY WrittenFiles, ZeroInPlaces
<1>2. Kept \subseteq 1 .. written /\ written \in Nat
  BY NoGapParts DEF LoggerTyped
<1>3. Kept' = Kept \cup {written + 1}
  BY <1>1, InKept, InKeptNext
<1>4. Ascending'
  <2> SUFFICES ASSUME NEW n \in Places, Exists(n)', NEW j \in 1 .. Len(files[n])',
                      NEW k \in 1 .. Len(files[n])', j < k
               PROVE  files'[n][j].line < files'[n][k].line
    BY DEF Ascending, Places
  <2>1. CASE n # 0
    BY <1>1, <2>1, NoGapParts DEF Ascending, Exists
  <2>2. CASE n = 0
    <3>1. Len(files[0]) \in Nat /\ \A a \in 1 .. Len(files[0]) : files[0][a].line \in Lines(0)
      BY LinesOf, ZeroInPlaces
    <3>2. j \in 1 .. Len(files[0])
      BY <1>1, <2>2, <3>1
    <3>3. CASE k \in 1 .. Len(files[0])
      BY <1>1, <2>2, <3>2, <3>3, NoGapParts DEF Ascending
    <3>4. CASE k = Len(files[0]) + 1
      <4>1. files'[0][j].line \in Kept /\ files'[0][k].line = written + 1
        BY <1>1, <3>1, <3>2, <3>4, InKept
      <4>2. \A x \in Kept : x < written + 1
        BY <1>2
      <4>3. files'[0][j].line < files'[0][k].line
        BY <4>1, <4>2
      <4> QED BY <2>2, <4>3
    <3>5. k \in 1 .. Len(files[0]) + 1
      BY <1>1, <2>2
    <3>6. k \in 1 .. Len(files[0]) \/ k = Len(files[0]) + 1
      BY <3>1, <3>5
    <3> QED BY <3>3, <3>4, <3>6
  <2> QED BY <2>1, <2>2
<1>5. Ordered'
  <2> SUFFICES ASSUME NEW n \in Places, NEW older \in Places, n < older,
                      NEW x \in Lines(older)', NEW y \in Lines(n)'
               PROVE  x < y
    BY DEF Ordered, Places
  <2>1. older # 0
    BY DEF Places
  <2>2. x \in Lines(older)
    BY <1>1, <2>1
  <2>3. x \in 1 .. written
    BY <1>2, <2>2, InKept
  <2>4. CASE y \in Lines(n)
    BY <2>2, <2>4, NoGapParts DEF Ordered
  <2>5. CASE y = written + 1
    BY <1>2, <2>3, <2>5
  <2> QED BY <1>1, <2>4, <2>5
<1> QED BY <1>3, <1>4, <1>5

LEMMA KeepsNoGap ==
  LoggerTyped /\ Newest /\ RoomAbove /\ NoGap /\ [Next]_vars => NoGap'
<1> SUFFICES ASSUME LoggerTyped, Newest, RoomAbove, NoGap, [Next]_vars
             PROVE  Ascending' /\ Ordered' /\ (Kept \subseteq 1 .. written)' /\ Unbroken'
  BY NoGapParts DEF NoGap, Ascending, Ordered, Unbroken, Places
<1>1. PICK m : m = i
  OBVIOUS
<1>2. /\ written \in Nat /\ Kept \subseteq 1 .. written
      /\ ~disturbed => \A x \in Kept : x .. written \subseteq Kept
  BY NoGapParts DEF LoggerTyped, Unbroken
<1>3. /\ ~disturbed' => ~disturbed
      /\ pc # "write" => written' = written
  BY DEF Next, vars, Start, Log, Check, Close, RemoveOldest, Rename, RenameFails, Open, Write, Crash, NewDay
<1>4. CASE files' = files \/ Opened
  <2>1. Ascending' /\ Ordered' /\ Kept' = Kept
    <3>1. CASE Opened
      BY <3>1, KeepsOrderOpened
    <3>2. CASE files' = files
      <4>1. Ascending'
        BY <3>2, NoGapParts DEF Ascending, Exists
      <4> QED BY <3>2, <4>1, SameFilesSameLines, SameLines, NoGapParts
    <3> QED BY <1>4, <3>1, <3>2
  <2>2. written' = written
    <3>1. CASE Write
      <4>1. files' # files /\ pc = "write"
        <5>1. Len(files'[0]) = Len(files[0]) + 1 /\ Len(files[0]) \in Nat
          BY <3>1, WrittenFiles, LinesOf, ZeroInPlaces DEF Write, Written, Newest
        <5> QED BY <3>1, <5>1 DEF Write
      <4> QED BY <1>4, <4>1 DEF Opened
    <3>2. CASE ~Write
      BY <3>2 DEF Next, vars, Start, Log, Check, Close, RemoveOldest, Rename, RenameFails, Open, Crash, NewDay
    <3> QED BY <3>1, <3>2
  <2> QED BY <1>2, <1>3, <2>1, <2>2 DEF Unbroken
<1>5. CASE pc = "remove" /\ Removed
  <2>1. /\ Ascending' /\ Ordered' /\ Kept' \subseteq Kept
        /\ \A x \in Kept : x \in Kept' \/ x \in Lines(Count - 1)
        /\ \A x \in Kept', y \in Lines(Count - 1) : y < x
    BY <1>5, KeepsOrderRemoved
  <2>2. written' = written
    BY <1>3, <1>5
  <2>3. ASSUME ~disturbed', NEW x \in Kept', NEW y \in x .. written PROVE y \in Kept'
    <3>1. y \in Kept /\ x \in Int
      BY <1>2, <1>3, <2>1, <2>3
    <3>2. y \notin Lines(Count - 1)
      BY <2>1, <3>1
    <3> QED BY <2>1, <3>1, <3>2
  <2> QED BY <1>2, <2>1, <2>2, <2>3 DEF Unbroken
<1>6. CASE pc = "rename" /\ Renamed
  <2>1. /\ Ascending' /\ Ordered' /\ Kept' \subseteq Kept
        /\ ~Exists(m + 1) => Kept' = Kept
    BY <1>1, <1>6, KeepsOrderRenamed
  <2>2. written' = written /\ (~disturbed => Kept' = Kept)
    BY <1>1, <1>3, <1>6, <2>1 DEF RoomAbove
  <2> QED BY <1>2, <1>3, <2>1, <2>2 DEF Unbroken
<1>7. CASE pc = "write" /\ Exists(0) /\ Written
  <2>1. Ascending' /\ Ordered' /\ Kept' = Kept \cup {written + 1}
    BY <1>7, KeepsOrderWritten
  <2>2. written' = written + 1
    <3>1. files' # files
      <4>1. Len(files'[0]) = Len(files[0]) + 1 /\ Len(files[0]) \in Nat
        BY <1>7, WrittenFiles, LinesOf, ZeroInPlaces
      <4> QED BY <4>1
    <3> QED BY <1>7, <3>1 DEF Next, vars, Start, Log, Check, Close, RemoveOldest, Rename, RenameFails,
                              Open, Write, Crash, NewDay
  <2> QED BY <1>2, <1>3, <2>1, <2>2 DEF Unbroken
<1> QED BY <1>4, <1>5, <1>6, <1>7, HowFilesChange

LEMMA Rooms ==
  ASSUME NEW k \in Int
  PROVE  /\ Room(k) \in Int /\ Room(k - 1) = Room(k) - (FSize + 1)
         /\ Room(k + 1) = Room(k) + (FSize + 1)
         /\ k <= 0 => Room(k) <= 0
<1>1. PICK f \in Nat : f = FSize + 1
  BY LoggerAssumption
<1>2. /\ f * k \in Int /\ f * (k - 1) = f * k - f
      /\ f * (k + 1) = f * k + f
  OBVIOUS
<1>3. k <= 0 => f * k <= 0
  OBVIOUS
<1> QED BY <1>1, <1>2, <1>3 DEF Room

LEMMA Lengths ==
  ASSUME LoggerTyped
  PROVE  \A n \in Places : Length(n) \in Nat /\ (Exists(n) => Length(n) = Len(files[n]))
                           /\ (~Exists(n) => Length(n) = 0)
<1> SUFFICES ASSUME NEW n \in Places
             PROVE  Length(n) \in Nat /\ (Exists(n) => Length(n) = Len(files[n]))
                    /\ (~Exists(n) => Length(n) = 0)
  OBVIOUS
<1>1. CASE Exists(n)
  BY <1>1, LinesOf DEF Length
<1>2. CASE ~Exists(n)
  BY <1>2 DEF Length
<1> QED BY <1>1, <1>2

(* By size; the files as long as they should be. *)
Full == \A n \in 1 .. Count - 1 : Exists(n) => Length(n) = FSize + 1

LEMMA SizedParts ==
  Sized <=> (log_rotate_type = 0 /\ ~disturbed =>
               /\ Full
               /\ Length(0) <= FSize + 1
               /\ pc = "write" => Length(0) <= FSize
               /\ pc \in {"close", "remove", "rename"} => Length(0) = FSize + 1)
<1>1. Full <=> \A n \in 1 .. Count - 1 : Exists(n) => Len(files[n]) = FSize + 1
  BY DEF Full, Length
<1> QED BY <1>1 DEF Sized

LEMMA SizedPartsNext ==
  Sized' <=> (log_rotate_type' = 0 /\ ~disturbed' =>
               /\ Full'
               /\ Length(0)' <= FSize + 1
               /\ pc' = "write" => Length(0)' <= FSize
               /\ pc' \in {"close", "remove", "rename"} => Length(0)' = FSize + 1)
<1>1. Full' <=> (\A n \in 1 .. Count - 1 : Exists(n) => Len(files[n]) = FSize + 1)'
  BY DEF Full, Length
<1> QED BY <1>1 DEF Sized

(* What no step but one changes. *)
LEMMA Constants ==
  ASSUME LoggerTyped, [Next]_vars
  PROVE  /\ log_rotate_type' = log_rotate_type
         /\ ~disturbed' => ~disturbed
  BY DEF Next, vars, Start, Log, Check, Close, RemoveOldest, Rename, RenameFails, Open, Write, Crash, NewDay

LEMMA KeepsSized ==
  LoggerTyped /\ Newest /\ RoomAbove /\ Sized /\ [Next]_vars => Sized'
<1> SUFFICES ASSUME LoggerTyped, Newest, RoomAbove, Sized, [Next]_vars,
                    log_rotate_type = 0, ~disturbed, ~disturbed'
             PROVE  /\ Full'
                    /\ Length(0)' <= FSize + 1
                    /\ pc' = "write" => Length(0)' <= FSize
                    /\ pc' \in {"close", "remove", "rename"} => Length(0)' = FSize + 1
  BY SizedPartsNext, Constants
<1>1. /\ Full /\ Length(0) <= FSize + 1
      /\ pc = "write" => Length(0) <= FSize
      /\ pc \in {"close", "remove", "rename"} => Length(0) = FSize + 1
  BY SizedParts
<1>2. FSize \in Nat /\ 0 \in Places /\ Length(0) \in Nat /\ 1 .. Count - 1 \subseteq Places
      /\ 0 \notin 1 .. Count - 1 /\ Count \in Nat /\ Count > 1
  BY Lengths, ZeroInPlaces DEF Places
<1>3. ASSUME \A n \in Places : n # 0 => files'[n] = files[n] PROVE Full'
  <2>1. ASSUME NEW n \in 1 .. Count - 1 PROVE Exists(n)' = Exists(n) /\ Length(n)' = Length(n)
    BY <1>2, <1>3, <2>1 DEF Exists, Length
  <2> QED BY <1>1, <2>1 DEF Full
<1>4. CASE Start
  <2>1. Opened /\ pc' = "idle"
    BY <1>4 DEF Start, OpenNewest, Opened
  <2> QED BY <1>1, <1>2, <1>3, <2>1, OpenedFiles
<1>5. CASE Log \/ Check \/ Close
  <2>1. files' = files /\ Exists(0)
    BY <1>5 DEF Log, Check, Close, Newest
  <2>2. Length(0)' = Length(0) /\ Length(0) = Len(files[0])
    BY <1>2, <2>1, SameFilesSameLines, Lengths
  <2>3. CASE Log
    <3>1. pc' = "check"
      BY <2>3 DEF Log
    <3> QED BY <1>1, <1>2, <1>3, <2>1, <2>2, <3>1
  <2>4. CASE Check
    <3>1. /\ pc' = "close" => Length(0) > FSize
          /\ pc' = "write" => ~(Length(0) > FSize)
          /\ pc' \in {"close", "write"}
      BY <2>2, <2>4 DEF Check, NeedRotate
    <3> QED BY <1>1, <1>2, <1>3, <2>1, <2>2, <3>1
  <2>5. CASE Close
    <3>1. pc = "close" /\ pc' = "remove"
      BY <2>5 DEF Close
    <3> QED BY <1>1, <1>2, <1>3, <2>1, <2>2, <3>1
  <2> QED BY <1>5, <2>3, <2>4, <2>5
<1>6. CASE RemoveOldest
  <2>1. Removed /\ pc = "remove" /\ pc' = "rename"
    BY <1>6 DEF RemoveOldest, Removed
  <2>2. Length(0)' = Length(0)
    BY <1>2, <2>1, RemovedFiles
  <2>3. Full'
    <3> SUFFICES ASSUME NEW n \in 1 .. Count - 1, Exists(n)' PROVE Length(n)' = FSize + 1
      BY DEF Full
    <3>1. n # Count - 1 /\ n \in Places
      BY <1>2, <2>1, RemovedFiles
    <3>2. Exists(n) /\ Length(n)' = Length(n)
      BY <2>1, <3>1, RemovedFiles DEF Exists
    <3> QED BY <1>1, <3>2 DEF Full
  <2> QED BY <1>1, <2>1, <2>2, <2>3
<1>7. CASE Rename
  <2>1. PICK m : m = i
    OBVIOUS
  <2>2. m \in 0 .. Count - 2 /\ pc = "rename" /\ Length(0) = FSize + 1
    BY <1>1, <1>7, <2>1 DEF Rename, LoggerTyped
  <2>3. pc' = "open" \/ (pc' = "rename" /\ m # 0)
    BY <1>7, <2>1, <2>2 DEF Rename, NextRename
  <2>4. CASE ~Exists(m)
    <3>1. files' = files
      BY <1>7, <2>1, <2>4 DEF Rename
    <3> QED BY <1>1, <1>2, <1>3, <2>2, <2>3, <3>1, SameFilesSameLines
  <2>5. CASE Exists(m)
    <3>1. Renamed
      BY <1>7, <2>1, <2>5 DEF Rename, Renamed
    <3>2. /\ m \in Places /\ m + 1 \in Places
          /\ \A n \in Places : n \notin {m, m + 1} => files'[n] = files[n] /\ Length(n)' = Length(n)
          /\ Length(m + 1)' = Length(m) /\ ~Exists(m)' /\ Length(m)' = 0
      BY <2>1, <2>2, <3>1, RenamedFiles
    <3>3. Length(m) = FSize + 1
      <4>1. m = 0 \/ m \in 1 .. Count - 1
        BY <1>2, <2>2
      <4> QED BY <1>1, <2>2, <2>5, <4>1 DEF Full
    <3>4. Full'
      <4> SUFFICES ASSUME NEW n \in 1 .. Count - 1, Exists(n)' PROVE Length(n)' = FSize + 1
        BY DEF Full
      <4>1. n # m /\ n \in Places
        BY <1>2, <3>2
      <4>2. CASE n = m + 1
        BY <3>2, <3>3, <4>2
      <4>3. CASE n # m + 1
        <5>1. Exists(n) /\ Length(n)' = Length(n)
          BY <3>2, <4>1, <4>3 DEF Exists
        <5> QED BY <1>1, <5>1 DEF Full
      <4> QED BY <4>2, <4>3
    <3>5. CASE m = 0
      <4>1. Length(0)' = 0 /\ pc' = "open"
        BY <2>3, <3>2, <3>5
      <4> QED BY <1>2, <3>4, <4>1
    <3>6. CASE m # 0
      <4>1. Length(0)' = Length(0)
        <5>1. 0 \notin {m, m + 1}
          BY <2>2, <3>6
        <5> QED BY <1>2, <3>2, <5>1
      <4> QED BY <1>1, <2>2, <2>3, <3>4, <4>1
    <3> QED BY <3>5, <3>6
  <2> QED BY <2>4, <2>5
<1>8. CASE RenameFails
  BY <1>8 DEF RenameFails
<1>9. CASE Open
  <2>1. Opened /\ pc' = "write" /\ ~Exists(0)
    BY <1>9 DEF Open, OpenNewest, Opened, RoomAbove
  <2>2. Length(0)' = Length(0) /\ Length(0) = 0
    BY <1>2, <2>1, OpenedFiles, Lengths
  <2> QED BY <1>1, <1>2, <1>3, <2>1, <2>2, OpenedFiles
<1>10. CASE Write
  <2>1. Written /\ pc = "write" /\ pc' = "idle" /\ Exists(0)
    BY <1>10 DEF Write, Written, Newest
  <2>2. Length(0)' = Length(0) + 1
    BY <2>1, WrittenFiles
  <2> QED BY <1>1, <1>2, <1>3, <2>1, <2>2, WrittenFiles
<1>11. CASE Crash \/ NewDay \/ UNCHANGED vars
  <2>1. files' = files /\ (pc' \in {"down", "idle"} \/ pc' = pc)
    BY <1>11 DEF Crash, NewDay, vars
  <2>2. Length(0)' = Length(0)
    BY <1>2, <2>1, SameFilesSameLines
  <2> QED BY <1>1, <1>2, <1>3, <2>1, <2>2
<1> QED BY <1>4, <1>5, <1>6, <1>7, <1>8, <1>9, <1>10, <1>11 DEF Next

(* Distant, for one line of one file. *)
Far(p, x) == x + Length(0) + Room(p - 1 - crashes - Shifted(p)) <= written

LEMMA DistantParts ==
  Distant <=> (log_rotate_type = 0 /\ ~disturbed =>
                 \A p \in 1 .. Count - 1 : \A x \in Lines(p) : Far(p, x))
  BY DEF Distant, Far

LEMMA DistantPartsNext ==
  Distant' <=> (log_rotate_type' = 0 /\ ~disturbed' =>
                 \A p \in 1 .. Count - 1 : \A x \in Lines(p)' : Far(p, x)')
  BY DEF Distant, Far

LEMMA KeepsDistant ==
  LoggerTyped /\ Newest /\ RoomAbove /\ NoGap /\ Sized /\ Distant /\ [Next]_vars => Distant'
<1> SUFFICES ASSUME LoggerTyped, Newest, RoomAbove, NoGap, Sized, Distant, [Next]_vars,
                    log_rotate_type = 0, ~disturbed, ~disturbed',
                    NEW p \in 1 .. Count - 1, NEW x \in Lines(p)'
             PROVE  Far(p, x)'
  BY DistantPartsNext, Constants
<1>1. \A y \in Lines(p) : Far(p, y)
  BY DistantParts
<1>2. /\ p \in Places /\ p \in Int /\ p >= 1 /\ 0 \in Places /\ 0 # p
      /\ FSize \in Nat /\ Count \in Nat
      /\ Length(0) \in Nat /\ written \in Nat /\ crashes \in Nat
      /\ Shifted(p) \in {0, 1} /\ Shifted(p)' \in {0, 1}
  BY Lengths, ZeroInPlaces DEF Places, LoggerTyped, Shifted
<1>3. /\ \A n \in Places : \A y \in Lines(n) : y \in 1 .. written
  BY NoGapParts, InKept
<1>4. ASSUME Lines(p)' = Lines(p), Length(0)' = Length(0), written' = written,
             crashes' = crashes, Shifted(p)' = Shifted(p)
      PROVE  Far(p, x)'
  BY <1>1, <1>4 DEF Far
<1>5. CASE Start \/ Open
  <2>1. Opened /\ UNCHANGED <<written, crashes>> /\ pc # "rename" /\ pc' # "rename"
    BY <1>5 DEF Start, Open, OpenNewest, Opened
  <2> QED BY <1>2, <1>4, <2>1, OpenedFiles DEF Shifted
<1>6. CASE Log \/ Check \/ Close
  <2>1. files' = files /\ UNCHANGED <<written, crashes>> /\ pc # "rename" /\ pc' # "rename"
    BY <1>6 DEF Log, Check, Close
  <2> QED BY <1>2, <1>4, <2>1, SameFilesSameLines DEF Shifted
<1>7. CASE RemoveOldest
  <2>1. /\ Removed /\ UNCHANGED <<written, crashes>>
        /\ pc = "remove" /\ pc' = "rename" /\ i' = Count - 2
    BY <1>7 DEF RemoveOldest, Removed
  <2>2. p # Count - 1
    BY <2>1, RemovedFiles
  <2>3. Lines(p)' = Lines(p) /\ Length(0)' = Length(0)
    BY <1>2, <2>1, <2>2, RemovedFiles
  <2>4. Shifted(p) = 0 /\ Shifted(p)' = 0
    BY <1>2, <2>1 DEF Shifted
  <2> QED BY <1>4, <2>1, <2>3, <2>4
<1>8. CASE Rename
  <2>1. PICK m : m = i
    OBVIOUS
  <2>2. /\ m \in 0 .. Count - 2 /\ pc = "rename" /\ Length(0) = FSize + 1
        /\ ~Exists(m + 1) /\ Exists(0)
        /\ UNCHANGED <<written, crashes>>
    BY <1>8, <2>1, SizedParts DEF Rename, LoggerTyped, RoomAbove
  <2>3. /\ m = 0 => pc' = "open"
        /\ m # 0 => pc' = "rename" /\ i' = m - 1
    BY <1>8, <2>1, <2>2 DEF Rename, NextRename
  <2>4. Shifted(p) = IF p > m + 1 THEN 1 ELSE 0
    BY <2>1, <2>2 DEF Shifted
  <2>5. Shifted(p)' = IF m # 0 /\ p > m THEN 1 ELSE 0
    BY <2>2, <2>3 DEF Shifted
  <2>6. p # m + 1 => Lines(p)' = Lines(p) \/ Lines(p)' = {}
    <3>1. CASE Exists(m)
      BY <1>2, <1>8, <2>1, <2>2, <3>1, RenamedFiles DEF Rename, Renamed
    <3>2. CASE ~Exists(m)
      BY <1>2, <1>8, <2>1, <3>2, SameFilesSameLines DEF Rename
    <3> QED BY <3>1, <3>2
  <2>7. p = m + 1 => x \in Lines(m)
    <3>1. CASE Exists(m)
      BY <1>2, <1>8, <2>1, <2>2, <3>1, RenamedFiles DEF Rename, Renamed
    <3>2. CASE ~Exists(m)
      <4>1. p = m + 1 => Lines(p)' = Lines(p) /\ Lines(p) = {}
        BY <1>2, <1>8, <2>1, <2>2, <3>2, SameFilesSameLines DEF Rename, Lines
      <4> QED BY <4>1
    <3> QED BY <3>1, <3>2
  <2>8. CASE m = 0
    <3>1. Length(0)' = 0
      BY <1>2, <1>8, <2>1, <2>2, <2>8, RenamedFiles DEF Rename, Renamed
    <3>2. CASE p = 1
      <4>1. x \in 1 .. written /\ Shifted(p)' = 0
        BY <1>3, <2>2, <2>5, <2>7, <2>8, <3>2, ZeroInPlaces
      <4>2. Room(0 - crashes) \in Int /\ Room(0 - crashes) <= 0
        BY <1>2, Rooms
      <4>3. p - 1 - crashes' - Shifted(p)' = 0 - crashes
        BY <1>2, <2>2, <3>2, <4>1
      <4>4. x + 0 + Room(0 - crashes) <= written
        BY <1>2, <4>1, <4>2
      <4> QED BY <2>2, <3>1, <4>3, <4>4 DEF Far
    <3>3. CASE p # 1
      <4>1. Shifted(p) = 1 /\ Shifted(p)' = 0 /\ x \in Lines(p)
        BY <1>2, <2>4, <2>5, <2>6, <2>8, <3>3
      <4>2. PICK k : k = p - 1 - crashes
        OBVIOUS
      <4>3. x \in Int /\ k \in Int
        BY <1>2, <1>3, <4>1, <4>2
      <4>4. x + (FSize + 1) + Room(k - 1) <= written
        BY <1>1, <2>2, <4>1, <4>2 DEF Far
      <4>5. Room(k - 1) = Room(k) - (FSize + 1) /\ Room(k) \in Int
        BY <4>3, Rooms
      <4>6. x + 0 + Room(k) <= written
        BY <1>2, <4>3, <4>4, <4>5
      <4>7. p - 1 - crashes' - Shifted(p)' = k
        BY <1>2, <2>2, <4>1, <4>2, <4>3
      <4> QED BY <2>2, <3>1, <4>6, <4>7 DEF Far
    <3> QED BY <3>2, <3>3
  <2>9. CASE m # 0
    <3>1. Length(0)' = Length(0)
      <4>1. 0 \notin {m, m + 1}
        BY <2>2, <2>9
      <4>2. CASE Exists(m)
        BY <1>2, <1>8, <2>1, <2>2, <4>1, <4>2, RenamedFiles DEF Rename, Renamed
      <4>3. CASE ~Exists(m)
        BY <1>2, <1>8, <2>1, <4>3, SameFilesSameLines DEF Rename
      <4> QED BY <4>2, <4>3
    <3>2. CASE p # m + 1
      <4>1. Shifted(p)' = Shifted(p) \/ Lines(p)' = {}
        <5>1. CASE p # m
          BY <1>2, <2>2, <2>4, <2>5, <2>9, <3>2, <5>1
        <5>2. CASE p = m /\ Exists(m)
          BY <1>2, <1>8, <2>1, <2>2, <5>2, RenamedFiles DEF Rename, Renamed
        <5>3. CASE p = m /\ ~Exists(m)
          BY <1>2, <1>8, <2>1, <5>3, SameFilesSameLines DEF Rename, Lines
        <5> QED BY <5>1, <5>2, <5>3
      <4> QED BY <1>4, <2>2, <2>6, <3>1, <3>2, <4>1
    <3>3. CASE p = m + 1
      <4>1. m \in 1 .. Count - 1 /\ x \in Lines(m) /\ Shifted(m) = 0 /\ Shifted(p)' = 1
        BY <1>2, <2>1, <2>2, <2>5, <2>7, <2>9, <3>3 DEF Shifted
      <4>2. Far(m, x)
        BY <4>1, DistantParts
      <4>3. p - 1 - crashes' - Shifted(p)' = m - 1 - crashes - Shifted(m)
        BY <1>2, <2>2, <3>3, <4>1
      <4> QED BY <2>2, <3>1, <4>2, <4>3 DEF Far
    <3> QED BY <3>2, <3>3
  <2> QED BY <2>8, <2>9
<1>9. CASE RenameFails
  BY <1>9 DEF RenameFails
<1>10. CASE Write
  <2>1. /\ Written /\ Exists(0) /\ pc # "rename" /\ pc' # "rename"
        /\ written' = written + 1 /\ crashes' = crashes
    BY <1>10 DEF Write, Written, Newest
  <2>2. Lines(p)' = Lines(p) /\ Length(0)' = Length(0) + 1
    BY <1>2, <2>1, WrittenFiles
  <2>3. Shifted(p)' = 0 /\ Shifted(p) = 0
    BY <2>1 DEF Shifted
  <2>4. PICK r : r = Room(p - 1 - crashes - 0)
    OBVIOUS
  <2>5. r \in Int
    BY <1>2, <2>4, Rooms
  <2>6. x + Length(0) + r <= written /\ x \in Int
    BY <1>1, <1>2, <1>3, <2>2, <2>3, <2>4 DEF Far
  <2>7. x + (Length(0) + 1) + r <= written + 1
    BY <1>2, <2>5, <2>6
  <2> QED BY <2>1, <2>2, <2>3, <2>4, <2>7 DEF Far
<1>11. CASE Crash
  <2>1. files' = files /\ written' = written /\ crashes' = crashes + 1 /\ pc' # "rename"
    BY <1>11 DEF Crash
  <2>2. Lines(p)' = Lines(p) /\ Length(0)' = Length(0) /\ Shifted(p)' = 0
    BY <1>2, <2>1, SameFilesSameLines DEF Shifted
  <2>3. PICK k : k = p - 1 - crashes
    OBVIOUS
  <2>4. /\ k \in Int /\ Room(k) \in Int /\ Room(k - 1) = Room(k) - (FSize + 1)
        /\ x \in Int
    BY <1>2, <1>3, <2>2, <2>3, Rooms
  <2>5. x + Length(0) + Room(k - 1) <= written
    <3>1. CASE Shifted(p) = 1
      BY <1>1, <2>2, <2>3, <3>1 DEF Far
    <3>2. CASE Shifted(p) = 0
      <4>1. k - 0 = k
        BY <2>4
      <4>2. x + Length(0) + Room(k) <= written
        BY <1>1, <2>2, <2>3, <3>2, <4>1 DEF Far
      <4> QED BY <1>2, <2>4, <4>2
    <3> QED BY <1>2, <3>1, <3>2
  <2>6. p - 1 - crashes' - Shifted(p)' = k - 1
    BY <1>2, <2>1, <2>2, <2>3
  <2> QED BY <2>1, <2>2, <2>5, <2>6 DEF Far
<1>12. CASE NewDay \/ UNCHANGED vars
  <2>1. files' = files /\ UNCHANGED <<written, crashes, pc, i>>
    BY <1>12 DEF NewDay, vars
  <2> QED BY <1>2, <1>4, <2>1, SameFilesSameLines DEF Shifted
<1> QED BY <1>5, <1>6, <1>7, <1>8, <1>9, <1>10, <1>11, <1>12 DEF Next

(* The oldest file, when it goes, is one that history has no room for. *)
LEMMA KeepsHistory ==
  /\ LoggerTyped /\ Newest /\ RoomAbove /\ NoGap /\ Sized /\ Distant /\ HistoryKept
  /\ [Next]_vars
  => HistoryKept'
<1> SUFFICES ASSUME LoggerTyped, Newest, RoomAbove, NoGap, Sized, Distant, HistoryKept,
                    [Next]_vars, log_rotate_type = 0, ~disturbed, ~disturbed',
                    NEW x \in 1 .. written',
                    x > written' - (Count - 1 - crashes') * (FSize + 1)
             PROVE  x \in Kept'
  BY Constants DEF HistoryKept
<1>1. /\ FSize \in Nat /\ Count \in Nat /\ written \in Nat /\ crashes \in Nat
      /\ Length(0) \in Nat
  BY Lengths, ZeroInPlaces DEF LoggerTyped
<1>2. PICK c : c = Count - 1 - crashes
  OBVIOUS
<1>3. PICK r : r = Room(c)
  OBVIOUS
<1>4. /\ c \in Int /\ r \in Int /\ Room(c - 1) = r - (FSize + 1)
  BY <1>1, <1>2, <1>3, Rooms
<1>5. ASSUME NEW k \in Int PROVE k * (FSize + 1) = Room(k)
  BY <1>1 DEF Room
<1>6. c * (FSize + 1) = r
  BY <1>3, <1>4, <1>5
<1>7. \A y \in 1 .. written : y > written - r => y \in Kept
  BY <1>2, <1>6 DEF HistoryKept
<1>8. ASSUME Kept \subseteq Kept', written' = written, crashes' = crashes PROVE x \in Kept'
  BY <1>2, <1>6, <1>7, <1>8
<1>9. CASE Start \/ Open
  <2>1. Opened /\ UNCHANGED <<written, crashes>>
    BY <1>9 DEF Start, Open, OpenNewest, Opened
  <2> QED BY <1>8, <2>1, KeepsOrderOpened
<1>10. CASE Log \/ Check \/ Close \/ NewDay \/ UNCHANGED vars
  <2>1. files' = files /\ UNCHANGED <<written, crashes>>
    BY <1>10 DEF Log, Check, Close, NewDay, vars
  <2> QED BY <1>8, <2>1, SameFilesSameLines, SameLines
<1>11. CASE RemoveOldest
  <2>1. Removed /\ UNCHANGED <<written, crashes>> /\ pc = "remove"
    BY <1>11 DEF RemoveOldest, Removed
  <2>2. x > written - r /\ x \in 1 .. written
    BY <1>2, <1>6, <2>1
  <2>3. x \in Kept
    BY <1>7, <2>2
  <2>4. x \notin Lines(Count - 1)
    <3> SUFFICES ASSUME x \in Lines(Count - 1) PROVE FALSE
      OBVIOUS
    <3>1. Length(0) = FSize + 1 /\ Shifted(Count - 1) = 0 /\ Count - 1 \in 1 .. Count - 1
      BY <2>1, ZeroInPlaces, SizedParts DEF Shifted
    <3>2. Far(Count - 1, x)
      BY <3>1, DistantParts
    <3>3. Count - 1 - 1 - crashes - 0 = c - 1
      BY <1>1, <1>2
    <3>4. x + (FSize + 1) + (r - (FSize + 1)) <= written
      BY <1>4, <3>1, <3>2, <3>3 DEF Far
    <3> QED BY <1>1, <1>4, <2>2, <3>4
  <2> QED BY <2>1, <2>3, <2>4, KeepsOrderRemoved
<1>12. CASE Rename
  <2>1. PICK m : m = i
    OBVIOUS
  <2>2. pc = "rename" /\ ~Exists(m + 1) /\ UNCHANGED <<written, crashes>>
    BY <1>12, <2>1 DEF Rename, RoomAbove
  <2>3. Kept' = Kept
    <3>1. CASE Exists(m)
      BY <1>12, <2>1, <2>2, <3>1, KeepsOrderRenamed DEF Rename, Renamed
    <3>2. CASE ~Exists(m)
      BY <1>12, <2>1, <3>2, SameFilesSameLines, SameLines DEF Rename
    <3> QED BY <3>1, <3>2
  <2> QED BY <1>8, <2>2, <2>3
<1>13. CASE RenameFails
  BY <1>13 DEF RenameFails
<1>14. CASE Write
  <2>1. Written /\ Exists(0) /\ written' = written + 1 /\ crashes' = crashes
    BY <1>14 DEF Write, Written, Newest
  <2>2. Kept' = Kept \cup {written + 1}
    BY <2>1, KeepsOrderWritten
  <2>3. x > written + 1 - r
    <3>1. x > written' - c * (FSize + 1)
      BY <1>2, <2>1
    <3>2. x > written' - r
      BY <1>6, <3>1
    <3> QED BY <1>1, <1>4, <2>1, <3>2
  <2>4. CASE x # written + 1
    <3>1. x \in 1 .. written /\ x > written - r
      BY <1>1, <1>4, <2>1, <2>3, <2>4
    <3> QED BY <1>7, <2>2, <3>1
  <2> QED BY <2>2, <2>4
<1>15. CASE Crash
  <2>1. files' = files /\ written' = written /\ crashes' = crashes + 1
    BY <1>15 DEF Crash
  <2>2. Count - 1 - crashes' = c - 1
    BY <1>1, <1>2, <2>1
  <2>3. x > written - (r - (FSize + 1))
    BY <1>4, <1>5, <2>1, <2>2
  <2>4. x > written - r /\ x \in 1 .. written
    BY <1>1, <1>4, <2>1, <2>3
  <2> QED BY <1>7, <2>1, <2>4, SameFilesSameLines, SameLines
<1> QED BY <1>9, <1>10, <1>11, <1>12, <1>13, <1>14, <1>15 DEF Next

LEMMA KeepsDayed ==
  LoggerTyped /\ Newest /\ RoomAbove /\ Dayed /\ [Next]_vars => Dayed'
<1> SUFFICES ASSUME LoggerTyped, Newest, RoomAbove, Dayed, [Next]_vars,
                    log_rotate_type = 1, ~disturbed, ~disturbed', crashes' = 0
             PROVE  DayedParts'
  BY Constants DEF Dayed
<1>1. /\ crashes \in Nat /\ today \in Nat /\ day \in Nat /\ stamp \in Nat
      /\ 0 \in Places /\ Length(0) \in Nat
  BY ZeroInPlaces, Lengths DEF LoggerTyped
<1>2. crashes = 0 /\ ~Crash
  <2>1. crashes' = crashes \/ crashes' = crashes + 1
    BY DEF Next, vars, Start, Log, Check, Close, RemoveOldest, Rename, RenameFails, Open,
           Write, Crash, NewDay
  <2>2. ~Crash
    BY <1>1 DEF Crash
  <2> QED BY <1>1, <2>1, <2>2
<1>3. /\ today <= day
      /\ \A n \in Places : OneDay(n)
      /\ pc = "down" => \A n \in Places : ~Exists(n)
      /\ pc \in {"idle", "check", "write"} => OfToday
      /\ Stamped
  BY <1>2 DEF Dayed, DayedParts
<1>4. ASSUME NEW n \in Places, NEW old \in Places, Length(n)' = Length(old),
             Length(old) # 0 => files'[n] = files[old]
      PROVE  OneDay(n)'
  <2>1. Length(old) \in Nat /\ OneDay(old)
    BY <1>3, Lengths
  <2>2. CASE Length(old) = 0
    <3>1. 2 .. Length(n)' = {}
      BY <1>4, <2>2
    <3> QED BY <3>1 DEF OneDay
  <2>3. CASE Length(old) # 0
    BY <1>4, <2>1, <2>3 DEF OneDay
  <2> QED BY <2>2, <2>3
<1>5. ASSUME NEW n \in Places, Length(n)' = 0 PROVE OneDay(n)'
  <2>1. 2 .. Length(n)' = {}
    BY <1>5
  <2> QED BY <2>1 DEF OneDay
<1>6. ASSUME files' = files
      PROVE  /\ \A n \in Places : OneDay(n)'
             /\ Length(0)' = Length(0)
             /\ today' = today /\ OfToday => OfToday'
             /\ pc # "down" \/ \A n \in Places : ~Exists(n)'
  <2>1. Length(0)' = Length(0)
    BY <1>1, <1>6, SameFilesSameLines
  <2>2. \A n \in Places : OneDay(n)'
    BY <1>4, <1>6, SameFilesSameLines
  <2>3. today' = today /\ OfToday => OfToday'
    BY <1>6, <2>1 DEF OfToday
  <2>4. pc # "down" \/ \A n \in Places : ~Exists(n)'
    BY <1>3, <1>6 DEF Exists
  <2> QED BY <2>1, <2>2, <2>3, <2>4
<1>7. CASE Start
  <2>1. Opened /\ pc = "down" /\ pc' = "idle" /\ today' = day /\ day' = day
    BY <1>7 DEF Start, OpenNewest, Opened
  <2>2. \A n \in Places : Length(n)' = 0
    BY <1>3, <2>1, OpenedFiles, Lengths
  <2>3. 1 .. Length(0)' = {}
    BY <1>1, <2>2
  <2>4. OfToday'
    BY <2>3 DEF OfToday
  <2> QED BY <1>1, <1>5, <2>1, <2>2, <2>4 DEF DayedParts, Stamped
<1>8. CASE Log
  <2>1. /\ files' = files /\ UNCHANGED <<day, today>> /\ pc = "idle" /\ pc' = "check"
        /\ stamp' = day
    BY <1>8 DEF Log
  <2>2. Stamped'
    BY <1>1, <1>3, <2>1 DEF Stamped
  <2> QED BY <1>1, <1>3, <1>6, <2>1, <2>2 DEF DayedParts
<1>9. CASE Check
  <2>1. /\ files' = files /\ UNCHANGED <<day, today, stamp>> /\ pc = "check"
        /\ pc' \in {"close", "write"}
        /\ pc' = "write" => ~(day > today)
    BY <1>9 DEF Check, NeedRotate
  <2>2. today <= stamp /\ stamp <= day
    BY <1>3, <2>1 DEF Stamped
  <2>3. pc' = "write" => stamp = today
    BY <1>1, <2>1, <2>2
  <2>4. Stamped'
    BY <1>1, <2>1, <2>2, <2>3 DEF Stamped
  <2> QED BY <1>1, <1>3, <1>6, <2>1, <2>4 DEF DayedParts
<1>10. CASE Close
  <2>1. /\ files' = files /\ UNCHANGED <<day, stamp>> /\ pc = "close" /\ pc' = "remove"
        /\ today' = day
    BY <1>10 DEF Close
  <2>2. Stamped'
    BY <1>1, <1>3, <2>1 DEF Stamped
  <2> QED BY <1>1, <1>6, <2>1, <2>2 DEF DayedParts
<1>11. CASE RemoveOldest
  <2>1. /\ Removed /\ UNCHANGED <<today, day, stamp>> /\ pc = "remove" /\ pc' = "rename"
    BY <1>11 DEF RemoveOldest, Removed
  <2>2. ASSUME NEW n \in Places PROVE OneDay(n)'
    <3>1. CASE n = Count - 1
      BY <1>5, <2>1, <3>1, RemovedFiles DEF Length
    <3>2. CASE n # Count - 1
      BY <1>4, <2>1, <3>2, RemovedFiles
    <3> QED BY <3>1, <3>2
  <2>3. Stamped'
    BY <1>3, <2>1 DEF Stamped
  <2> QED BY <1>3, <2>1, <2>2, <2>3 DEF DayedParts
<1>12. CASE Rename
  <2>1. PICK m : m = i
    OBVIOUS
  <2>2. /\ pc = "rename" /\ pc' \in {"rename", "open"} /\ UNCHANGED <<today, day, stamp>>
    BY <1>12 DEF Rename, NextRename
  <2>3. ASSUME NEW n \in Places PROVE OneDay(n)'
    <3>1. CASE ~Exists(m)
      BY <1>6, <1>12, <2>1, <3>1 DEF Rename
    <3>2. CASE Exists(m)
      <4>1. Renamed
        BY <1>12, <2>1, <3>2 DEF Rename, Renamed
      <4>2. /\ m \in Places /\ m + 1 \in Places
            /\ n \notin {m, m + 1} => files'[n] = files[n] /\ Length(n)' = Length(n)
            /\ files'[m + 1] = files[m] /\ Length(m + 1)' = Length(m) /\ Length(m)' = 0
        BY <2>1, <2>2, <4>1, RenamedFiles
      <4>3. CASE n = m
        BY <1>5, <4>2, <4>3
      <4>4. CASE n = m + 1
        BY <1>4, <4>2, <4>4
      <4>5. CASE n \notin {m, m + 1}
        BY <1>4, <4>2, <4>5
      <4> QED BY <4>3, <4>4, <4>5
    <3> QED BY <3>1, <3>2
  <2>4. Stamped'
    BY <1>3, <2>2 DEF Stamped
  <2> QED BY <1>3, <2>2, <2>3, <2>4 DEF DayedParts
<1>13. CASE RenameFails
  BY <1>13 DEF RenameFails
<1>14. CASE Open
  <2>1. /\ Opened /\ pc' = "write" /\ pc = "open" /\ UNCHANGED <<today, day, stamp>>
        /\ ~Exists(0)
    BY <1>14 DEF Open, OpenNewest, Opened, RoomAbove
  <2>2. /\ \A n \in Places : n # 0 => files'[n] = files[n]
        /\ \A n \in Places : Length(n)' = Length(n)
        /\ Length(0) = 0
    BY <1>1, <2>1, OpenedFiles, Lengths
  <2>3. ASSUME NEW n \in Places PROVE OneDay(n)'
    <3>1. CASE n = 0
      BY <1>5, <2>2, <3>1
    <3>2. CASE n # 0
      BY <1>4, <2>2, <3>2
    <3> QED BY <3>1, <3>2
  <2>4. Length(0)' = 0 /\ 1 .. Length(0)' = {}
    BY <1>1, <2>2
  <2>5. OfToday'
    BY <2>4 DEF OfToday
  <2>6. Stamped'
    BY <1>3, <2>1, <2>4 DEF Stamped
  <2> QED BY <1>3, <2>1, <2>3, <2>5, <2>6 DEF DayedParts
<1>15. CASE Write
  <2>1. /\ Written /\ Exists(0) /\ pc = "write" /\ pc' = "idle" /\ UNCHANGED <<today, day>>
    BY <1>15 DEF Write, Written, Newest
  <2>2. PICK len : len = Length(0)
    OBVIOUS
  <2>3. /\ \A n \in Places : n # 0 => files'[n] = files[n] /\ Length(n)' = Length(n)
        /\ Length(0)' = len + 1 /\ len \in Nat
        /\ \A k \in 1 .. len : files'[0][k] = files[0][k]
        /\ files'[0][len + 1].day = stamp
    BY <1>1, <2>1, <2>2, WrittenFiles, LinesOf
  <2>4. stamp <= today /\ (stamp = today \/ len = 0)
    BY <1>3, <2>1, <2>2 DEF Stamped
  <2>5. \A k \in 1 .. len : files[0][k].day <= today /\ (k # 1 => files[0][k].day = today)
    BY <1>3, <2>1, <2>2 DEF OfToday
  <2>6. ASSUME NEW k \in 1 .. len + 1
        PROVE  files'[0][k].day <= today /\ (k # 1 => files'[0][k].day = today)
    <3>1. CASE k \in 1 .. len
      BY <2>3, <2>5, <3>1
    <3>2. CASE k = len + 1
      BY <2>3, <2>4, <3>2
    <3> QED BY <2>3, <3>1, <3>2
  <2>7. OfToday'
    BY <2>1, <2>3, <2>6 DEF OfToday
  <2>8. ASSUME NEW n \in Places PROVE OneDay(n)'
    <3>1. CASE n # 0
      BY <1>4, <2>3, <3>1
    <3>2. CASE n = 0
      <4> SUFFICES ASSUME NEW k \in 2 .. len + 1
                   PROVE  files'[0][k].day = files'[0][2].day /\ files'[0][1].day <= files'[0][k].day
        BY <2>3, <3>2 DEF OneDay
      <4>1. /\ k \in 1 .. len + 1 /\ k # 1
            /\ 2 \in 1 .. len + 1 /\ 2 # 1
            /\ 1 \in 1 .. len + 1
        BY <2>3
      <4>2. files'[0][k].day = today /\ files'[0][2].day = today /\ files'[0][1].day <= today
        BY <2>6, <4>1
      <4> QED BY <4>2
    <3> QED BY <3>1, <3>2
  <2>9. Stamped'
    BY <2>1 DEF Stamped
  <2> QED BY <1>3, <2>1, <2>7, <2>8, <2>9 DEF DayedParts
<1>16. CASE NewDay
  <2>1. files' = files /\ UNCHANGED <<pc, today, stamp>> /\ day' = day + 1
    BY <1>16 DEF NewDay
  <2>2. Stamped'
    <3>1. stamp <= day => stamp <= day + 1
      BY <1>1
    <3> QED BY <1>3, <1>6, <2>1, <3>1 DEF Stamped
  <2>3. today' <= day'
    BY <1>1, <1>3, <2>1
  <2> QED BY <1>3, <1>6, <2>1, <2>2, <2>3 DEF DayedParts
<1>17. CASE UNCHANGED vars
  <2>1. files' = files /\ UNCHANGED <<pc, today, day, stamp>>
    BY <1>17 DEF vars
  <2>2. Stamped'
    BY <1>3, <1>6, <2>1 DEF Stamped
  <2> QED BY <1>3, <1>6, <2>1, <2>2 DEF DayedParts
<1> QED BY <1>2, <1>7, <1>8, <1>9, <1>10, <1>11, <1>12, <1>13, <1>14, <1>15, <1>16, <1>17 DEF Next

LEMMA InitLogger == Init => LoggerInv
<1> SUFFICES ASSUME Init PROVE LoggerInv
  OBVIOUS
<1>1. /\ \A n \in Places : files[n] = Absent
      /\ files \in [Places -> Seq(Entry) \cup {Absent}]
      /\ pc = "down" /\ written = 0 /\ crashes = 0 /\ disturbed = FALSE
  BY DEF Init, Places
<1>2. \A n \in Places : ~Exists(n) /\ Lines(n) = {} /\ Length(n) = 0
  BY <1>1 DEF Exists, Lines, Length
<1>3. 0 \in Places /\ 1 .. Count - 1 \subseteq Places /\ FSize \in Nat
  BY ZeroInPlaces DEF Places
<1>4. LoggerTyped /\ Newest /\ RoomAbove
  BY <1>1 DEF Init, LoggerTyped, Newest, RoomAbove
<1>5. NoGap
  <2>1. Kept = {}
    BY <1>2, InKept
  <2> QED BY <1>2, <2>1, NoGapParts DEF Ascending, Ordered, Unbroken
<1>6. Sized /\ Distant
  BY <1>1, <1>2, <1>3, SizedParts, DistantParts DEF Full
<1>7. HistoryKept
  <2>1. 1 .. written = {}
    BY <1>1
  <2> QED BY <2>1 DEF HistoryKept
<1>8. Dayed
  <2>1. today = 0 /\ day = 0
    BY DEF Init
  <2>2. \A n \in Places : OneDay(n)
    BY <1>2 DEF OneDay
  <2>3. pc = "down" /\ pc \notin {"idle", "check", "write", "close", "remove", "rename", "open"}
    BY <1>1
  <2> QED BY <1>2, <2>1, <2>2, <2>3 DEF Dayed, DayedParts, Stamped
<1> QED BY <1>4, <1>5, <1>6, <1>7, <1>8 DEF LoggerInv

LEMMA NextLogger == LoggerInv /\ [Next]_vars => LoggerInv'
  BY KeepsTyped, KeepsRoom, KeepsNoGap, KeepsSized, KeepsDistant, KeepsHistory, KeepsDayed
     DEF LoggerInv

LEMMA LoggerInvariant == Spec => []LoggerInv
  BY InitLogger, NextLogger, PTL DEF Spec

(* What rotate_log() keeps of the log is in order, no line twice, and has  *)
(* no hole, also when the process has ended between two of its calls.      *)
THEOREM LogHasNoGap == Spec => []NoGap
<1>1. LoggerInv => NoGap
  BY DEF LoggerInv
<1> QED BY <1>1, LoggerInvariant, PTL

(* rotate_log() removes no line that log_rotate_count files have room for; *)
(* each end of the process costs one file of that history at most.         *)
THEOREM HistoryIsKept == Spec => []HistoryKept
<1>1. LoggerInv => HistoryKept
  BY DEF LoggerInv
<1> QED BY <1>1, LoggerInvariant, PTL

(* By size rotate_log() lets no file grow by more than a line over its     *)
(* limit; by day, in the first process, a file has the lines of one day,   *)
(* but for a first one that midnight has overtaken.                        *)
THEOREM FilesAreBounded == Spec => []FilesBounded
<1>1. LoggerInv => FilesBounded
  <2> SUFFICES ASSUME LoggerInv, NEW n \in Places, Exists(n), ~disturbed
               PROVE  IF log_rotate_type = 0 THEN Len(files[n]) <= FSize + 1
                      ELSE crashes = 0 => \A k \in 2 .. Len(files[n]) :
                                             /\ files[n][k].day = files[n][2].day
                                             /\ files[n][1].day <= files[n][k].day
    BY DEF FilesBounded, Places
  <2>1. Length(n) = Len(files[n]) /\ FSize \in Nat /\ (n = 0 \/ n \in 1 .. Count - 1)
    BY Lengths, ZeroInPlaces DEF LoggerInv, Places
  <2>2. CASE log_rotate_type = 0
    BY <2>1, <2>2, SizedParts DEF LoggerInv, Full
  <2>3. CASE log_rotate_type # 0
    BY <2>1, <2>3 DEF LoggerInv, LoggerTyped, Dayed, DayedParts, OneDay
  <2> QED BY <2>2, <2>3
<1> QED BY <1>1, LoggerInvariant, PTL
=============================================================================
