----------------------------- MODULE CommonIndex -----------------------------
(***************************************************************************)
(* container/CommonIndex.h: an array of (off, cnt) that point into a       *)
(* second array, built in memory, dumped to two files and loaded back.     *)
(* No write is checked, nor the read of the elements.  Each pointer is     *)
(* null, owns an array, or dangles: loadData() deletes an array and throws *)
(* before the pointer is set again.  size1() and size2() are the lengths   *)
(* of the sequences in items.                                              *)
(***************************************************************************)
EXTENDS Naturals, Sequences, FiniteSets

CONSTANTS Indexes,            \* what is built: pairs of a first and a second array
          Junk,               \* an element of memory that is not initialised, or freed
          NoIndex,            \* a file that does not exist
          Headless,           \* a file that ends before the number of its items
          MaxItems            \* MAX_ITEM_NUM

Arrays == {1, 2}
Both(x) == [a \in Arrays |-> x]

(* What the elements of the two arrays are. *)
Items == [a \in Arrays |-> {Junk} \cup UNION {{built[a][n] : n \in DOMAIN built[a]} : built \in Indexes}]

ASSUME IndexAssumption ==
    /\ MaxItems \in Nat
    /\ \A built \in Indexes : /\ DOMAIN built = Arrays
                              /\ \A a \in Arrays : built[a] \in Seq(Items[a])

VARIABLES ptr, items,         \* mIndex1 and mIndex2, and their contents
          index,              \* the two files
          dumping,            \* dump() has written the first file only
          twice,              \* an array was deleted twice: the heap is not sound
          asDumped,           \* each array, when its file was last opened for it
          short               \* the arrays of which read() gave less than their file has

ivars == <<ptr, items, index, dumping, twice, asDumped, short>>

IndexInit == /\ ptr = Both("null") /\ items = Both(<<>>)
             /\ index = Both(NoIndex)
             /\ dumping = FALSE /\ twice = FALSE
             /\ asDumped = Both(<<>>) /\ short = {}

(* delete [] of the arrays in A whose pointer is not null. *)
Deleted(A) == twice' = (twice \/ \E a \in A : ptr[a] = "dangling")

(* resize() and the caller's filling of idx1() and idx2(); a deleted       *)
(* pointer is set to null before an array is allocated, if one is.         *)
Build ==
    /\ ~dumping /\ ~twice
    /\ Deleted(Arrays)
    /\ \E built \in Indexes :
         /\ items' = built
         /\ ptr' = [a \in Arrays |-> IF built[a] = <<>> THEN "null" ELSE "owned"]
    /\ UNCHANGED <<index, dumping, asDumped, short>>

(* What may be in a file when dumpData() is done. *)
Dumped(a) == {[num |-> Len(items[a]), items |-> SubSeq(items[a], 1, n)] :
                 n \in 0 .. IF ptr[a] = "null" THEN 0 ELSE Len(items[a])}
             \cup {Headless}

DumpOf(a) == /\ \E file \in Dumped(a) : index' = [index EXCEPT ![a] = file]
             /\ asDumped' = [asDumped EXCEPT ![a] = items[a]]

(* dump(), file by file: one that cannot be opened throws, and stays as it *)
(* is.                                                                     *)
DumpFirst ==
    /\ ~dumping /\ ~twice
    /\ DumpOf(1)
    /\ dumping' = TRUE
    /\ UNCHANGED <<ptr, items, twice, short>>

DumpSecond ==
    /\ dumping
    /\ dumping' = FALSE
    /\ DumpOf(2) \/ UNCHANGED <<index, asDumped>>
    /\ UNCHANGED <<ptr, items, twice, short>>

(* A length that is not compared. *)
TrustingReadable(a) == index[a] \notin {NoIndex, Headless} /\ index[a].num <= MaxItems

(* The strict comparison of the file's length with its head. *)
Readable(a) == /\ index[a] \notin {NoIndex, Headless}
               /\ index[a].num <= MaxItems
               /\ Len(index[a].items) = index[a].num

(* An array of which read() has filled in the first got elements: what     *)
(* does not come is left as it was.                                        *)
Read(a, got) == [n \in 1 .. index[a].num |-> IF n <= got THEN index[a].items[n] ELSE Junk]

CutShort(a, got) == got < Len(index[a].items)

(* load(): both arrays replaced ... *)
LoadIndex ==
    /\ ~dumping /\ ~twice
    /\ \A a \in Arrays : Readable(a)
    /\ Deleted(Arrays)
    /\ ptr' = Both("owned")
    /\ \E one \in 0 .. Len(index[1].items), two \in 0 .. Len(index[2].items) :
         /\ items' = <<Read(1, one), Read(2, two)>>
         /\ short' = {a \in Arrays : CutShort(a, <<one, two>>[a])}
    /\ UNCHANGED <<index, dumping, asDumped>>

(* What loadData() leaves where it throws: an array of no length, or of    *)
(* the length that the refused file has in its head, and not in memory.    *)
Refused(a) == [n \in 1 .. CASE index[a] \notin {NoIndex, Headless} -> index[a].num
                            [] ptr[a] = "null" -> Len(items[a])
                            [] OTHER -> 0 |-> Junk]

(* ... or the first, or none, before one of the files is refused. *)
LoadIndexThrows ==
    /\ ~dumping /\ ~twice
    /\ \/ /\ ~Readable(1)
          /\ Deleted({1})
          /\ items' = [items EXCEPT ![1] = Refused(1)]
          /\ ptr' = [ptr EXCEPT ![1] = IF @ = "null" THEN @ ELSE "dangling"]
          /\ UNCHANGED short
       \/ /\ Readable(1) /\ ~Readable(2)
          /\ Deleted(Arrays)
          /\ \E one \in 0 .. Len(index[1].items) :
               /\ items' = <<Read(1, one), Refused(2)>>
               /\ short' = IF CutShort(1, one) THEN {1} ELSE {}
          /\ ptr' = <<"owned", IF ptr[2] = "null" THEN "null" ELSE "dangling">>
    /\ UNCHANGED <<index, dumping, asDumped>>

(* The destructor, and a new object. *)
Replace ==
    /\ ~dumping /\ ~twice
    /\ Deleted(Arrays)
    /\ ptr' = Both("null") /\ items' = Both(<<>>)
    /\ UNCHANGED <<index, dumping, asDumped, short>>

(* A new process: the files are what they are. *)
IndexRestart ==
    /\ ptr' = Both("null") /\ items' = Both(<<>>)
    /\ dumping' = FALSE /\ twice' = FALSE
    /\ UNCHANGED <<index, asDumped, short>>

IndexNext == Build \/ DumpFirst \/ DumpSecond \/ LoadIndex \/ LoadIndexThrows \/ Replace

IndexSpec == IndexInit /\ [][IndexNext \/ IndexRestart]_ivars
-----------------------------------------------------------------------------
(* dump() reports no failed write, so load() must tell a file that was cut *)
(* short: over every history of dumps that lost their writes or were       *)
(* broken off between the two files, of refused loads and of restarts,     *)
(* each array it answers with is as long as the array that was dumped last *)
(* into that file, and is that array, except where read() has given less   *)
(* than there is.  The two files need not be of one dump.                  *)
ArraysAsDumped ==
    [][LoadIndex => \A a \in Arrays :
          /\ Len(items'[a]) = Len(asDumped[a])
          /\ \A n \in 1 .. Len(asDumped[a]) : items'[a][n] \in {asDumped[a][n], Junk}
          /\ a \notin short' => items'[a] = asDumped[a]]_ivars
=============================================================================
