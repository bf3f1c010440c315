-------------------------------- MODULE Dict --------------------------------
(***************************************************************************)
(* dict/dict.cpp: a dictionary that numbers terms in the order of their    *)
(* insertion, and the file it is saved to: the largest number, the number  *)
(* of terms, the terms.  save() checks no write, and load() overwrites the *)
(* largest number before it knows whether it will succeed.                 *)
(***************************************************************************)
EXTENDS Integers, FiniteSets

CONSTANTS Signs,              \* signatures of terms
          NoFile,             \* a file that does not exist
          MaxID, MaxFreq      \* bounds on term IDs and on the frequency of a term

ASSUME DictAssumption == IsFiniteSet(Signs) /\ {MaxID, MaxFreq} \subseteq Nat

VARIABLES mDictMap,           \* a function on the signatures that are in the map
          mCurrMaxID,
          dictf,              \* the file
          misled,             \* mCurrMaxID is not the map's: a load has thrown
          asSaved             \* the dictionary when the last save() began

dvars == <<mDictMap, mCurrMaxID, dictf, misled, asSaved>>

Terms == DOMAIN mDictMap
NoTerms == [sign \in {} |-> 0]
New == [map |-> NoTerms, max |-> -1, misled |-> FALSE]

DictInit == /\ mDictMap = NoTerms /\ mCurrMaxID = -1
            /\ dictf = NoFile
            /\ misled = FALSE
            /\ asSaved = New

(* A term counted once more, or numbered; insertTerm() signs its argument  *)
(* and comes here.                                                         *)
insertSign(sign) ==
    /\ \/ /\ sign \in Terms
          /\ mDictMap[sign].termFreq < MaxFreq
          /\ mDictMap' = [mDictMap EXCEPT ![sign].termFreq = @ + 1]
          /\ UNCHANGED mCurrMaxID
       \/ /\ sign \notin Terms /\ mCurrMaxID < MaxID
          /\ mCurrMaxID' = mCurrMaxID + 1
          /\ mDictMap' = [s \in Terms \cup {sign} |->
                            IF s = sign THEN [termID |-> mCurrMaxID + 1, termFreq |-> 1]
                            ELSE mDictMap[s]]
    /\ UNCHANGED <<dictf, misled, asSaved>>

(* save() truncates the file and writes its parts in turn: parts counts    *)
(* the fields of the header that got there.  When a write fails the rest   *)
(* of them do, and save() returns all the same; when the process ends      *)
(* instead the file is no different.  A file that cannot be opened stays.  *)
File(parts, terms) == [parts |-> parts, max |-> mCurrMaxID, num |-> Cardinality(Terms),
                       pairs |-> [s \in terms |-> mDictMap[s]]]

Save ==
    /\ \/ \E parts \in 0 .. 2 : dictf' = File(parts, {})
       \/ \E terms \in SUBSET Terms : dictf' = File(2, terms)
    /\ asSaved' = [map |-> mDictMap, max |-> mCurrMaxID, misled |-> misled]
    /\ UNCHANGED <<mDictMap, mCurrMaxID, misled>>

(* A read of the pairs whose failure goes unnoticed. *)
TrustingLoadable == dictf.parts = 2 /\ dictf.max + 1 >= dictf.num

(* The logical check, and the read of term_num pairs. *)
Loadable == /\ dictf.parts = 2
            /\ dictf.max + 1 >= dictf.num
            /\ Cardinality(DOMAIN dictf.pairs) = dictf.num

(* The pairs inserted into a map that was not cleared. *)
MergingLoad ==
    /\ dictf # NoFile /\ Loadable
    /\ mDictMap' = [s \in Terms \cup DOMAIN dictf.pairs |->
                      IF s \in Terms THEN mDictMap[s] ELSE dictf.pairs[s]]
    /\ mCurrMaxID' = dictf.max
    /\ misled' = asSaved.misled
    /\ UNCHANGED <<dictf, asSaved>>

Load ==
    /\ dictf # NoFile /\ Loadable
    /\ mDictMap' = dictf.pairs
    /\ mCurrMaxID' = dictf.max
    /\ misled' = asSaved.misled
    /\ UNCHANGED <<dictf, asSaved>>

(* load() throws: the map is as before, mCurrMaxID need not be. *)
LoadThrows ==
    /\ dictf # NoFile /\ ~Loadable
    /\ mCurrMaxID' = IF dictf.parts = 0 THEN mCurrMaxID ELSE dictf.max
    /\ misled' = (misled \/ mCurrMaxID' # mCurrMaxID)
    /\ UNCHANGED <<mDictMap, dictf, asSaved>>

(* A new process. *)
DictRestart ==
    /\ mDictMap' = NoTerms /\ mCurrMaxID' = -1
    /\ misled' = FALSE
    /\ UNCHANGED <<dictf, asSaved>>

DictNext == (\E sign \in Signs : insertSign(sign)) \/ Save \/ Load \/ LoadThrows

DictSpec == DictInit /\ [][DictNext \/ DictRestart]_dvars
-----------------------------------------------------------------------------
(* Term IDs come from an integer that grows in sequence (dict.h:66): over  *)
(* inserts, saves, crashes and loads no two terms share one, none is left  *)
(* out, and mCurrMaxID is the last - unless a load() has thrown after it   *)
(* had read the number of another dictionary.                              *)
IdsDense ==
    ~misled => /\ {mDictMap[s].termID : s \in Terms} = 0 .. mCurrMaxID
               /\ Cardinality(Terms) = mCurrMaxID + 1

(* save() reports no failure, so load() must tell a file that was cut      *)
(* short: what it accepts is the whole dictionary that was saved last.     *)
LoadsWhole == [][Load => mDictMap' = asSaved.map /\ mCurrMaxID' = asSaved.max]_dvars
=============================================================================
