------------------------------- MODULE MCFiles -------------------------------
(***************************************************************************)
(* Small instances of what keeps files: a process that keeps a dictionary, *)
(* an index, a log or a saved cache.  They share nothing.  What a process  *)
(* does with a cache that is not whole is not followed.                    *)
(***************************************************************************)
EXTENDS Dict, CommonIndex, Logger

CONSTANTS NoSign, NoValue

Part(off, cnt) == [off |-> off, cnt |-> cnt]

(* An empty index, small ones, and one that load() finds too long. *)
SomeIndexes == { << <<>>, <<>> >>,
                 << <<Part(0, 1)>>, <<"a">> >>,
                 << <<Part(0, 0), Part(0, 2)>>, <<"b", "c">> >>,
                 << <<Part(0, 1)>>, <<"a", "b", "c">> >> }

VARIABLES held,
          m, found, broken, head, idx1, idx2, saving, sound, alone, saved

Two == {<<0, 0>>, <<1, 0>>}

Cache == INSTANCE CachePersistence
         WITH Size <- 2, Share <- 2, asSaved <- saved,
              Signs <- Two, Values <- {1}, Inserted <- Two \X {1},
              Sought <- {}, Removed <- {<<1, 0>>}

cvars == <<m, found, broken, head, idx1, idx2, saving, sound, alone, saved>>

FilesInit == /\ DictInit /\ IndexInit /\ Init /\ Cache!PInit
             /\ held \in {"dictionary", "index", "log", "cache"}
             /\ held = "log" \/ log_rotate_type = 0

FilesNext ==
    \/ /\ held = "dictionary"
       /\ DictNext \/ DictRestart
       /\ UNCHANGED <<ivars, vars, cvars, held>>
    \/ /\ held = "index"
       /\ IndexNext \/ IndexRestart
       /\ UNCHANGED <<dvars, vars, cvars, held>>
    \/ /\ held = "log"
       /\ Next
       /\ UNCHANGED <<dvars, ivars, cvars, held>>
    \/ /\ held = "cache"
       /\ Cache!PNext
       /\ ~broken \/ Cache!Restart
       /\ UNCHANGED <<dvars, ivars, vars, held>>

FilesSpec == FilesInit /\ [][FilesNext]_<<dvars, ivars, vars, cvars, held>>

RestartRestores == Cache!RestartRestores
=============================================================================
