------------------------------ MODULE FileBlocks ------------------------------
(***************************************************************************)
(* What the recorder promises about the preallocated file blocks on disk:  *)
(* every block has one owner at a time.  A block is free (unused, recycled *)
(* or holding a finished recording that may be recycled), in the pool of   *)
(* preallocated blocks, owned by one device's writer, or lost to the       *)
(* recorder until the next start of the process.  A writer obtains blocks  *)
(* from the pool only and the pool obtains free blocks only, so no block   *)
(* ever passes from one camera to another while the first may write it.    *)
(***************************************************************************)
CONSTANTS
    Blocks,     \* the rows of table video_file
    Devices     \* the cameras, none of which is "free", "pool" or "lost"

VARIABLE owner

Owners == Devices \cup {"free", "pool", "lost"}

\* The owner of each block when the process has just been started.
Init == owner \in [Blocks -> {"free", "lost"}]

\* A step in which blocks change owner only by the moves given.
Step(moves) ==
    LET old == owner
        new == owner'
    IN  /\ new \in [Blocks -> Owners]
        /\ \A b \in Blocks : new[b] # old[b] => <<old[b], new[b]>> \in moves

\* The pool takes free blocks; an entry may be lost on the way.
Reserve == Step({<<"free", "pool">>, <<"free", "lost">>})

\* A device is given one block of the pool; it may let go of another.
Assign(d) ==
    /\ Step({<<"pool", d>>, <<d, "free">>, <<d, "lost">>})
    /\ LET old == owner
           new == owner'
       IN  \A b, c \in Blocks :
              old[b] = "pool" /\ new[b] = d /\ old[c] = "pool" /\ new[c] = d => b = c

\* A device lets go of blocks: finished recordings become free, a block
\* whose catalogue row does not say so is lost.
Release(d) == Step({<<d, "free">>, <<d, "lost">>})

\* The process ends: nothing in memory owns a block any more.
End == Step((Owners \ {"free", "lost"}) \X {"free", "lost"})
       /\ \A b \in Blocks : owner'[b] \in {"free", "lost"}

\* The next start brings lost blocks back.
Recover == Step({<<"lost", "free">>})
           /\ \A b \in Blocks : owner[b] \in {"free", "lost"}

Next == Reserve \/ (\E d \in Devices : Assign(d) \/ Release(d)) \/ End \/ Recover

Spec == Init /\ [][Next]_owner
===============================================================================
