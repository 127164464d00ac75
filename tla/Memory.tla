------------------------------- MODULE Memory -------------------------------
(***************************************************************************)
(* The heap of src/src/memory.c, for requests that fit one block, so that  *)
(* no caller's data overwrites a block header.  Blocks are numbered; a     *)
(* pointer to the end of the pool is NUM_BLOCKS.  The header read there is *)
(* the other fields of mem: next is free_list, and the size, which is      *)
(* allocated_bytes, leads out of the pool.  os_malloc would hand out that  *)
(* block and overwrite mem; such a call is not made here.  Both calls are  *)
(* critical sections.                                                      *)
(***************************************************************************)
EXTENDS Naturals, FiniteSets

CONSTANTS NUM_BLOCKS, NULL

Blocks == 0 .. NUM_BLOCKS - 1

VARIABLES
    memory_block,   \* the headers: next, allocated, size in blocks
    free_list,
    cur,            \* the block os_free looks at, or NULL outside of it
    turn            \* alternates with the turns of its loop

vars == <<memory_block, free_list, cur, turn>>

os_mem_init ==
    /\ memory_block = [b \in Blocks |->
           [next |-> IF b = NUM_BLOCKS - 1 THEN NULL ELSE b + 1,
            allocated |-> FALSE, size |-> 1]]
    /\ free_list = 0

\* The blocks on the free list from b on, up to the first that is not allocated.
Searched(b) ==
    LET at[i \in 0 .. NUM_BLOCKS] ==
            IF i = 0 THEN b
            ELSE IF at[i - 1] \in Blocks /\ memory_block[at[i - 1]].allocated
                 THEN memory_block[at[i - 1]].next ELSE at[i - 1]
    IN  at

\* The first block on the list that is not allocated is taken, and the pointer to
\* it now points to the block behind it, whatever that is.
os_malloc ==
    LET at    == Searched(free_list)
        block == at[NUM_BLOCKS]
        prev  == {at[i] : i \in 0 .. NUM_BLOCKS} \ {block}
    IN  /\ cur = NULL
        /\ block \in Blocks /\ ~memory_block[block].allocated
        /\ LET taken == [memory_block EXCEPT ![block].allocated = TRUE, ![block].size = 1]
           IN  IF prev = {}
               THEN free_list' = block + 1 /\ memory_block' = taken
               ELSE /\ memory_block' = [b \in Blocks |->
                           IF b \in prev /\ taken[b].next = block
                           THEN [taken[b] EXCEPT !.next = block + 1] ELSE taken[b]]
                    /\ UNCHANGED free_list
        /\ UNCHANGED <<cur, turn>>

\* os_free up to the loop; the block of a double free is not allocated.
os_free(b) ==
    /\ cur = NULL /\ memory_block[b].allocated
    /\ memory_block' = [memory_block EXCEPT ![b].allocated = FALSE, ![b].next = free_list]
    /\ free_list' = b /\ cur' = b /\ turn' = 0

\* One turn of the loop.
coalesce ==
    /\ cur # NULL
    /\ IF cur = NUM_BLOCKS
       THEN cur' = free_list /\ UNCHANGED memory_block
       ELSE LET m == memory_block[cur]
                n == cur + m.size
            IN  IF n < NUM_BLOCKS /\ ~memory_block[n].allocated
                THEN /\ memory_block' = [memory_block EXCEPT
                            ![cur] = [@ EXCEPT !.size = @ + memory_block[n].size,
                                               !.next = memory_block[n].next]]
                     /\ UNCHANGED cur
                ELSE cur' = m.next /\ UNCHANGED memory_block
    /\ turn' = IF cur' = NULL THEN 0 ELSE 1 - turn
    /\ UNCHANGED free_list

Init == os_mem_init /\ cur = NULL /\ turn = 0
Next == os_malloc \/ (\E b \in Blocks : os_free(b)) \/ coalesce

\* os_free runs with interrupts masked: nothing keeps it from its next step.
Spec == Init /\ [][Next]_vars /\ WF_vars(coalesce)

---------------------------------------------------------------------------
(* What the documentation says and the code does not do *)

\* memory.c: "Simple, deterministic memory allocator for embedded systems", "for
\* predictable behavior".  os_free, which masks interrupts, returns.
FreeReturns == cur # NULL ~> cur = NULL
=============================================================================
