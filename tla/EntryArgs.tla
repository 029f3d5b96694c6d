------------------------------ MODULE EntryArgs ------------------------------
(***************************************************************************)
(* How a run's arguments come to its entry procedure: buildEntryArgs lays  *)
(* them out in a block, enterDispatch copies the block to the stack and    *)
(* the registers.  A caller in the program lays them out alike.            *)
(***************************************************************************)
EXTENDS Emitters

Registers == {ACC, 1, SCRATCH, JUMP} \cup WINDOW_BASE .. WINDOW_BASE + WindowSize - 1

(* The last argument comes in acc.  A place that gets no argument is zeroed
   here and has anything in it after a call: nothing may rely on it. *)
BuildEntryArgs(args) ==
  LET declared == Len(args)
      windowFloor == IF declared > WindowSize THEN declared - WindowSize ELSE 0
      placed == windowFloor .. declared - 2
      At(i) == { k \in placed : PhysReg(k) - WINDOW_BASE = i }
  IN  [spilled |-> SubSeq(args, 1, windowFloor),
       acc     |-> IF declared = 0 THEN Junk ELSE args[declared],
       window  |-> [i \in 0 .. WindowSize - 1 |->
                      IF At(i) = {} THEN Junk
                      ELSE args[(CHOOSE k \in At(i) : TRUE) + 1]]]

(* Pushed one by one, first to last; acc to r0, the window to r4 and up. *)
EnterDispatch(ea) ==
  [mem |-> ea.spilled, lr |-> Record, nz |-> NoFlags,
   reg |-> [r \in Registers |->
              IF r = ACC THEN ea.acc
              ELSE IF r >= WINDOW_BASE THEN ea.window[r - WINDOW_BASE]
              ELSE Junk]]
=============================================================================
