------------------------------ MODULE MCDesktop -------------------------------
(***************************************************************************)
(* The desktop: windows and their handles (Windows), graphics objects, regions *)
(* and drawing (Graphics), and the allocator of the memory that the kernel *)
(* shares with programs (AllocBitmap).  A behaviour is one of one part.    *)
(***************************************************************************)
EXTENDS Integers, Sequences, TLC

CONSTANTS Programs   \* threads that use windows, each of a process of its own

VARIABLES which,   \* the part that this behaviour is one of
          wmem, utable, next_user_handle, max_window_handle, desktop_window,
          active_window, wstack, wdead, connected, calls, wlife, orphans, torn,
          gtable, gobj, stock, leftover, glife, rgn, pts, spoilt, pen, drawn,
          bitmap, ablocks, alife

Symmetry == Permutations(Programs)

Wi == INSTANCE Windows WITH Threads <- Programs, ProcOf <- [t \in Programs |-> t],
                            NSlots <- 3, NHandles <- 4, MaxDepth <- 2, MaxCalls <- 5
Gr == INSTANCE Graphics WITH GProcs <- {"p1"}, NIndex <- 3, Creatable <- {"bitmap"}, MaxSave <- 1, MaxRefs <- 2,
                             Rgns <- {"r1", "r2"}, Side <- 2,
                             Given <- {<<2, 1, 0, 0>>, <<0, 0, 1, 1>>, <<1, 0, 1, 2>>},
                             Width <- 4, Height <- 3, Reach <- {-1, 0, 2, 4}, PenWidths <- {1, 2, 3}
Al == INSTANCE AllocBitmap WITH MaxBits <- 16, Sizes <- {12, 13, 36}

ASSUME Wi!WindowsAssumption /\ Gr!GdiAssumption /\ Gr!RegionsAssumption /\ Gr!DrawingAssumption /\ Al!AllocAssumption

MCInit ==
  /\ which \in {"windows", "gdi", "regions", "drawing", "allocator"}
  /\ IF which = "windows" THEN Wi!WInit
     ELSE wmem = 0 /\ utable = 0 /\ next_user_handle = 0 /\ max_window_handle = 0 /\ desktop_window = 0 /\ active_window = 0 /\ wstack = 0 /\ wdead = 0 /\ connected = 0 /\ calls = 0 /\ wlife = 0 /\ orphans = 0 /\ torn = 0
  /\ IF which = "gdi" THEN Gr!GInit
     ELSE gtable = 0 /\ gobj = 0 /\ stock = 0 /\ leftover = 0 /\ glife = 0
  /\ IF which = "regions" THEN Gr!RInit
     ELSE rgn = 0 /\ pts = 0 /\ spoilt = 0
  /\ IF which = "drawing" THEN Gr!DInit
     ELSE pen = 0 /\ drawn = 0
  /\ IF which = "allocator" THEN Al!AInit
     ELSE bitmap = 0 /\ ablocks = 0 /\ alife = 0

windowsvars == <<wmem, utable, next_user_handle, max_window_handle,
                  desktop_window, active_window, wstack, wdead, connected,
                  calls, wlife, orphans, torn>>
gdivars == <<gtable, gobj, stock, leftover, glife>>
regionsvars == <<rgn, pts, spoilt>>
drawingvars == <<pen, drawn>>
allocatorvars == <<bitmap, ablocks, alife>>
mcvars == <<which, windowsvars, gdivars, regionsvars, drawingvars,
            allocatorvars>>

MCNext ==
  \/ which = "windows" /\ Wi!WNext /\ UNCHANGED <<which, gdivars, regionsvars, drawingvars, allocatorvars>>
  \/ which = "gdi" /\ Gr!GNext /\ UNCHANGED <<which, windowsvars, regionsvars, drawingvars, allocatorvars>>
  \/ which = "regions" /\ Gr!RNext /\ UNCHANGED <<which, windowsvars, gdivars, drawingvars, allocatorvars>>
  \/ which = "drawing" /\ Gr!DNext /\ UNCHANGED <<which, windowsvars, gdivars, regionsvars, allocatorvars>>
  \/ which = "allocator" /\ Al!ANext /\ UNCHANGED <<which, windowsvars, gdivars, regionsvars, drawingvars>>

MCSpec == MCInit /\ [][MCNext]_mcvars

-------------------------------------------------------------------------------
(* Windows and their handles match: the free list of the handle table and  *)
(* the windows share out its entries, and every window is in the list of   *)
(* its parent unless that went first (alloc_user_handle, link_window,      *)
(* unlink_window, ~window_tt), whatever is created, destroyed, shown and   *)
(* terminated inside the callbacks of what; and the active window exists,  *)
(* unless a window went inside a callback of an operation on it.           *)
WindowsConsistent ==
  which = "windows" => Wi!UserHandlesExact /\ Wi!WindowTree /\ Wi!ActiveWindowLives

(* A graphics handle reaches the object it was made for while that exists, *)
(* a bitmap outlives the contexts it is selected into, questions about     *)
(* regions are answered from their present points, unless one was combined *)
(* into its own second source, thin lines are the true ones with x and y   *)
(* exchanged, and copies stay on the bitmap (alloc_gdi_handle,             *)
(* select_bitmap, region_t::validate, line_bresenham, bitblt).             *)
GraphicsTrue ==
  /\ which = "gdi" => Gr!GdiTableExact /\ Gr!SelectedBitmapLives
  /\ which = "regions" => Gr!QueriesAgree
  /\ which = "drawing" => Gr!DrawingIsTrue

(* Blocks of the shared memory do not overlap, the bits set are exactly    *)
(* theirs, no assert of free fails, and alloc takes the lowest place with  *)
(* room or, when that ends at the last bit, dies (alloc_bitmap_t).         *)
BlocksDisjoint == which = "allocator" => Al!BlocksExact /\ Al!FirstFit
===============================================================================
