------------------------------ MODULE Windows ------------------------------
(***************************************************************************)
(* User windows (ntuser.cpp): the user handle table with its free list, the *)
(* tree of windows in shared memory, the active window, and creation and    *)
(* destruction, which call back into user mode between their steps, so that *)
(* any other operation may happen inside them.                              *)
(*                                                                          *)
(* A window is the number of its place in shared memory; 0 is NULL.  Freed  *)
(* memory keeps its contents until it is allocated again, as in the code.   *)
(***************************************************************************)
EXTENDS Integers, Sequences, FiniteSets, FiniteSetsExt, SequencesExt

CONSTANTS Threads,      \* threads that use windows
          ProcOf,       \* thread -> process
          NSlots,       \* room for windows in user_shared_bitmap
          NHandles,     \* MAX_USER_HANDLES
          MaxDepth,     \* bound: operations in progress, nested or of two threads
          MaxCalls      \* bound: calls that threads make

WindowsAssumption == NSlots \in Nat \ {0} /\ NHandles \in Nat \ 0..2

VARIABLES wmem,         \* memory of the windows
          utable,       \* user_handle_table; obj is object or next_free
          next_user_handle, max_window_handle,
          desktop_window, active_window,
          wstack,       \* thread -> operations in progress, innermost last
          wdead,        \* terminated threads
          connected,    \* processes with win32k_info
          calls,        \* calls so far
          wlife,        \* "up"; "assert"; "unlink": unlink_window ran off the list;
                        \* "fault": another NULL pointer was followed
          orphans,      \* history: windows whose parent was deleted before them
          torn          \* history: a window was deleted inside an operation on it

wvars == <<wmem, utable, next_user_handle, max_window_handle, desktop_window,
           active_window, wstack, wdead, connected, calls, wlife, orphans, torn>>

Slots == 1..NSlots
WHandles == 0..(NHandles - 1)
Procs == {ProcOf[t] : t \in Threads}
NoProc == "none"

\* The kernel's state as one record, so that operations compose.
W == [mem |-> wmem, table |-> utable, nexth |-> next_user_handle,
      maxh |-> max_window_handle, desktop |-> desktop_window,
      active |-> active_window, life |-> wlife]

Used(mem) == {s \in Slots : mem[s].used}
Live == Used(wmem)
InProgress(stack) == UNION {{stack[t][i].win : i \in DOMAIN stack[t]} : t \in Threads}

\* window_tt::window_tt clears the memory.
Blank == [used |-> FALSE, handle |-> 0, owner |-> NoProc, thread |-> NoProc, parent |-> 0,
          next |-> 0, child |-> 0, visible |-> FALSE, invalid |-> FALSE]

\* Of freed memory the model keeps what some step can still read: all of it for an
\* operation in progress and for the active window, the list for a child.
Readable(k, stack) ==
  [s \in Slots |->
     IF k.mem[s].used \/ s \in InProgress(stack) \cup {k.active} THEN k.mem[s]
     ELSE IF \E c \in Slots : k.mem[c].parent = s THEN [Blank EXCEPT !.child = k.mem[s].child]
     ELSE Blank]

\* The new state, with the operations that are then in progress; a failure stops
\* the kernel.
SetW(k, stack) ==
  /\ wlife' = k.life
  /\ IF k.life # "up"
     THEN UNCHANGED <<wmem, utable, next_user_handle, max_window_handle, desktop_window,
                      active_window, wstack, orphans, torn>>
     ELSE /\ wmem' = Readable(k, stack) /\ utable' = k.table
          /\ next_user_handle' = k.nexth /\ max_window_handle' = k.maxh
          /\ desktop_window' = k.desktop /\ active_window' = k.active /\ wstack' = stack
          /\ orphans' = {c \in Live \cap Used(k.mem) :
                           c \in orphans \/ wmem[c].parent \in Live \ Used(k.mem)}
          /\ torn' = (torn \/ ~(InProgress(stack) \subseteq Used(k.mem)))

\* init_user_handle_table does not reach the last entry, which stays 0.
WInit ==
  /\ wmem = [s \in Slots |-> Blank]
  /\ utable = [h \in WHandles |-> [obj |-> IF h \in 1..(NHandles - 2) THEN h + 1 ELSE 0,
                                   type |-> 0, owner |-> NoProc]]
  /\ next_user_handle = 1 /\ max_window_handle = 0
  /\ desktop_window = 0 /\ active_window = 0
  /\ wstack = [t \in Threads |-> <<>>] /\ wdead = {} /\ connected = {} /\ wlife = "up"
  /\ calls = 0
  /\ orphans = {} /\ torn = FALSE

----------------------------------------------------------------------------
(* Handles and the tree *)

Fail(k, how) == [k EXCEPT !.life = how]

\* alloc_user_handle and check_max_window_handle; the asserts catch a full table.
alloc_user_handle(k, win, owner) ==
  LET h == k.nexth
      e == k.table[h]
  IN IF e.obj = h \/ e.type # 0 \/ e.owner # NoProc THEN Fail(k, "assert")
     ELSE [k EXCEPT !.table = [@ EXCEPT ![h] = [obj |-> win, type |-> 1, owner |-> owner]],
                    !.nexth = e.obj,
                    !.maxh = IF @ < h + 1 THEN h + 1 ELSE @,
                    !.mem = [@ EXCEPT ![win] = [@ EXCEPT !.handle = h, !.owner = owner]]]

\* Mutant of free_user_handle: the entry does not go back to the free list.
free_user_handle_lost(k, h) ==
  [k EXCEPT !.table = [@ EXCEPT ![h] = [obj |-> 0, type |-> 0, owner |-> NoProc]]]

free_user_handle(k, h) ==
  [k EXCEPT !.table = [@ EXCEPT ![h] = [obj |-> k.nexth, type |-> 0, owner |-> NoProc]],
            !.nexth = h]

\* window_from_handle: the type is looked at, the high part is not.
window_from_handle(k, h) ==
  IF h # 0 /\ h <= k.maxh /\ k.table[h].type = 1 THEN k.table[h].obj ELSE 0

link_window(k, win, parent) ==
  IF parent = 0 THEN Fail(k, "assert")
  ELSE [k EXCEPT !.mem = [@ EXCEPT ![win] = [@ EXCEPT !.parent = parent, !.next = k.mem[parent].child],
                                   ![parent] = [@ EXCEPT !.child = win]]]

\* The windows found by following the pointers from win.
RECURSIVE Chain(_, _)
Chain(mem, win) == IF win = 0 THEN <<>> ELSE <<win>> \o Chain(mem, mem[win].next)
Children(mem, win) == Chain(mem, mem[win].child)

\* unlink_window: the list of the parent is followed until the window is found,
\* or until a NULL pointer is.  The window keeps its parent pointer.
unlink_window(k, win) ==
  LET par == k.mem[win].parent
      list == Children(k.mem, par)
      at == CHOOSE i \in DOMAIN list : list[i] = win
      after == k.mem[win].next
  IN IF win = k.desktop THEN [k EXCEPT !.desktop = 0]
     ELSE IF par = 0 THEN Fail(k, "assert")
     ELSE IF win \notin Range(list) THEN Fail(k, "unlink")
     ELSE LET m == IF at = 1 THEN [k.mem EXCEPT ![par] = [@ EXCEPT !.child = after]]
                   ELSE [k.mem EXCEPT ![list[at - 1]] = [@ EXCEPT !.next = after]]
          IN [k EXCEPT !.mem = [m EXCEPT ![win] = [@ EXCEPT !.next = 0]]]

\* Mutant of DeleteWindow: the active window is not reset.
DeleteWindow_active(k, win) ==
  LET u == unlink_window(k, win)
      f == free_user_handle(u, u.mem[win].handle)
  IN IF u.life # "up" THEN u
     ELSE [f EXCEPT !.mem = [@ EXCEPT ![win] = [@ EXCEPT !.used = FALSE]]]

\* Mutant of DeleteWindow: the window stays in the list of its parent.
DeleteWindow_linked(k, win) ==
  LET f == free_user_handle(k, k.mem[win].handle)
  IN [f EXCEPT !.mem = [@ EXCEPT ![win] = [@ EXCEPT !.used = FALSE]],
               !.active = IF @ = win THEN 0 ELSE @]

\* ~window_tt and operator delete.
DeleteWindow(k, win) ==
  LET u == unlink_window(k, win)
      f == free_user_handle(u, u.mem[win].handle)
  IN IF u.life # "up" THEN u
     ELSE [f EXCEPT !.mem = [@ EXCEPT ![win] = [@ EXCEPT !.used = FALSE]],
                    !.active = IF @ = win THEN 0 ELSE @]

\* free_user32_handles: the windows of a process, by handle.
free_user32_handles(k, p) ==
  FoldLeft(LAMBDA s, h : IF s.life = "up" /\ h < k.maxh /\ s.table[h].owner = p
                         THEN DeleteWindow(s, s.table[h].obj) ELSE s,
           k, [i \in 1..NHandles |-> i - 1])

\* The first free place in shared memory; 0 when there is none.
NewSlot(k) ==
  LET free == {s \in Slots : ~k.mem[s].used} IN IF free = {} THEN 0 ELSE Min(free)

----------------------------------------------------------------------------
(* Messages: the rest of an operation is a sequence of callbacks (lower case) *)
(* and of steps of the kernel (upper case).  Messages sent one after the other  *)
(* with no step between them are one callback.                                  *)

Show == <<"showwindow", "VISIBLE">>
\* getminmaxinfo, nccreate, nccalcsize, create
Creation == <<"create", "SETPOS">>
\* poschanging; ncpaint, erasebkg, poschanged, size, and create's move
SetPosShow == Show \o <<"INVALID", "poschanging", "ACTIVATE", "poschanged">>
\* appact, ncactivate, activate, setfocus
Activation == <<"SETACTIVE", "activate">>
\* of a visible window poschanging, poschanged, ncactivate; destroy, ncdestroy
Destruction == <<"destroy", "DELETE">>
\* poschanging, nccalcsize, poschanged
MoveWindow == <<"move">>

\* Thread t runs the kernel's steps of an operation on win until a message is to
\* be sent to one of its own windows.  "inactive" goes to the window that was
\* active.  A message to a window of another thread, which runs in the place of
\* t, is answered without calls of the kernel; a terminated thread gets none, and
\* the desktop has no thread to send to.  The result is [k, todo]; todo starts
\* with the message that was sent, or is empty when the operation is over.
RECURSIVE Advance(_, _, _, _)
Advance(k, t, win, todo) ==
  IF todo = <<>> \/ k.life # "up" THEN [k |-> k, todo |-> <<>>]
  ELSE LET w == k.mem[win]
           to == k.mem[IF Head(todo) = "inactive" THEN k.active ELSE win].thread
           rest == Tail(todo)
           Go(k2, todo2) == Advance(k2, t, win, todo2)
           SetMem(w2) == [k EXCEPT !.mem = [@ EXCEPT ![win] = w2]]
       IN CASE Head(todo) = "VISIBLE" -> Go(SetMem([w EXCEPT !.visible = TRUE]), rest)
            [] Head(todo) = "INVALID" -> Go(SetMem([w EXCEPT !.invalid = TRUE]), rest)
            [] Head(todo) = "SETPOS" ->
                 Go(k, (IF w.visible THEN SetPosShow ELSE <<>>) \o rest)
            [] Head(todo) = "ACTIVATE" ->
                 Go(k, (CASE k.active = win -> <<>>
                          [] k.active = 0 -> Activation
                          [] OTHER -> <<"inactive">> \o Activation) \o rest)
            [] Head(todo) = "SETACTIVE" -> Go([k EXCEPT !.active = win], rest)
            [] Head(todo) = "DELETE" -> Go(DeleteWindow(k, win), rest)
            [] OTHER -> IF to = NoProc THEN Go(Fail(k, "fault"), rest)
                        ELSE IF to # t \/ t \in wdead THEN Go(k, rest)
                        ELSE [k |-> k, todo |-> todo]

\* The thread continues an operation; it stays on the stack while a callback runs.
Continue(t, k, win, todo, below) ==
  LET a == Advance(k, t, win, todo)
  IN SetW(a.k, [wstack EXCEPT ![t] = IF a.todo = <<>> THEN below
                                     ELSE Append(below, [win |-> win, todo |-> a.todo])])

----------------------------------------------------------------------------
(* Operations, by a thread in user mode: outside any call, or in a callback *)

UserMode(t) == wlife = "up" /\ t \notin wdead /\ ProcOf[t] \in connected
Call == /\ MapThenSumSet(LAMBDA u : Len(wstack[u]), Threads) < MaxDepth
        /\ calls < MaxCalls /\ calls' = calls + 1

\* NtUserProcessConnect and do_gdi_init: without a desktop the process makes one.
Connect(t) ==
  LET p == ProcOf[t]
      s == NewSlot(W)
      k == [W EXCEPT !.mem = [@ EXCEPT ![s] = [Blank EXCEPT !.used = TRUE]], !.desktop = s]
  IN /\ wlife = "up" /\ t \notin wdead /\ p \notin connected
     /\ connected' = connected \cup {p}
     /\ SetW(CASE desktop_window # 0 -> W
               [] s = 0 -> Fail(W, "fault")
               [] OTHER -> alloc_user_handle(k, s, p), wstack)
     /\ UNCHANGED <<wdead, calls>>

\* NtUserCreateWindowEx: 0 for Parent means the desktop.
CreateWindow(t, Parent, visible) ==
  LET parent == IF Parent = 0 THEN desktop_window ELSE window_from_handle(W, Parent)
      s == NewSlot(W)
      fresh == [Blank EXCEPT !.used = TRUE, !.thread = t, !.visible = visible]
      k1 == link_window([W EXCEPT !.mem = [@ EXCEPT ![s] = fresh]], s, parent)
      k2 == IF k1.life = "up" THEN alloc_user_handle(k1, s, ProcOf[t]) ELSE k1
  IN /\ UserMode(t) /\ Call
     /\ Parent # 0 => parent # 0
     /\ IF s = 0 THEN SetW(Fail(W, "fault"), wstack)
        ELSE Continue(t, k2, s, Creation, wstack[t])
     /\ UNCHANGED <<wdead, connected>>

\* NtUserDestroyWindow, of any window.  Children are not destroyed with their
\* parent, and an operation in progress on the window does not notice.
DestroyWindow(t, h) ==
  LET win == window_from_handle(W, h)
  IN /\ UserMode(t) /\ Call
     /\ win # 0
     /\ Continue(t, W, win, Destruction, wstack[t])
     /\ UNCHANGED <<wdead, connected>>

\* NtUserShowWindow and NtUserMoveWindow.
ShowOrMove(t, h, todo) ==
  LET win == window_from_handle(W, h)
  IN /\ UserMode(t) /\ Call
     /\ win # 0
     /\ Continue(t, W, win, todo, wstack[t])
     /\ UNCHANGED <<wdead, connected>>

\* NtCallbackReturn, then the kernel goes on with the operation.
CallbackReturn(t) ==
  /\ UserMode(t) /\ wstack[t] # <<>>
  /\ LET f == Last(wstack[t])
     IN Continue(t, W, f.win, Tail(f.todo), Front(wstack[t]))
  /\ UNCHANGED <<wdead, connected, calls>>

\* NtUserInvalidateRect, NtUserRedrawWindow and NtUserBeginPaint.  The desktop
\* has no region to empty.
Paint(t, h, invalid) ==
  LET win == window_from_handle(W, h)
  IN /\ UserMode(t) /\ Call
     /\ win # 0
     /\ invalid => wmem[win].visible
     /\ SetW(IF wmem[win].thread = NoProc THEN Fail(W, "fault")
             ELSE [W EXCEPT !.mem = [@ EXCEPT ![win] = [@ EXCEPT !.invalid = invalid]]], wstack)
     /\ UNCHANGED <<wdead, connected>>

\* find_window_to_repaint: the first invalid window below, children in order.
RECURSIVE find_window_to_repaint(_, _)
find_window_to_repaint(mem, win) ==
  IF mem[win].parent # 0 /\ mem[win].invalid THEN win
  ELSE LET list == Children(mem, win)
           found == {i \in DOMAIN list : find_window_to_repaint(mem, list[i]) # 0}
       IN IF found = {} THEN 0 ELSE find_window_to_repaint(mem, list[Min(found)])

\* thread_impl_t::terminate, by the thread itself, which stops for good inside
\* it, or by another one, after which it resumes in the kernel (Unwind).  The
\* windows go with the last thread of the process.
TerminateThread(t, self) ==
  LET p == ProcOf[t]
      last == \A u \in Threads \ wdead : ProcOf[u] = p => u = t
      stack == IF self THEN [wstack EXCEPT ![t] = <<>>] ELSE wstack
  IN /\ wlife = "up" /\ t \notin wdead
     /\ wdead' = wdead \cup {t}
     /\ SetW(IF last /\ p \in connected THEN free_user32_handles(W, p) ELSE W, stack)
     /\ UNCHANGED <<connected, calls>>

\* run() returns at once in a terminated thread: the kernel finishes every
\* operation of the thread, and its messages are not sent any more.
Unwind(t) ==
  /\ wlife = "up" /\ t \in wdead /\ wstack[t] # <<>>
  /\ LET f == Last(wstack[t])
     IN Continue(t, W, f.win, Tail(f.todo), Front(wstack[t]))
  /\ UNCHANGED <<wdead, connected, calls>>

WNext ==
  \E t \in Threads :
     \/ Connect(t) \/ CallbackReturn(t) \/ Unwind(t)
     \/ \E self \in BOOLEAN : TerminateThread(t, self)
     \/ \E h \in WHandles, v \in BOOLEAN : CreateWindow(t, h, v)
     \/ \E h \in WHandles \ {0} :
          \/ DestroyWindow(t, h)
          \/ ShowOrMove(t, h, MoveWindow)
          \/ ShowOrMove(t, h, Show)
          \/ \E i \in BOOLEAN : Paint(t, h, i)

WSpec == WInit /\ [][WNext]_wvars

----------------------------------------------------------------------------
(* Properties *)

\* The free list of the user handle table.
RECURSIVE FreeList(_, _)
FreeList(h, n) ==
  IF h = 0 \/ n = 0 THEN <<>> ELSE <<h>> \o FreeList(utable[h].obj, n - 1)

\* The free list runs through every free entry once and through no other, and
\* the entries in use are those of the live windows, each of which knows its
\* handle (alloc_user_handle, free_user_handle): no handle names two windows,
\* and no window is lost with its handle.
UserHandlesExact ==
  wlife = "up" =>
    LET free == FreeList(next_user_handle, NHandles + 1)
        inUse == {h \in WHandles : utable[h].type = 1}
    IN /\ Len(free) = Cardinality(Range(free))
       /\ Range(free) = WHandles \ (inUse \cup {0})
       /\ {utable[h].obj : h \in inUse} = Live
       /\ \A h \in inUse : wmem[utable[h].obj].handle = h /\ h < max_window_handle

\* A window that is below the desktop, and whose ancestors are all there.
RECURSIVE Shown(_)
Shown(s) == s \notin orphans /\ (s = desktop_window \/ Shown(wmem[s].parent))

\* Every live window but the desktop, unless its parent was deleted before it, is
\* in the list of its parent, once, and the lists hold no other window
\* (link_window, unlink_window): whatever is created, destroyed and terminated
\* inside the callbacks of what.  And a repaint is found exactly when a window
\* that is shown is invalid.
WindowTree ==
  wlife = "up" =>
    LET linked == Live \ (orphans \cup {desktop_window})
    IN /\ \A s \in Live :
            LET list == Children(wmem, s)
            IN /\ Range(list) = {c \in linked : wmem[c].parent = s}
               /\ Len(list) = Cardinality(Range(list))
       /\ \A s \in linked : wmem[s].parent \in Live
       /\ desktop_window # 0 =>
            (find_window_to_repaint(wmem, desktop_window) = 0
               <=> \A s \in Live : Shown(s) => ~wmem[s].invalid)

\* The active window, to which activate() sends, is one that exists (activate,
\* ~window_tt), as long as no window has been deleted in a callback of an
\* operation on it: such an operation goes on, and may make the window active.
ActiveWindowLives == wlife = "up" /\ ~torn => active_window \in Live \cup {0}

\* "assert (*p)" (ntuser.cpp:1102): a window that is unlinked is in the list of
\* its parent.
UnlinkFindsWindow == wlife # "unlink"
=============================================================================
