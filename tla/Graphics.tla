------------------------------- MODULE Graphics -------------------------------
(*****************************************************************************)
(* Graphics: the objects and their handles, regions, and what drawing calls  *)
(* write.                                                                    *)
(*****************************************************************************)
EXTENDS Integers, Sequences, FiniteSets, FiniteSetsExt

-------------------------------------------------------------------------------
(***************************************************************************)
(* Graphics objects (ntgdi.cpp, bitmap.cpp): the shared table of handles,   *)
(* device contexts with the bitmap selected into them and their saved       *)
(* states, stock objects, and deletion.                                     *)
(***************************************************************************)
CONSTANTS GProcs,     \* processes
          Creatable,  \* types of objects made besides device contexts
          NIndex,     \* MAX_GDI_HANDLE
          MaxSave,    \* bound: saved states of a device context
          MaxRefs     \* bound: selections a bitmap counts

GdiAssumption == NIndex \in Nat \ {0} /\ MaxSave \in Nat /\ MaxRefs \in Nat

VARIABLES gtable,     \* index -> entry: [pid, type, upper, obj]
          gobj,       \* address -> object: [type, handle, refs, sel, saved, level]
          stock,      \* process -> stock white brush and white pen
          leftover,   \* indexes whose entry outlived its object
          glife       \* "up"; "throw" when the kernel ends in a throw, "dangling"
                      \* when a deleted object is used

gvars == <<gtable, gobj, stock, leftover, glife>>

Index == 0..(NIndex - 1)
Address == 1..NIndex
NoPid == "nobody"
Types == {"dc", "bitmap", "brush", "pen", "region"}
NoEntry == [pid |-> NoPid, type |-> "none", upper |-> <<FALSE, "none">>, obj |-> 0]
NoObject == [type |-> "none", handle |-> <<>>, refs |-> 0, sel |-> 0, saved |-> 0, level |-> 0]
StockItems == {"brush", "pen"}
NoHandle == <<>>

GInit ==
  /\ gtable = [i \in Index |-> NoEntry]
  /\ gobj = [a \in Address |-> NoObject]
  /\ stock = [p \in GProcs |-> [s \in StockItems |-> NoHandle]]
  /\ leftover = {} /\ glife = "up"

\* The state as one record, so that allocations compose.
G == [table |-> gtable, obj |-> gobj, stock |-> stock, left |-> leftover, life |-> glife]
SetG(g) ==
  /\ gtable' = g.table /\ gobj' = g.obj /\ stock' = g.stock
  /\ leftover' = g.left /\ glife' = g.life

\* find_free_gdi_handle; -1 when the table is full.
find_free_gdi_handle(g) ==
  LET free == {i \in Index : g.table[i].pid = NoPid} IN IF free = {} THEN -1 ELSE Min(free)

\* makeHGDIOBJ: a handle holds the index, and stock and type in its upper half.
MakeHandle(i, isStock, type) == <<i, isStock, type>>

\* new, then alloc_gdi_handle (an object is named after its entry): a pen is a brush in the table.  The result is
\* [g, handle]; an object without a handle is not kept.
NewObject(g, p, isStock, type) ==
  LET i == find_free_gdi_handle(g)
      h == MakeHandle(i, isStock, type)
      a == i + 1
      inTable == IF type = "pen" THEN "brush" ELSE type
  IN IF i = -1 THEN [g |-> g, handle |-> NoHandle]
     ELSE [g |-> [g EXCEPT !.table = [@ EXCEPT ![i] = [pid |-> p, type |-> inTable,
                                                       upper |-> <<isStock, type>>, obj |-> a]],
                           !.obj = [@ EXCEPT ![a] = [NoObject EXCEPT !.type = type, !.handle = h]]],
           handle |-> h]

\* get_handle_table_entry and the type check of dc_from_handle, bitmap_from_handle.
Entry(g, h) ==
  IF h # NoHandle /\ g.table[h[1]].upper = <<h[2], h[3]>> THEN g.table[h[1]] ELSE NoEntry
Stale(h) == Entry(G, h).obj # 0 /\ h[1] \in leftover
FromHandle(g, h, type) == LET e == Entry(g, h) IN IF e.type = type THEN e.obj ELSE 0

\* get_stock_object: made when first asked for, then remembered.
get_stock_object(g, p, s) ==
  IF g.stock[p][s] # NoHandle THEN g
  ELSE LET n == NewObject(g, p, TRUE, s)
       IN [n.g EXCEPT !.stock = [@ EXCEPT ![p] = [@ EXCEPT ![s] = n.handle]]]

GetStock(p, s) ==
  /\ glife = "up"
  /\ SetG(get_stock_object(G, p, s))

\* device_context_t::device_context_t: a full table ends in a throw; the stock
\* brush and the stock pen are selected.
CreateDC(p) ==
  LET n == NewObject(G, p, FALSE, "dc")
      g == get_stock_object(get_stock_object(n.g, p, "brush"), p, "pen")
  IN /\ glife = "up"
     /\ IF n.handle = NoHandle THEN SetG([G EXCEPT !.life = "throw"]) ELSE SetG(g)

\* alloc_bitmap throws as well; brushes, pens and regions return 0.
CreateObject(p, type) ==
  LET n == NewObject(G, p, FALSE, type)
  IN /\ glife = "up"
     /\ IF n.handle = NoHandle
        THEN SetG(IF type = "bitmap" THEN [G EXCEPT !.life = "throw"] ELSE G)
        ELSE SetG(n.g)

\* NtGdiCreateBitmap when the pixels cannot be read: the bitmap is deleted and
\* its entry stays.
CreateBitmapFails(p) ==
  LET n == NewObject(G, p, FALSE, "bitmap")
      a == n.g.table[n.handle[1]].obj
  IN /\ glife = "up" /\ n.handle # NoHandle
     /\ SetG([n.g EXCEPT !.obj = [@ EXCEPT ![a] = NoObject], !.left = @ \cup {n.handle[1]}])

\* A handle, of an earlier bitmap say, names an entry left behind.
UseLeftover(h) ==
  glife = "up" /\ Stale(h) /\ glife' = "dangling" /\ UNCHANGED <<gtable, gobj, stock, leftover>>

\* Mutant of SelectBitmap: the new bitmap is not counted as selected.
SelectBitmap_uncounted(hdc, hbm) ==
  LET dc == FromHandle(G, hdc, "dc")
      bm == FromHandle(G, hbm, "bitmap")
  IN /\ glife = "up" /\ dc # 0 /\ bm # 0 /\ ~Stale(hbm) /\ gobj[bm].refs < MaxRefs
     /\ gobj' = [a \in Address |-> IF a = dc THEN [gobj[a] EXCEPT !.sel = bm] ELSE gobj[a]]
     /\ UNCHANGED <<gtable, stock, leftover, glife>>

\* NtGdiSelectBitmap: select the new one, then deselect the old one.
SelectBitmap(hdc, hbm) ==
  LET dc == FromHandle(G, hdc, "dc")
      bm == FromHandle(G, hbm, "bitmap")
      old == gobj[dc].sel
      Count(a) == gobj[a].refs + (IF a = bm THEN 1 ELSE 0) - (IF a = old THEN 1 ELSE 0)
  IN /\ glife = "up" /\ dc # 0 /\ bm # 0 /\ ~Stale(hbm) /\ gobj[bm].refs < MaxRefs
     /\ gobj' = [a \in Address |-> IF a = dc THEN [gobj[a] EXCEPT !.sel = bm]
                                   ELSE [gobj[a] EXCEPT !.refs = Count(a)]]
     /\ UNCHANGED <<gtable, stock, leftover, glife>>

\* Mutant of release: the entry of the table is not cleared.
release_entry(g, a) ==
  IF g.obj[a].refs # 0 THEN g ELSE [g EXCEPT !.obj = [@ EXCEPT ![a] = NoObject]]

\* gdi_object_t::release: not while the object is selected.
release(g, a) ==
  IF g.obj[a].refs # 0 THEN g
  ELSE [g EXCEPT !.table = [@ EXCEPT ![g.obj[a].handle[1]] = NoEntry],
                 !.obj = [@ EXCEPT ![a] = NoObject]]

\* NtGdiDeleteObjectApp, by the process that made the object.  A device context
\* does not deselect its bitmap, which can then not be deleted any more.
DeleteObject(p, h) ==
  /\ glife = "up" /\ Entry(G, h).pid = p /\ ~Stale(h)
  /\ SetG(release(G, Entry(G, h).obj))

\* NtReleaseDC, by the process whose mapping the shared part was allocated in.
ReleaseDC(p, h) ==
  /\ glife = "up" /\ FromHandle(G, h, "dc") # 0 /\ Entry(G, h).pid = p
  /\ SetG(release(G, FromHandle(G, h, "dc")))

\* save_dc and restore_dc: level counts the saved states, which form a list.
SaveDC(h) ==
  LET a == FromHandle(G, h, "dc")
  IN /\ glife = "up" /\ a # 0 /\ gobj[a].level < MaxSave
     /\ gobj' = [gobj EXCEPT ![a] = [@ EXCEPT !.level = @ + 1, !.saved = @ + 1]]
     /\ UNCHANGED <<gtable, stock, leftover, glife>>

RestoreDC(h, level) ==
  LET a == FromHandle(G, h, "dc")
      to == IF level < 0 THEN gobj[a].level + level + 1 ELSE level
      pops == gobj[a].level - to + 1
  IN /\ glife = "up" /\ a # 0
     /\ level # 0 /\ (IF level < 0 THEN -level ELSE level) <= gobj[a].level
     /\ gobj' = [gobj EXCEPT ![a] = [@ EXCEPT !.level = @ - pops, !.saved = @ - pops]]
     /\ UNCHANGED <<gtable, stock, leftover, glife>>

\* A process may pass any handle; one that matches no entry changes nothing.
AnyHandle == {MakeHandle(i, gtable[i].upper[1], gtable[i].upper[2]) :
                i \in {i \in Index : gtable[i] # NoEntry}}

GNext ==
  \/ \E p \in GProcs :
        \/ CreateDC(p) \/ CreateBitmapFails(p)
        \/ \E s \in StockItems : GetStock(p, s)
        \/ \E type \in Creatable : CreateObject(p, type)
        \/ \E h \in AnyHandle : DeleteObject(p, h) \/ ReleaseDC(p, h)
  \/ \E h \in AnyHandle : UseLeftover(h) \/ SaveDC(h) \/ (\E l \in -MaxSave..MaxSave : RestoreDC(h, l))
  \/ \E h1, h2 \in AnyHandle : SelectBitmap(h1, h2)

GSpec == GInit /\ [][GNext]_gvars

----------------------------------------------------------------------------
GLive == {a \in Address : gobj[a].type # "none"}

\* Handles and objects match one to one (alloc_gdi_handle, release): every live
\* object has an entry, the one its handle names, and every entry in use names
\* a live object with that handle, except the entries NtGdiCreateBitmap leaves
\* behind when it fails.  So no handle reaches an object that was deleted,
\* though entries and addresses are reused.
GdiTableExact ==
  /\ \A a \in GLive : Entry(G, gobj[a].handle).obj = a /\ gobj[a].saved = gobj[a].level
  /\ \A i \in Index \ leftover : gtable[i] # NoEntry =>
        gobj[gtable[i].obj].handle = MakeHandle(i, gtable[i].upper[1], gtable[i].upper[2])

\* "assert( bitmap->is_valid() )": the bitmap selected into a device context is
\* a live bitmap that counts at least the contexts it is selected into, so it
\* cannot be deleted under them (select_bitmap, release).
SelectedBitmapLives ==
  \A a \in GLive : gobj[a].sel # 0 =>
     /\ gobj[gobj[a].sel].type = "bitmap"
     /\ gobj[gobj[a].sel].refs >= Cardinality({b \in GLive : gobj[b].sel = gobj[a].sel})

-------------------------------------------------------------------------------
(***************************************************************************)
(* Regions (region.cpp).  A region has a part shared with the process (flag,*)
(* type and extents, which gdi32 writes without a call) and a part of the   *)
(* kernel (the rectangles), brought up to date when a handle is looked up.  *)
(* The variable pts holds the points that the region ought to have.         *)
(***************************************************************************)
CONSTANTS Rgns,      \* regions
          Side,      \* bound: coordinates are 0..Side
          Given      \* bound: rectangles that a process passes, <<l, t, r, b>>

RegionsAssumption ==
  Side \in Nat /\ \A q \in Given : q \in (0..Side) \X (0..Side) \X (0..Side) \X (0..Side)

VARIABLES rgn,       \* region -> [valid, type, ext, num, rect]
          pts,       \* region -> set of points
          spoilt     \* history: regions computed from one that was combined into
                     \* its own second source

rvars == <<rgn, pts, spoilt>>

Coords == 0..Side
Points == Coords \X Coords
Rects == [l : Coords, t : Coords, r : Coords, b : Coords]
Rect(i) == [l |-> i[1], t |-> i[2], r |-> i[3], b |-> i[4]]
Clear == [l |-> 0, t |-> 0, r |-> 0, b |-> 0]
MaxOf(a, b) == IF a > b THEN a ELSE b
MinOf(a, b) == IF a < b THEN a ELSE b

fix(q) == [l |-> MinOf(q.l, q.r), t |-> MinOf(q.t, q.b), r |-> MaxOf(q.l, q.r), b |-> MaxOf(q.t, q.b)]
OffsetRect(q, x, y) == [l |-> q.l + x, t |-> q.t + y, r |-> q.r + x, b |-> q.b + y]
Overlaps(q, o) == q.r > o.l /\ q.l < o.r /\ q.b > o.t /\ q.t < o.b
ContainsPoint(q, p) == q.t <= p[2] /\ q.b > p[2] /\ q.l <= p[1] /\ q.r > p[1]
IsEmpty(q) == q.l = q.r \/ q.t = q.b
Intersect(q, o) ==
  LET i == [l |-> MaxOf(q.l, o.l), t |-> MaxOf(q.t, o.t), r |-> MinOf(q.r, o.r), b |-> MinOf(q.b, o.b)]
  IN IF i.t >= i.b \/ i.l >= i.r THEN Clear ELSE i
PointsOf(q) == {p \in Points : ContainsPoint(q, p)}

\* region_tt::alloc: not valid until gdi32 has written the shared part.
RInit ==
  /\ rgn = [g \in Rgns |-> [valid |-> FALSE, type |-> "none", ext |-> Clear, num |-> 0, rect |-> Clear]]
  /\ pts = [g \in Rgns |-> {}] /\ spoilt = {}

\* Mutant of validate: the rectangle of the kernel is kept.
validate_stale(v) == [v EXCEPT !.num = IF v.type = "null" THEN 0 ELSE 1]

\* region_tt::validate, on every lookup of a handle.
validate(v) ==
  CASE v.type = "null"   -> [v EXCEPT !.num = 0]
    [] v.type = "simple" -> [v EXCEPT !.num = 1, !.rect = v.ext]
    [] OTHER             -> v

empty_region(v) == [v EXCEPT !.num = 0, !.ext = Clear, !.type = "null"]
update_type(v) ==
  IF IsEmpty(v.ext) THEN [v EXCEPT !.type = "null", !.num = 0] ELSE [v EXCEPT !.type = "simple"]

\* gdi32 (external) sets a region to a rectangle in the shared memory.
UserSetRect(g, q) ==
  LET f == fix(q)
  IN /\ rgn' = [rgn EXCEPT ![g] = [@ EXCEPT !.valid = TRUE,
                                            !.type = IF IsEmpty(f) THEN "null" ELSE "simple",
                                            !.ext = IF IsEmpty(f) THEN Clear ELSE f]]
     /\ pts' = [pts EXCEPT ![g] = PointsOf(f)] /\ spoilt' = spoilt \ {g}

\* NtGdiSetRectRgn.
SetRectRgn(g, q) ==
  LET v == validate(rgn[g])
      f == fix(q)
  IN /\ rgn[g].valid
     /\ rgn' = [rgn EXCEPT ![g] = IF IsEmpty(q) THEN empty_region(v)
                                  ELSE update_type([v EXCEPT !.ext = f, !.num = 1, !.rect = f])]
     /\ pts' = [pts EXCEPT ![g] = PointsOf(f)] /\ spoilt' = spoilt \ {g}

\* NtGdiOffsetRgn, within the bound.
OffsetRgn(g, x, y) ==
  LET v == validate(rgn[g])
      e == OffsetRect(v.ext, x, y)
  IN /\ rgn[g].valid /\ e \in Rects
     /\ rgn' = [rgn EXCEPT ![g] = [v EXCEPT !.ext = e,
                                            !.rect = IF v.num = 0 THEN @ ELSE OffsetRect(@, x, y)]]
     /\ pts' = [pts EXCEPT ![g] = {<<p[1] + x, p[2] + y>> : p \in @}] /\ UNCHANGED spoilt

\* region_tt::intersect_rgn: a trivial reject, else the extents of the first,
\* then those of the second, which the first step has overwritten when it is the
\* destination.  The rectangles are left to the next lookup.
intersect_rgn(d, v1, v2, same) ==
  IF v1.num = 0 \/ v2.num = 0 \/ ~Overlaps(v1.ext, v2.ext) THEN empty_region(d)
  ELSE update_type([d EXCEPT !.ext = Intersect(v1.ext, IF same THEN v1.ext ELSE v2.ext)])

\* NtGdiCombineRgn: the three handles are looked up; only RGN_AND does anything.
CombineRgn(d, s1, s2, mode) ==
  LET up == [g \in Rgns |-> IF g \in {d, s1, s2} THEN validate(rgn[g]) ELSE rgn[g]]
      and == mode = "and"
  IN /\ \A g \in {d, s1, s2} : rgn[g].valid
     /\ rgn' = IF and THEN [up EXCEPT ![d] = intersect_rgn(up[d], up[s1], up[s2], d = s2)] ELSE up
     /\ pts' = IF and THEN [pts EXCEPT ![d] = pts[s1] \cap pts[s2]] ELSE pts
     /\ spoilt' = CASE ~and -> spoilt
                     [] {s1, s2} \cap spoilt # {} -> spoilt \cup {d}
                     [] d = s2 /\ pts[s1] \cap pts[s2] # {} -> spoilt \cup ({d} \ {s1})
                     [] OTHER -> spoilt \ {d}

contains_point(v, p) == v.num # 0 /\ ContainsPoint(v.ext, p) /\ ContainsPoint(v.rect, p)
overlaps_rect(v, q) == v.num # 0 /\ Overlaps(v.ext, q) /\ Overlaps(v.rect, q)
equal(v, o) ==
  v.num = o.num /\ (v.num = 0 \/ (v.ext = o.ext /\ v.rect = o.rect))

RNext ==
  \/ \E g \in Rgns : \/ \E i \in Given : UserSetRect(g, Rect(i)) \/ SetRectRgn(g, Rect(i))
                     \/ \E k \in {-1, 1} : OffsetRgn(g, k, k)
  \/ \E d, s1, s2 \in Rgns, mode \in {"and", "or"} : CombineRgn(d, s1, s2, mode)

RSpec == RInit /\ [][RNext]_rvars

----------------------------------------------------------------------------
\* What NtGdiPtInRegion, NtGdiRectInRegion and NtGdiEqualRgn answer is the truth
\* about the points of the regions, after any sequence of changes made by the
\* process in shared memory and by the kernel: no answer is computed from
\* rectangles that an earlier call left behind.  Only a region that was combined
\* into its own second source, and what is computed from it, has other points.
QueriesAgree ==
  \A g \in Rgns \ spoilt : rgn[g].valid =>
     LET v == validate(rgn[g])
     IN /\ \A p \in Points : contains_point(v, p) <=> p \in pts[g]
        /\ \A i \in Given : ~IsEmpty(Rect(i)) =>
              (overlaps_rect(v, fix(Rect(i))) <=> PointsOf(fix(Rect(i))) \cap pts[g] # {})
        /\ \A o \in Rgns \ spoilt : rgn[o].valid => (equal(v, validate(rgn[o])) <=> pts[g] = pts[o])

-------------------------------------------------------------------------------
(***************************************************************************)
(* Drawing (bitmap.cpp and the device contexts of ntgdi.cpp): lines,        *)
(* rectangles, block copies and their clipping, as the pixels that a call   *)
(* writes.  A pixel is a pair <<x, y>>; the last call is kept in drawn.     *)
(***************************************************************************)
CONSTANTS Width, Height,  \* of the bitmap
          Reach,          \* bound: coordinates that a process passes
          PenWidths       \* widths of pens

DrawingAssumption ==
  Width \in Nat \ {0} /\ Height \in Nat \ {0} /\ Reach \subseteq Int /\ PenWidths \subseteq Nat \ {0}

VARIABLES pen,     \* current position of the pen
          drawn    \* the last call: [kind, from, to, wide, dots]

dvars == <<pen, drawn>>

Absolute(n) == IF n < 0 THEN -n ELSE n
Sign(n) == IF n < 0 THEN -1 ELSE 1
Larger(a, b) == IF a > b THEN a ELSE b
Lesser(a, b) == IF a < b THEN a ELSE b

\* set_pixel_l writes nothing outside of the bitmap.
OnBitmap(p) == p[1] \in 0..(Width - 1) /\ p[2] \in 0..(Height - 1)

hline(x, y, right) == {<<i, y>> : i \in Lesser(x, right)..Larger(x, right)}
vline(x, y, bottom) == {<<x, i>> : i \in Lesser(y, bottom)..Larger(y, bottom)}

\* Mutant of Bresenham: the error term starts half a pixel off.
Bresenham_start(dx, dy) ==
  LET step[k \in 0..dx] ==
        IF k = 0 THEN [e |-> 2 * dy, y |-> 0]
        ELSE IF step[k - 1].e > 0 THEN [e |-> step[k - 1].e + 2 * dy - 2 * dx, y |-> step[k - 1].y + 1]
        ELSE [e |-> step[k - 1].e + 2 * dy, y |-> step[k - 1].y]
  IN [k \in 0..(dx - 1) |-> step[k].y]

\* The loop of line_bresenham in its octant, for 0 <= dy <= dx: how far the
\* minor coordinate has moved after k steps of the major one.
Bresenham(dx, dy) ==
  LET step[k \in 0..dx] ==
        IF k = 0 THEN [e |-> 2 * dy - dx, y |-> 0]
        ELSE IF step[k - 1].e > 0 THEN [e |-> step[k - 1].e + 2 * dy - 2 * dx, y |-> step[k - 1].y + 1]
        ELSE [e |-> step[k - 1].e + 2 * dy, y |-> step[k - 1].y]
  IN [k \in 0..(dx - 1) |-> step[k].y]

\* line_bresenham: the dots handed to pen_dot, in order, from end to end without
\* the last one.
line_bresenham(a, b) ==
  LET steep == Absolute(b[2] - a[2]) >= Absolute(b[1] - a[1])
      major == IF steep THEN 2 ELSE 1
      minor == 3 - major
      minorAt == Bresenham(Absolute(b[major] - a[major]), Absolute(b[minor] - a[minor]))
      Dot(k) == [i \in 1..2 |-> IF i = major THEN a[i] + Sign(b[i] - a[i]) * k
                                ELSE a[i] + Sign(b[i] - a[i]) * minorAt[k]]
  IN [k \in 1..Absolute(b[major] - a[major]) |-> Dot(k - 1)]

\* pen_dot with a pen of width 1 exchanges the coordinates.
pen_dot(p) == <<p[2], p[1]>>

\* line_error: the square of the distance from the line, rounded down.
line_error(a, b, x, y) ==
  LET top == (b[1] - a[1]) * (a[2] - y) - (a[1] - x) * (b[2] - a[2])
      bottom == (b[1] - a[1]) * (b[1] - a[1]) + (b[2] - a[2]) * (b[2] - a[2])
  IN (top * top) \div bottom

\* One row of line_wide, from xstart while the error is within the limit: the
\* pixels written, and where the next row starts with which error.
RECURSIVE WideRow(_, _, _, _, _, _, _)
WideRow(a, b, y, ydelta, limit, err, s) ==
  IF err > limit \/ s.x >= b[1] THEN s
  ELSE LET late == s.nexterr > limit
       IN WideRow(a, b, y, ydelta, limit, line_error(a, b, s.x + 1, y),
                  [x |-> s.x + 1, dots |-> s.dots \cup {<<s.x, y>>},
                   nexterr |-> IF late THEN line_error(a, b, s.x, y + ydelta) ELSE s.nexterr,
                   start |-> IF late THEN s.x ELSE s.start])

RECURSIVE WideRows(_, _, _, _, _)
WideRows(a, b, y, limit, s) ==
  IF y = b[2] THEN s.dots
  ELSE LET ydelta == Sign(b[2] - a[2])
       IN WideRows(a, b, y + ydelta, limit,
                   WideRow(a, b, y, ydelta, limit, s.nexterr,
                           [s EXCEPT !.x = s.start, !.nexterr = limit * 2]))

\* line_wide, from left to right.
line_wide(from, to, width) ==
  LET a == IF from[1] > to[1] THEN to ELSE from
      b == IF from[1] > to[1] THEN from ELSE to
  IN WideRows(a, b, a[2], (width * width) \div 4, [x |-> a[1], start |-> a[1], nexterr |-> 0, dots |-> {}])

\* bitmap_t::line.
line(a, b, width) ==
  CASE a[2] = b[2] -> hline(a[1], a[2], b[1])
    [] a[1] = b[1] -> vline(a[1], a[2], b[2])
    [] OTHER -> IF width = 1
                THEN LET dots == line_bresenham(a, b) IN {pen_dot(dots[i]) : i \in DOMAIN dots}
                ELSE line_wide(a, b, width)

\* device_context_t::rectangle: corners in order, clipped to the bitmap, then
\* bitmap_t::rectangle, by pen and by brush.
rectangle(a, b) ==
  LET l == Larger(0, Lesser(a[1], b[1]))
      t == Larger(0, Lesser(a[2], b[2]))
      r == Lesser(Width - 1, Larger(a[1], b[1]))
      m == Lesser(Height - 1, Larger(a[2], b[2]))
      rows == (t + 1)..(m - 2)
  IN hline(l, t, r) \cup hline(l, m - 1, r)
     \cup UNION {{<<l, y>>, <<r - 1, y>>} \cup hline(l + 1, y, r - 1) : y \in rows}

\* device_context_t::bitblt within one bitmap: the corners are moved onto it, and
\* the extent is clipped on the destination and on the source; then pixel by pixel.
bitblt(dst, src, cx, cy) ==
  LET d == [i \in 1..2 |-> Larger(0, dst[i])]
      s == [i \in 1..2 |-> Larger(0, src[i])]
      w == Lesser(Lesser(cx, Width - d[1]), Width - s[1])
      h == Lesser(Lesser(cy, Height - d[2]), Height - s[2])
  IN {<<<<d[1] + j, d[2] + i>>, <<s[1] + j, s[2] + i>>>> : j \in 0..(w - 1), i \in 0..(h - 1)}

Nothing == [kind |-> "none", from |-> <<0, 0>>, to |-> <<0, 0>>, wide |-> 1, dots |-> {}]

DInit == pen = <<0, 0>> /\ drawn = Nothing

Spots == Reach \X Reach

\* NtGdiMoveTo.
MoveTo(p) == drawn = Nothing /\ pen' = p /\ UNCHANGED drawn

\* NtGdiLineTo: the pen moves to the end of the line.
LineTo(p, width) ==
  /\ drawn = Nothing
  /\ drawn' = [kind |-> "line", from |-> pen, to |-> p, wide |-> width,
               dots |-> {q \in line(pen, p, width) : OnBitmap(q)}]
  /\ pen' = p

\* NtGdiRectangle; polypatblt clips the same way.
Rectangle(p, q) ==
  /\ drawn = Nothing
  /\ drawn' = [kind |-> "rectangle", from |-> p, to |-> q, wide |-> 1,
               dots |-> {d \in rectangle(p, q) : OnBitmap(d)}]
  /\ UNCHANGED pen

\* NtGdiBitBlt.
BitBlt(p, q, size) ==
  /\ drawn = Nothing
  /\ drawn' = [kind |-> "blit", from |-> q, to |-> p, wide |-> size, dots |-> bitblt(p, q, size, size)]
  /\ UNCHANGED pen

\* The call returns; drawn is of interest no longer.
Return == drawn # Nothing /\ drawn' = Nothing /\ UNCHANGED pen

DNext ==
  \/ Return
  \/ \E p \in Spots : MoveTo(p)
  \/ \E p \in Spots, w \in PenWidths : LineTo(p, w)
  \/ \E p, q \in Spots : Rectangle(p, q)
  \/ \E p, q \in Spots, n \in 1..Width : BitBlt(p, q, n)

DSpec == DInit /\ [][DNext]_dvars

----------------------------------------------------------------------------
\* The pixels that a thin line writes are those of the line with x and y
\* exchanged (pen_dot): each is at most half a pixel from the true line, and for
\* every step along the longer side from the start, without the end, there is
\* one, if it is on the bitmap (line_bresenham).  A wide line stays in
\* the box of its ends and within half its width.  A block copy never reads or
\* writes outside of the bitmap, and from and to positions that are not negative
\* it copies every pixel that both rectangles have on it.
DrawingIsTrue ==
  LET a == drawn.from
      b == drawn.to
      dx == b[1] - a[1]
      dy == b[2] - a[2]
      longer == Larger(Absolute(dx), Absolute(dy))
      Near(p) == 2 * Absolute((p[1] - a[1]) * dy - (p[2] - a[2]) * dx) <= longer
  IN /\ drawn.kind = "line" /\ dx # 0 /\ dy # 0 /\ drawn.wide = 1 =>
          LET dots == {<<p[2], p[1]>> : p \in drawn.dots}
              major == IF Absolute(dy) >= Absolute(dx) THEN 2 ELSE 1
              At(k) == a[major] + Sign(b[major] - a[major]) * k
              Exact(k) == {p \in (Lesser(a[1], b[1])..Larger(a[1], b[1]))
                                  \X (Lesser(a[2], b[2])..Larger(a[2], b[2])) : p[major] = At(k) /\ Near(p)}
          IN /\ \A p \in dots : \E k \in 0..(longer - 1) : p \in Exact(k)
             /\ \A k \in 0..(longer - 1) :
                   LET n == Cardinality({p \in dots : p[major] = At(k)})
                   IN n <= 1 /\ ((\A p \in Exact(k) : OnBitmap(<<p[2], p[1]>>)) => n = 1)
     /\ drawn.kind = "line" /\ dx # 0 /\ dy # 0 /\ drawn.wide > 1 =>
          \A p \in drawn.dots : /\ p[1] \in Lesser(a[1], b[1])..Larger(a[1], b[1])
                                /\ p[2] \in Lesser(a[2], b[2])..Larger(a[2], b[2])
                                /\ line_error(a, b, p[1], p[2]) <= (drawn.wide * drawn.wide) \div 4
     /\ drawn.kind = "blit" =>
          LET box == (0..(Width - 1)) \X (0..(Height - 1))
              on == {<<j, i>> \in (0..(drawn.wide - 1)) \X (0..(drawn.wide - 1)) :
                       OnBitmap(<<b[1] + j, b[2] + i>>) /\ OnBitmap(<<a[1] + j, a[2] + i>>)}
          IN /\ drawn.dots \subseteq box \X box
             /\ a[1] >= 0 /\ a[2] >= 0 /\ b[1] >= 0 /\ b[2] >= 0 =>
                  drawn.dots = {<<<<b[1] + o[1], b[2] + o[2]>>, <<a[1] + o[1], a[2] + o[2]>>>> : o \in on}
===============================================================================
