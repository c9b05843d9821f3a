------------------------------- MODULE DrmOpen --------------------------------
(***************************************************************************)
(* Opening DRM devices in lib/drmtest.c.  __drm_open_driver_another(idx,   *)
(* chipset) opens the device for index idx of a multi-GPU test: with a     *)
(* --device filter for idx it opens the card the filter matches, otherwise *)
(* the first /dev/dri/cardN whose driver fits chipset and that is not the  *)
(* device recorded for an index below idx; when nothing fits it loads the  *)
(* kernel modules of chipset and searches again.  A successful open is     *)
(* recorded in the static table _opened_fds (fd and stat of the node) and  *)
(* _opened_fds_count becomes idx+1.  drm_open_driver is the same call for  *)
(* index 0 and, on the first i915 device, reopens it as the fd the exit    *)
(* handler will clean up and close.  drm_open_driver_render opens a       *)
(* /dev/dri/renderD node the same way (without recording it), falls back   *)
(* to drm_open_driver when there is none, and its first success keeps a   *)
(* reopened fd for its own exit handler.  drm_open_filtered_card opens the *)
(* card of the idx-th filter directly.                                     *)
(*                                                                         *)
(* A device node is a number 0..NumNodes-1 (cardN, and renderD(128+N) for *)
(* the nodes in RenderNodes); the node's inode is the node itself.  The driver of a node is a name; a node exists once    *)
(* its driver's module is loaded.  Chipset flags are sets of bit numbers:  *)
(* bit 9 stands for all bits above 8, so DRIVER_ANY = ~DRIVER_VGEM is      *)
(* every bit but 2 and (chipset & chip) == chip is chip \subseteq chipset. *)
(* Each call runs to completion (the program is single-threaded here); a   *)
(* failed assert() ends the process, which is the state "aborted".         *)
(***************************************************************************)
EXTENDS Integers, SequencesExt

CONSTANTS
  NumNodes,     \* device nodes /dev/dri/card0.. that can exist
  NodeDriver,   \* the driver name the kernel reports for each node
  Loaded,       \* modules loaded when the test starts
  RenderNodes,  \* the nodes that also have a render node
  FilterChoices,\* the --device filter lists a run may start with
  Forced,       \* IGT_FORCE_DRIVER, or "none"
  Chipsets,     \* chipset flags callers pass
  TableSize,    \* ARRAY_SIZE(_opened_fds) (64 in the code)
  MaxIdx,       \* largest idx a caller passes
  MaxCalls      \* bound on the number of opens and closes

Nodes == 0..NumNodes-1
Indexes == 0..MaxIdx

ASSUME NodeDriver \in [Nodes -> STRING] /\ Forced \in STRING
ASSUME \A f \in FilterChoices : \A i \in DOMAIN f : f[i] \in Nodes

(* The static modules[] table of drmtest.c, sorted by name for the binary *)
(* search of __drm_open_device.                                            *)
Modules == << [module |-> "amdgpu",   bit |-> 3], [module |-> "i915",   bit |-> 0],
              [module |-> "msm",      bit |-> 6], [module |-> "panfrost", bit |-> 5],
              [module |-> "v3d",      bit |-> 4], [module |-> "vc4",    bit |-> 1],
              [module |-> "vgem",     bit |-> 2], [module |-> "vmwgfx", bit |-> 8],
              [module |-> "xe",       bit |-> 7] >>

(* strcmp order on the names the model uses. *)
Names == << "amdgpu", "i915", "msm", "nouveau", "panfrost", "v3d", "vc4",
            "vgem", "vmwgfx", "xe" >>
Rank(s) == CHOOSE i \in DOMAIN Names : Names[i] = s
StrCmp(a, b) == Rank(a) - Rank(b)

DRIVER_ANY == (0..9) \ {2}
DRIVER_VGEM == {2}

DRIVER_INTEL == {0}

(* The loop of __drm_open_device: the driver bit of a name, DRIVER_ANY for *)
(* a driver the table does not list.  The range is [start, end) with end  *)
(* starting at ARRAY_SIZE(modules) - 1, the index of the {} sentinel.      *)
RECURSIVE Search(_, _, _)
Search(name, start, end) ==
  IF start >= end THEN DRIVER_ANY
  ELSE LET mid == start + (end - start) \div 2
           ret == StrCmp(Modules[mid + 1].module, name)
       IN  IF ret < 0 THEN Search(name, mid + 1, end)
           ELSE IF ret > 0 THEN Search(name, start, mid)
           ELSE {Modules[mid + 1].bit}

(* Mutant: the search range ends one entry early, at ARRAY_SIZE - 2. *)
ChipOfSentinelOff(name) == Search(name, 0, Len(Modules) - 1)

ChipOf(name) == Search(name, 0, Len(Modules))

VARIABLES
  FilterCard,    \* the card each --device filter matches (index -> node)
  loaded,        \* kernel modules loaded
  table,         \* _opened_fds[i]: the node whose stat is recorded, or -1
  count,         \* _opened_fds_count
  fds,           \* fds[n, k]: fds of node n, card or render, the test holds
  at_exit_fd,    \* at_exit_drm_fd: a node, or -1
  open_count,    \* the static open_count of drm_open_driver
  handler,       \* cancel_work_at_exit is installed
  at_exit_render_fd,  \* at_exit_drm_render_fd: a node, or -1
  render_count,  \* the static open_count of drm_open_driver_render
  render_handler,\* cancel_work_at_exit_render is installed
  ret,           \* the last card open: idx, chipset, the node or -1, modules
  rret,          \* the last render open: chipset, the render node or -1, modules
  calls,
  status         \* "running", "aborted" (a failed assert) or "exited"

vars == <<FilterCard, loaded, table, count, fds, at_exit_fd, open_count,
          handler, at_exit_render_fd, render_count, render_handler, ret, rret,
          calls, status>>

renderVars == <<at_exit_render_fd, render_count, render_handler, rret>>

Kinds == {"card", "render"}

Exists(n, mods) == NodeDriver[n] \in mods

(* __drm_open_device(cardN, chipset): open fails for a node that does not *)
(* exist; the forced driver is only checked for DRIVER_ANY.               *)
OpenDevice(n, chipset, mods) ==
  /\ Exists(n, mods)
  /\ ~(Forced # "none" /\ chipset = DRIVER_ANY /\ Forced # NodeDriver[n])
  /\ ChipOf(NodeDriver[n]) \subseteq chipset

(* Mutant: the comparison loop stops before as_idx - 1. *)
IsAlreadyOpenedSkipLast(n, as_idx, mods) ==
  ~Exists(n, mods) \/ \E i \in 0..as_idx-2 : table[i] = n

(* _is_already_opened(cardN, as_idx): a node that cannot be stat'ed counts *)
(* as opened; otherwise compare it with the entries below as_idx.         *)
IsAlreadyOpened(n, as_idx, mods) ==
  ~Exists(n, mods) \/ \E i \in 0..as_idx-1 : table[i] = n

(* __search_and_open(base, ...): the first node, in order, of those base *)
(* names (ns), neither already opened nor refused by __drm_open_device; -1 *)
(* if none.                                                                *)
SearchAndOpen(ns, chipset, as_idx, mods) ==
  LET ok == {n \in ns : ~IsAlreadyOpened(n, as_idx, mods)
                            /\ OpenDevice(n, chipset, mods)}
  IN  IF ok = {} THEN -1 ELSE CHOOSE n \in ok : \A m \in ok : n <= m

(* drm_load_module: modprobe every module whose bit is in chipset. *)
LoadModule(chipset) ==
  {Modules[i].module : i \in {i \in DOMAIN Modules : Modules[i].bit \in chipset}}

UseFilter(idx, chipset) == chipset # DRIVER_VGEM /\ idx \in DOMAIN FilterCard

(* __open_driver(base, offset, chipset, as_idx): search, and if           *)
(* nothing fits, load the modules of chipset and search again.  Its       *)
(* result is the node or -1 and the modules loaded afterwards.            *)
OpenDriver(ns, chipset, as_idx, mods) ==
  LET first == SearchAndOpen(ns, chipset, as_idx, mods)
      more  == mods \cup LoadModule(chipset)
  IN  IF first # -1 THEN [fd |-> first, mods |-> mods]
      ELSE [fd |-> SearchAndOpen(ns, chipset, as_idx, more), mods |-> more]

(* __open_driver_exact(card, chipset): the same with a single node. *)
OpenDriverExact(card, chipset, mods) ==
  IF OpenDevice(card, chipset, mods) THEN [fd |-> card, mods |-> mods]
  ELSE [fd |-> IF OpenDevice(card, chipset, mods \cup LoadModule(chipset))
               THEN card ELSE -1,
        mods |-> mods \cup LoadModule(chipset)]

(* __get_card_for_nth_filter after drm_load_module if the first scan did  *)
(* not find the card: the modules loaded once the filter has been tried.  *)
FilterScan(idx, chipset, mods) ==
  IF Exists(FilterCard[idx], mods) THEN mods ELSE mods \cup LoadModule(chipset)

(* __drm_open_driver_another before _set_opened_fd: the node it returns,  *)
(* or -1, and the modules loaded after it.                                *)
OpenAnother(idx, chipset, mods0) ==
  IF UseFilter(idx, chipset)
  THEN LET card == FilterCard[idx]
           mods == FilterScan(idx, chipset, mods0)
       IN  IF ~Exists(card, mods) \/ IsAlreadyOpened(card, idx, mods)
           THEN [fd |-> -1, mods |-> mods]
           ELSE OpenDriverExact(card, chipset, mods)
  ELSE OpenDriver(Nodes, chipset, idx, mods0)

(* __drm_open_driver_render before the xe cache: the filter's render node *)
(* (no module load, -1 when the card has none), or the first fitting     *)
(* renderD node of __open_driver("/dev/dri/renderD", 128, chipset, 0).    *)
OpenRender(chipset) ==
  IF UseFilter(0, chipset)
  THEN LET card == FilterCard[0] IN
       IF ~Exists(card, loaded) \/ card \notin RenderNodes
       THEN [fd |-> -1, mods |-> loaded]
       ELSE OpenDriverExact(card, chipset, loaded)
  ELSE OpenDriver(RenderNodes, chipset, 0, loaded)

(* The asserts of _is_already_opened and _set_opened_fd: as_idx within the *)
(* table and at most _opened_fds_count.  The compatibility search calls    *)
(* _is_already_opened for every node; the filter path only for a card it   *)
(* found, and _set_opened_fd only on success.                              *)
AssertsHold(idx, chipset, r) ==
  LET reached == ~UseFilter(idx, chipset)
                 \/ Exists(FilterCard[idx], r.mods) \/ r.fd # -1
  IN  reached => (idx < TableSize /\ idx <= count)

Init ==
  /\ FilterCard \in FilterChoices
  /\ loaded = Loaded
  /\ table = [i \in 0..TableSize-1 |-> -1]
  /\ count = 0
  /\ fds = [p \in Nodes \X Kinds |-> 0]
  /\ at_exit_fd = -1
  /\ open_count = 0
  /\ handler = FALSE
  /\ at_exit_render_fd = -1
  /\ render_count = 0
  /\ render_handler = FALSE
  /\ ret = [idx |-> -1, chipset |-> DRIVER_ANY, fd |-> -1, mods |-> Loaded]
  /\ rret = [chipset |-> DRIVER_ANY, fd |-> -2, mods |-> Loaded]
  /\ calls = 0
  /\ status = "running"

Call == status = "running" /\ calls < MaxCalls /\ calls' = calls + 1

(* A failed assert() of _is_already_opened or _set_opened_fd ends the     *)
(* process; the modules the call loaded stay loaded.                       *)
Abort(r) ==
  /\ status' = "aborted"
  /\ loaded' = r.mods
  /\ UNCHANGED <<table, count, fds, at_exit_fd, open_count, handler, ret>>

(* The rest of __drm_open_driver_another: _set_opened_fd on success. *)
Record(idx, chipset, r) ==
  /\ loaded' = r.mods
  /\ ret' = [idx |-> idx, chipset |-> chipset, fd |-> r.fd, mods |-> r.mods]
  /\ IF r.fd = -1 THEN UNCHANGED <<table, count, fds>>
     ELSE /\ table' = [table EXCEPT ![idx] = r.fd]
          /\ count' = idx + 1
          /\ fds' = [fds EXCEPT ![r.fd, "card"] = @ + 1]

DrmOpenAnother(idx, chipset) ==
  LET r == OpenAnother(idx, chipset, loaded) IN
  /\ Call
  /\ \/ ~AssertsHold(idx, chipset, r) /\ Abort(r)
     \/ /\ AssertsHold(idx, chipset, r)
        /\ Record(idx, chipset, r)
        /\ UNCHANGED <<at_exit_fd, open_count, handler, status>>
  /\ UNCHANGED <<FilterCard, renderVars>>

(* The body of drm_open_driver(chipset) with the modules mods loaded:     *)
(* __drm_open_driver_another(0, chipset); skip when it fails.  Every i915 *)
(* open adds to open_count; the first one cancels outstanding work and    *)
(* reopens the device (drm_reopen_driver) as at_exit_drm_fd, and installs *)
(* cancel_work_at_exit.  Index 0 passes the asserts: 0 <= the count.      *)
OpenDriverBody(chipset, mods) ==
  LET r == OpenAnother(0, chipset, mods)
      i915 == r.fd # -1 /\ NodeDriver[r.fd] = "i915"
  IN
  /\ Record(0, chipset, r)
  /\ open_count' = IF i915 THEN open_count + 1 ELSE open_count
  /\ IF i915 /\ open_count = 0
     THEN at_exit_fd' = r.fd /\ handler' = TRUE
     ELSE UNCHANGED <<at_exit_fd, handler>>
  /\ UNCHANGED status

DrmOpenDriver(chipset) ==
  /\ Call
  /\ OpenDriverBody(chipset, loaded)
  /\ UNCHANGED <<FilterCard, renderVars>>

(* Mutant: the render exit handler only for a request of DRIVER_INTEL     *)
(* alone.                                                                  *)
RenderHandlerExact(chipset) == chipset = DRIVER_INTEL

(* drm_open_driver_render installs cancel_work_at_exit_render when the    *)
(* request has the Intel bit.                                              *)
RenderHandler(chipset) == DRIVER_INTEL \subseteq chipset

(* drm_open_driver_render(chipset): no render node means drm_open_driver  *)
(* (with the modules the render search loaded).  Otherwise only its first *)
(* success (open_count, whatever the device) reopens the fd as            *)
(* at_exit_drm_render_fd and, for a request with the Intel bit, cancels   *)
(* work and installs cancel_work_at_exit_render.                          *)
DrmOpenDriverRender(chipset) ==
  LET r == OpenRender(chipset) IN
  /\ Call
  /\ rret' = [chipset |-> chipset, fd |-> r.fd, mods |-> r.mods]
  /\ IF r.fd = -1
     THEN /\ OpenDriverBody(chipset, r.mods)
          /\ UNCHANGED <<at_exit_render_fd, render_count, render_handler>>
     ELSE /\ loaded' = r.mods
          /\ fds' = [fds EXCEPT ![r.fd, "render"] = @ + 1]
          /\ render_count' = render_count + 1
          /\ IF render_count = 0
             THEN /\ at_exit_render_fd' = r.fd
                  /\ render_handler' = RenderHandler(chipset)
             ELSE UNCHANGED <<at_exit_render_fd, render_handler>>
          /\ UNCHANGED <<table, count, at_exit_fd, open_count, handler, ret,
                         status>>
  /\ UNCHANGED FilterCard

(* drm_open_filtered_card(idx): -1 unless idx is a filter index; open the *)
(* card the filter matches among the devices present.  The fd is not      *)
(* recorded in _opened_fds.                                                *)
DrmOpenFilteredCard(idx) ==
  /\ Call
  /\ IF idx \in DOMAIN FilterCard /\ Exists(FilterCard[idx], loaded)
     THEN fds' = [fds EXCEPT ![FilterCard[idx], "card"] = @ + 1]
     ELSE UNCHANGED fds
  /\ UNCHANGED <<FilterCard, loaded, table, count, at_exit_fd, open_count,
                 handler, ret, renderVars, status>>

(* Mutant: drm_close_driver without the is_valid_fd check. *)
DrmCloseDriverUnchecked(n, k) ==
  /\ Call
  /\ fds' = [fds EXCEPT ![n, k] = @ - 1]
  /\ UNCHANGED <<FilterCard, loaded, table, count, at_exit_fd, open_count,
                 handler, ret, renderVars, status>>

(* drm_close_driver(fd) on an fd the test holds: it is a /dev/dri card or *)
(* renderD node, so is_valid_fd holds and the fd is closed.  _opened_fds  *)
(* keeps it.                                                               *)
DrmCloseDriver(n, k) ==
  /\ Call
  /\ fds[n, k] > 0
  /\ fds' = [fds EXCEPT ![n, k] = @ - 1]
  /\ UNCHANGED <<FilterCard, loaded, table, count, at_exit_fd, open_count,
                 handler, ret, renderVars, status>>

(* The process exits and runs its exit handlers: cancel_work_at_exit and  *)
(* cancel_work_at_exit_render clean up and close their fd if still open.  *)
Exit ==
  /\ status = "running"
  /\ status' = "exited"
  /\ at_exit_fd' = IF handler THEN -1 ELSE at_exit_fd
  /\ at_exit_render_fd' = IF render_handler THEN -1 ELSE at_exit_render_fd
  /\ UNCHANGED <<FilterCard, loaded, table, count, fds, open_count, handler,
                 render_count, render_handler, ret, rret, calls>>

(* The process has ended. *)
Finished ==
  /\ status \in {"aborted", "exited"}
  /\ UNCHANGED vars

Next ==
  \/ \E idx \in Indexes, chipset \in Chipsets : DrmOpenAnother(idx, chipset)
  \/ \E chipset \in Chipsets : DrmOpenDriver(chipset)
  \/ \E chipset \in Chipsets : DrmOpenDriverRender(chipset)
  \/ \E idx \in {-1} \cup Indexes : DrmOpenFilteredCard(idx)
  \/ \E n \in Nodes, k \in Kinds : DrmCloseDriver(n, k)
  \/ Exit
  \/ Finished

Spec == Init /\ [][Next]_vars

-----------------------------------------------------------------------------

TypeOK ==
  /\ FilterCard \in FilterChoices
  /\ loaded \subseteq Range(Names)
  /\ table \in [0..TableSize-1 -> Nodes \cup {-1}]
  /\ count \in 0..TableSize
  /\ fds \in [Nodes \X Kinds -> 0..MaxCalls]
  /\ at_exit_fd \in Nodes \cup {-1}
  /\ at_exit_render_fd \in Nodes \cup {-1}
  /\ handler \in BOOLEAN /\ render_handler \in BOOLEAN
  /\ status \in {"running", "aborted", "exited"}

(* The indexes below _opened_fds_count name different devices: a test    *)
(* that opens index i after 0..i-1 never gets a card it already holds for  *)
(* a lower index, whichever of the filter and compatibility paths each     *)
(* open took and however drm_open_driver reset the count in between.       *)
DistinctOpened ==
  \A i, j \in 0..count-1 : i # j => table[i] # table[j]

(* At exit, every fd the library reopened for an exit handler on an i915 *)
(* device has been cleaned up and closed, whether the first i915 open     *)
(* went through drm_open_driver or drm_open_driver_render and whatever    *)
(* flags it passed.                                                        *)
I915ExitFdsClosed ==
  status = "exited" =>
    \A fd \in {at_exit_fd, at_exit_render_fd} \ {-1} : NodeDriver[fd] # "i915"

(* The reference for the binary search of __drm_open_device: the bit of   *)
(* the modules[] entry with that name, DRIVER_ANY if there is none.        *)
LinearChip(name) ==
  IF \E i \in DOMAIN Modules : Modules[i].module = name
  THEN {Modules[CHOOSE i \in DOMAIN Modules : Modules[i].module = name].bit}
  ELSE DRIVER_ANY

(* The binary search over modules[] finds every driver of the table and   *)
(* gives DRIVER_ANY to a driver it does not list.                          *)
ModuleLookupCorrect ==
  \A s \in Range(Names) : ChipOf(s) = LinearChip(s)

====
