------------------------------ MODULE IgtSysfs ------------------------------
(***************************************************************************)
(* The attribute helpers of lib/igt_sysfs.c over a device's sysfs          *)
(* directory, and the fbcon helpers of the same file.                      *)
(*                                                                         *)
(* The directory holds a string attribute "str", whose store keeps the C   *)
(* string it is given and whose show returns it, and a u32 attribute       *)
(* "freq" (a gt_*_freq_mhz), whose store takes kstrtou32 text in           *)
(* FreqLo..FreqHi and whose show prints "%u\n"; "none" names an absent     *)
(* node, which openat fails with ENOENT.  A byte is a one-character       *)
(* string, "nl" the newline and "nul" the NUL byte.  igt_readn and igt_writen (not in this tree) loop until   *)
(* the count is done, EOF or an error; a sysfs store takes the whole       *)
(* buffer or fails, a show is read whole.                                  *)
(*                                                                         *)
(* The readers (igt_sysfs_get, igt_sysfs_scanf and their wrappers) change  *)
(* nothing: they are operators over the current attributes, and the        *)
(* properties apply them to every state the writers reach.  The fbcon      *)
(* cursor_blink node holds 0 or 1; the vt consoles are owned by the frame  *)
(* buffer console or by the dummy one.                                     *)
(***************************************************************************)
EXTENDS Integers, Sequences

LOCAL SE == INSTANCE SequencesExt

CONSTANTS
  StrShows,     \* what the driver may show for "str" (at most 254 bytes)
  Writes,       \* byte strings callers pass to write, set and printf("%s")
  U32Writes,    \* values callers pass to __igt_sysfs_set_u32
  FreqLo,       \* the range the "freq" store accepts
  FreqHi,
  MaxReallocs,  \* reallocs igt_sysfs_get may be granted before one fails
  BlinkTails    \* the bytes strlen may find after prev_value[2] (UB)

Stack == 128        \* sizeof(stack) in igt_sysfs_vprintf
GetStart == 64      \* the first allocation of igt_sysfs_get
NL == "nl"
NUL == "nul"
ENOENT == -2
ENOMEM == -12
EINVAL == -22
EOF == -1
Attrs == {"str", "freq", "none"}

VARIABLES
  str,       \* the value the "str" attribute keeps
  freq,      \* the value of the "freq" attribute
  stored,    \* the last setter that reported success: the attribute, the
             \* kind ("u32" or "bool") and the value; NoSet once another
             \* write has replaced the value, or before any
  blink,     \* fbcon's cursor blink, 0 or 1
  blink0,    \* the cursor blink before the test ran
  blinkFd,   \* fbcon_cursor_blink_fd # -1 (the restore handler is installed)
  prev,      \* fbcon_cursor_blink_prev_value[2]
  restored,  \* the exit handler fbcon_cursor_blink_restore has run
  vtOwner    \* the console driver bound to the vts: "fb" or "dummy"

varsS == <<str, freq, stored, blink, blink0, blinkFd, prev, restored, vtOwner>>

Digits == <<"0", "1", "2", "3", "4", "5", "6", "7", "8", "9">>
Dig(d) == Digits[d + 1]
IsDigit(c) == \E d \in 0..9 : Dig(d) = c
DigitVal(c) == CHOOSE d \in 0..9 : Dig(d) = c

(* "%u" and "%d" of a non-negative value.                                  *)
RECURSIVE Decimal(_)
Decimal(n) == IF n < 10 THEN <<Dig(n)>> ELSE Decimal(n \div 10) \o <<Dig(n % 10)>>

RECURSIVE ValueOf(_)
ValueOf(ds) == IF ds = <<>> THEN 0 ELSE 10 * ValueOf(SE!Front(ds)) + DigitVal(SE!Last(ds))

(* The longest prefix of s before the first byte that fails Test.          *)
PrefixWhile(s, Test(_)) ==
  LET k == SE!SelectInSeq(s, LAMBDA c : ~Test(c))
  IN  IF k = 0 THEN s ELSE SubSeq(s, 1, k - 1)

(* The bytes a C string function sees: up to the first NUL.                *)
CStr(b) == PrefixWhile(b, LAMBDA c : c # NUL)

(* s without its leading white space (the newline, for these bytes).       *)
SkipSpace(s) == SubSeq(s, Len(PrefixWhile(s, LAMBDA c : c = NL)) + 1, Len(s))

(* kstrtou32 of the stored text: digits and at most one trailing newline.  *)
IsU32Text(s) ==
  LET t == IF s # <<>> /\ SE!Last(s) = NL THEN SE!Front(s) ELSE s
  IN  t # <<>> /\ \A i \in 1..Len(t) : IsDigit(t[i])

Show(a) == IF a = "str" THEN str ELSE Decimal(freq) \o <<NL>>

(* What write() of bytes b to attribute a returns: a zero-byte write       *)
(* returns 0 before the store is called.                                   *)
StoreRet(a, b) ==
  CASE a = "none" -> ENOENT
    [] b = <<>> -> 0
    [] a = "str" -> Len(b)
    [] OTHER -> IF IsU32Text(CStr(b)) /\ ValueOf(PrefixWhile(CStr(b), IsDigit)) \in FreqLo..FreqHi
                THEN Len(b) ELSE EINVAL

(* The store's effect.                                                     *)
Store(a, b) ==
  /\ str' = IF a = "str" /\ StoreRet(a, b) > 0 THEN CStr(b) ELSE str
  /\ freq' = IF a = "freq" /\ StoreRet(a, b) > 0
             THEN ValueOf(PrefixWhile(CStr(b), IsDigit)) ELSE freq

NoSet == [a |-> "none", kind |-> "none", v |-> 0]

(* A setter's record, kept while no other write replaced the value.        *)
Remember(a, b, kind, v, ok) ==
  stored' = IF ok THEN [a |-> a, kind |-> kind, v |-> v]
            ELSE IF stored.a = a /\ StoreRet(a, b) > 0 THEN NoSet ELSE stored

Fbcon == <<blink, blink0, blinkFd, prev, restored, vtOwner>>

-----------------------------------------------------------------------------
(* The writers.                                                            *)

(* igt_sysfs_write(dir, a, b, len(b)): openat, igt_writen, close.          *)
SysfsWrite(a, b) ==
  Store(a, b) /\ Remember(a, b, "none", 0, FALSE) /\ UNCHANGED Fbcon

(* igt_sysfs_set(dir, a, value): a write of strlen(value) bytes, true when *)
(* all were written.                                                       *)
SysfsSet(a, v) == SysfsWrite(a, CStr(v))

(* Mutant: both branches format with size ret, losing the last byte.     *)
VprintfSized(s, mallocOk) ==
  LET ret == Len(s) IN
  IF ret > Stack /\ ~mallocOk THEN [ok |-> FALSE, bytes |-> <<>>]
  ELSE [ok |-> TRUE, bytes |-> SubSeq(s, 1, ret - 1) \o <<NUL>>]

(* The bytes igt_sysfs_vprintf hands igt_writen for a formatted string s,  *)
(* ok FALSE when it returns before writing.  vsnprintf into the 128-byte   *)
(* stack buffer returns Len(s); a result above 128 is formatted again into *)
(* malloc(ret + 1) with size ret.  ret bytes are written either way.       *)
Vprintf(s, mallocOk) ==
  LET ret == Len(s) IN
  IF ret > Stack
  THEN IF mallocOk THEN [ok |-> TRUE, bytes |-> SubSeq(s, 1, ret - 1) \o <<NUL>>]
       ELSE [ok |-> FALSE, bytes |-> <<>>]
  ELSE [ok |-> TRUE,
        bytes |-> IF ret < Stack THEN s ELSE SubSeq(s, 1, Stack - 1) \o <<NUL>>]

(* What igt_sysfs_vprintf returns: igt_writen's count, -ENOENT from        *)
(* openat, -ENOMEM from malloc (the descriptor is left open).              *)
PrintfRet(a, s, mallocOk) ==
  LET p == Vprintf(s, mallocOk) IN
  CASE a = "none" -> ENOENT
    [] ~p.ok -> ENOMEM
    [] OTHER -> StoreRet(a, p.bytes)

(* igt_sysfs_printf(dir, a, "%s", s); a failed openat or malloc returns   *)
(* before anything is written.                                             *)
SysfsPrintf(a, s) == SysfsWrite(a, Vprintf(s, TRUE).bytes)

(* __igt_sysfs_set_u32(dir, a, v): printf "%u", true on a positive count. *)
SetU32(a, v) ==
  LET b == Vprintf(Decimal(v), TRUE).bytes IN
  /\ Store(a, b)
  /\ Remember(a, b, "u32", v, PrintfRet(a, Decimal(v), TRUE) > 0)
  /\ UNCHANGED Fbcon

(* __igt_sysfs_set_boolean(dir, a, v): printf "%d", true on a count of 1. *)
SetBoolean(a, v) ==
  LET b == Vprintf(Decimal(v), TRUE).bytes IN
  /\ Store(a, b)
  /\ Remember(a, b, "bool", v, PrintfRet(a, Decimal(v), TRUE) = 1)
  /\ UNCHANGED Fbcon

-----------------------------------------------------------------------------
(* The readers.                                                            *)

RECURSIVE GetLoop(_, _, _, _)

(* Mutant: the loop reads len - offset bytes, leaving no room for the NUL. *)
GetLoopFull(show, len, offset, grants) ==
  LET rem == len - offset
      ret == IF rem < Len(show) - offset THEN rem ELSE Len(show) - offset
  IN  IF ret = rem /\ grants > 0
      THEN GetLoop(show, 2 * len, offset + ret, grants - 1)
      ELSE [alloc |-> len, end |-> offset + ret, cut |-> ret = rem]

(* Mutant: the bytes of the last read are not added to offset.             *)
GetLoopNoTail(show, len, offset, grants) ==
  LET rem == len - offset - 1
      ret == IF rem < Len(show) - offset THEN rem ELSE Len(show) - offset
  IN  IF ret = rem /\ grants > 0
      THEN GetLoop(show, 2 * len, offset + ret, grants - 1)
      ELSE [alloc |-> len, end |-> offset, cut |-> ret = rem]

(* The read loop of igt_sysfs_get from a buffer of len bytes holding       *)
(* offset: igt_readn of rem = len - offset - 1 bytes; a full read doubles  *)
(* the buffer with realloc (while grants last) and goes on, anything else, *)
(* or a failed realloc, ends the loop and adds the bytes read.  It gives   *)
(* the allocation, the index of the terminating NUL, and whether a failed  *)
(* realloc cut the value short.                                            *)
GetLoop(show, len, offset, grants) ==
  LET rem == len - offset - 1
      ret == IF rem < Len(show) - offset THEN rem ELSE Len(show) - offset
  IN  IF ret = rem /\ grants > 0
      THEN GetLoop(show, 2 * len, offset + ret, grants - 1)
      ELSE [alloc |-> len, end |-> offset + ret, cut |-> ret = rem]

(* The trailing newlines igt_sysfs_get overwrites with NUL.                *)
RECURSIVE StripNL(_)
StripNL(s) == IF s # <<>> /\ SE!Last(s) = NL THEN StripNL(SE!Front(s)) ELSE s

(* igt_sysfs_get(dir, a) with realloc granted grants times: NULL (null) if *)
(* openat fails, else the string (a failed first malloc also gives NULL).  *)
SysfsGet(a, grants) ==
  IF a = "none"
  THEN [null |-> TRUE, res |-> <<>>, alloc |-> 0, end |-> 0, cut |-> FALSE]
  ELSE LET g == GetLoop(Show(a), GetStart, 0, grants) IN
       [null |-> FALSE, res |-> StripNL(SubSeq(Show(a), 1, g.end)),
        alloc |-> g.alloc, end |-> g.end, cut |-> g.cut]

(* vfscanf or sscanf "%u" / "%d": white space skipped, then EOF at the end *)
(* of input, 1 with the value of the digits, or 0.                         *)
Scan(s) ==
  LET t == SkipSpace(s) IN
  [n |-> IF t = <<>> THEN EOF ELSE IF IsDigit(t[1]) THEN 1 ELSE 0,
   v |-> ValueOf(PrefixWhile(t, IsDigit))]

(* __igt_sysfs_get_u32(dir, a, &value): igt_sysfs_scanf "%u", true on 1.  *)
GetU32(a) ==
  IF a = "none" THEN [ok |-> FALSE, v |-> 0]
  ELSE [ok |-> Scan(Show(a)).n = 1, v |-> Scan(Show(a)).v]

(* __igt_sysfs_get_boolean(dir, a, &value): igt_sysfs_get, then "%d" read *)
(* as 1 or 0, or the whole string "Y" or "N" in either case.               *)
GetBoolean(a) ==
  LET g == SysfsGet(a, MaxReallocs)
      sc == Scan(g.res)
  IN  CASE g.null -> [ok |-> FALSE, v |-> 0]
        [] (sc.n = 1 /\ sc.v = 1) \/ (sc.n = 0 /\ g.res \in {<<"Y">>, <<"y">>})
             -> [ok |-> TRUE, v |-> 1]
        [] (sc.n = 1 /\ sc.v = 0) \/ (sc.n = 0 /\ g.res \in {<<"N">>, <<"n">>})
             -> [ok |-> TRUE, v |-> 0]
        [] OTHER -> [ok |-> FALSE, v |-> 0]

-----------------------------------------------------------------------------
(* fbcon.                                                                  *)

(* store_cursor_blink: simple_strtoul of the written text, blinking when   *)
(* it is not zero.                                                         *)
BlinkStore(b) == IF ValueOf(PrefixWhile(CStr(b), IsDigit)) # 0 THEN 1 ELSE 0

Others == <<str, freq, stored>>

(* Mutant: the first read asks for one byte more than prev_value holds.   *)
FbconBlinkEnableLongRead(en) ==
  /\ IF ~blinkFd
     THEN prev' = <<Dig(blink), NL, NUL>> /\ blinkFd' = TRUE
     ELSE UNCHANGED <<prev, blinkFd>>
  /\ blink' = BlinkStore(<<Dig(en), NUL>>)
  /\ UNCHANGED <<blink0, restored, vtOwner>> /\ UNCHANGED Others

(* Mutant: the previous value is read and the handler armed on every call. *)
FbconBlinkEnableEveryCall(en) ==
  /\ prev' = <<Dig(blink), NL>> /\ blinkFd' = TRUE
  /\ blink' = BlinkStore(<<Dig(en), NUL>>)
  /\ UNCHANGED <<blink0, restored, vtOwner>> /\ UNCHANGED Others

(* fbcon_blink_enable(en): open cursor_blink (a failure skips the test);   *)
(* on the first call read its two bytes ("%d\n") into prev_value, dup the  *)
(* descriptor and install the restore handler; then write "0" or "1" and   *)
(* its NUL.                                                                *)
FbconBlinkEnable(en) ==
  /\ IF ~blinkFd
     THEN prev' = <<Dig(blink), NL>> /\ blinkFd' = TRUE
     ELSE UNCHANGED <<prev, blinkFd>>
  /\ blink' = BlinkStore(<<Dig(en), NUL>>)
  /\ UNCHANGED <<blink0, restored, vtOwner>> /\ UNCHANGED Others

(* fbcon_cursor_blink_restore, run as the process exits: write             *)
(* strlen(prev_value) + 1 bytes.  prev_value holds no NUL, so strlen runs  *)
(* on into the static bytes after it: any tail, then a NUL.                *)
FbconBlinkRestore ==
  /\ blinkFd
  /\ \E t \in BlinkTails : blink' = BlinkStore(prev \o t \o <<NUL>>)
  /\ restored' = TRUE
  /\ UNCHANGED <<blink0, blinkFd, prev, vtOwner>> /\ UNCHANGED Others

(* Writing "1\n" to a console driver's bind takes the vts; "0\n" to the   *)
(* one that has them hands them to the other.                              *)
BindWrite(drv, enable, owner) ==
  IF enable THEN drv
  ELSE IF owner = drv THEN (IF drv = "fb" THEN "dummy" ELSE "fb") ELSE owner

(* bind_fbcon(en): bind_con("dummy device", !en), then bind_con("frame     *)
(* buffer device", en).  bind_con finds the vtcon whose name holds the    *)
(* string and writes its bind; an unreadable name, a failed open or a      *)
(* failed write (ignored) leaves it as it was.                             *)
BindFbcon(en) ==
  /\ \E okDummy, okFb \in BOOLEAN :
       LET o == IF okDummy THEN BindWrite("dummy", ~en, vtOwner) ELSE vtOwner
       IN  vtOwner' = IF okFb THEN BindWrite("fb", en, o) ELSE o
  /\ UNCHANGED <<blink, blink0, blinkFd, prev, restored>> /\ UNCHANGED Others

-----------------------------------------------------------------------------

InitS ==
  /\ str \in StrShows /\ freq = FreqLo /\ stored = NoSet
  /\ blink \in {0, 1} /\ blink0 = blink
  /\ blinkFd = FALSE /\ prev = <<NUL, NUL>> /\ restored = FALSE
  /\ vtOwner \in {"fb", "dummy"}

(* The test process calls the helpers until it exits.                      *)
NextS ==
  /\ ~restored
  /\ \/ \E a \in Attrs, b \in Writes :
          SysfsWrite(a, b) \/ SysfsSet(a, b) \/ SysfsPrintf(a, b)
     \/ \E a \in Attrs \ {"none"} :
          \/ \E v \in U32Writes : SetU32(a, v)
          \/ \E v \in 0..1 : SetBoolean(a, v)
     \/ \E en \in 0..1 : FbconBlinkEnable(en)
     \/ \E en \in BOOLEAN : BindFbcon(en)
     \/ FbconBlinkRestore

-----------------------------------------------------------------------------

TypeOKS ==
  /\ str \in Seq(STRING) /\ freq \in FreqLo..FreqHi
  /\ stored.a \in Attrs /\ stored.kind \in {"none", "u32", "bool"}
  /\ blink \in {0, 1} /\ blink0 \in {0, 1} /\ blinkFd \in BOOLEAN
  /\ prev \in Seq(STRING) /\ Len(prev) = 2 /\ restored \in BOOLEAN
  /\ vtOwner \in {"fb", "dummy"}

(* Whatever the writers left in an attribute, and however many reallocs    *)
(* succeed, igt_sysfs_get returns what the kernel shows without its        *)
(* trailing newlines, or a prefix of it when a failed realloc cut the read *)
(* short: values that end exactly at the 63-, 127- and 255-byte marks of   *)
(* the doubling loop included.                                             *)
GetMatchesShow ==
  \A a \in {"str", "freq"}, n \in 0..MaxReallocs :
    LET g == SysfsGet(a, n) IN
    /\ SE!IsPrefix(g.res, Show(a))
    /\ ~g.cut => g.res = StripNL(Show(a))

(* igt_sysfs_get writes its terminating NUL inside the buffer it holds,    *)
(* also when a realloc fails right after a read that filled the buffer.    *)
GetTerminatedInBounds ==
  \A a \in {"str", "freq"}, n \in 0..MaxReallocs : SysfsGet(a, n).end < SysfsGet(a, n).alloc

(* A value that __igt_sysfs_set_u32 or __igt_sysfs_set_boolean reported    *)
(* stored reads back through __igt_sysfs_get_u32 or                        *)
(* __igt_sysfs_get_boolean until another write replaces it: the printf,   *)
(* the kernel's parse and show, and the scanf agree.                       *)
SetReadsBack ==
  stored.kind # "none" =>
    (IF stored.kind = "u32" THEN GetU32(stored.a) ELSE GetBoolean(stored.a))
      = [ok |-> TRUE, v |-> stored.v]

(* After fbcon_cursor_blink_restore has run, the cursor blinks as it did   *)
(* before the first fbcon_blink_enable, however many calls came between   *)
(* and whatever bytes strlen runs into past prev_value.                    *)
BlinkRestored ==
  restored => blink = blink0

=============================================================================
