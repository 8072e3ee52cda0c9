--------------------------- MODULE VideoSettings ---------------------------
(***************************************************************************)
(* The settings of the video chip and of the encoder, and the two locks    *)
(* they are changed under: VideoSetEDID, VideoSetQualityFactor and         *)
(* VideoSetCodecType of internal/native/video.go with the C functions of   *)
(* ctrl.c and edid.c they call, and what venc_start makes of the settings  *)
(* and of the timings of the source (video.c).                             *)
(*                                                                         *)
(* An EDID travels as hexadecimal text.  A character is a digit 0..15, or  *)
(* Space, Plus, Minus or Other: strtol also takes a pair that begins with  *)
(* one of the first three.                                                 *)
(***************************************************************************)
EXTENDS Integers, Sequences, FiniteSetsExt

CONSTANTS
    Callers,     \* goroutines that serve RPC calls
    Nobody,      \* a lock that is free
    Texts,       \* EDIDs that are asked for, as sequences of characters
    Qualities,   \* quality factors that are asked for, in hundredths
    Timings,     \* timings of sources: width, height, htotal, vtotal, clock
    BlockSize,   \* bytes of an EDID block, 128 in edid.c
    MaxInt,      \* INT32_MAX of video.c
    DefaultEDID, \* the text that stands in for an empty one
    Logs         \* kernel logs, as sequences of the tokens below

\* characters that are no digit, and the failure of a conversion
Space == 16
Plus  == 17
Minus == 18
Other == 19
Error == <<-1>>

\* tokens of the kernel log: the level mark of the driver's lines, another mark,
\* what replaces a mark, the text that begins a status, any other text
Mark == 1
Level == 2
Blank == 3
Start == 4
Text == 5

ASSUME CallerAssumption  == Nobody \notin Callers
ASSUME BlockAssumption   == BlockSize \in Nat \ {0}
ASSUME DefaultAssumption == Len(DefaultEDID) \in {2 * BlockSize, 4 * BlockSize}
ASSUME TextAssumption    == \A s \in Texts \cup {DefaultEDID} : s \in Seq(0..Other)
ASSUME QualityAssumption == Qualities \subseteq Int

\* what VIDIOC_QUERY_DV_TIMINGS returns for a signal it has locked on to
ASSUME TimingAssumption ==
    \A t \in Timings : /\ {t.width, t.height, t.clock} \subseteq Nat
                       /\ {t.htotal, t.vtotal} \subseteq Nat \ {0}

\* an int32_t holds the constants of calculate_bitrate, and three times the rate
\* of every picture at factor 1 (of any picture below 370000 megapixels)
ASSUME IntAssumption ==
    /\ MaxInt \in Nat /\ MaxInt >= 4000
    /\ \A t \in Timings : 3 * ((4000 * ((t.width * t.height) \div 64)) \div 32400) <= MaxInt

\* every line of the kernel log begins with a mark, but the first may have lost
\* it, and a status begins a line of its own
ASSUME LogAssumption ==
    \A log \in Logs :
      /\ log \in Seq(Mark..Text)
      /\ \A i, j \in DOMAIN log : i < j /\ log[i] = Start /\ log[j] = Start =>
             \E k \in i..j : log[k] \in {Mark, Level}

VARIABLES
    videoLock,  \* n.videoLock
    extraLock,  \* n.extraLock
    pc,         \* the callers
    arg,        \* their calls
    edid,       \* the EDID the chip shows to the source
    asked,      \* history: the text of the last EDID that was accepted
    quality,    \* quality_factor
    codec,      \* codec_type
    attr        \* the attributes of the last encoder channel

vars == <<videoLock, extraLock, pc, arg, edid, asked, quality, codec, attr>>

(***************************************************************************)
(* ctrl.c: hexadecimal text.                                               *)
(***************************************************************************)

Digit(c) == c \in 0..15

\* strtol of two characters in base 16, or -1
PairValue(a, b) ==
    CASE Digit(a) /\ Digit(b)           -> 16 * a + b
      [] a \in {Space, Plus} /\ Digit(b) -> b
      [] a = Minus /\ b = 0             -> 0
      [] OTHER                          -> -1

hex_to_bytes(s, max) ==
    LET bytes == [i \in 1..(Len(s) \div 2) |-> PairValue(s[2 * i - 1], s[2 * i])]
    IN  IF Len(s) % 2 # 0 \/ Len(s) \div 2 > max \/ -1 \in {bytes[i] : i \in DOMAIN bytes}
        THEN Error ELSE bytes

\* mutant: the digits of a byte are swapped
bytes_to_swapped_hex(b) ==
    [i \in 1..(2 * Len(b)) |-> IF i % 2 = 0 THEN b[i \div 2] \div 16 ELSE (b[(i + 1) \div 2]) % 16]

bytes_to_hex(b) ==
    [i \in 1..(2 * Len(b)) |-> IF i % 2 = 1 THEN b[(i + 1) \div 2] \div 16 ELSE (b[i \div 2]) % 16]

(***************************************************************************)
(* edid.c.                                                                 *)
(***************************************************************************)

\* sum, a uint8_t, after n bytes of the block that follows byte base
BlockSum(b, base) ==
    LET sum[n \in 0..BlockSize] == IF n = 0 THEN 0 ELSE (sum[n - 1] + b[base + n]) % 256
    IN  sum

\* the last byte of a block makes its sum a multiple of 256
fix_edid_checksum(b) ==
    [i \in 1..Len(b) |->
        IF i % BlockSize # 0 THEN b[i] ELSE (256 - BlockSum(b, i - BlockSize)[BlockSize - 1]) % 256]

\* mutant: any length will do
AnySize(b) == TRUE

ValidSize(b) == Len(b) \in {BlockSize, 2 * BlockSize}

\* hex_to_bytes and set_edid; the device may refuse it
SetEdidResults(s) ==
    LET b == hex_to_bytes(s, 2 * BlockSize)
    IN  {Error} \cup (IF b # Error /\ ValidSize(b) THEN {fix_edid_checksum(b)} ELSE {})

\* mutant: the first status of the log is taken
first_log_status(log) ==
    LET starts == {i \in DOMAIN log : log[i] = Start}
        marks  == {i \in DOMAIN log : log[i] \in {Mark, Level} /\ i <= Min(starts)}
        from   == IF marks = {} THEN 1 ELSE Max(marks)
    IN  IF starts = {} THEN log
        ELSE [i \in 1..(Len(log) - from + 1) |->
                 IF log[from + i - 1] = Mark THEN Blank ELSE log[from + i - 1]]

\* what follows the last mark before the last status, the driver's marks blanked;
\* a log without a status is returned as it is
videoc_log_status(log) ==
    LET starts == {i \in DOMAIN log : log[i] = Start}
        marks  == {i \in DOMAIN log : log[i] \in {Mark, Level} /\ i <= Max(starts)}
        from   == IF marks = {} THEN 1 ELSE Max(marks)
    IN  IF starts = {} THEN log
        ELSE [i \in 1..(Len(log) - from + 1) |->
                 IF log[from + i - 1] = Mark THEN Blank ELSE log[from + i - 1]]

(***************************************************************************)
(* video.c: what venc_start computes.                                      *)
(***************************************************************************)

Align16(x) == 16 * ((x + 15) \div 16)

Larger(a, b) == IF a > b THEN a ELSE b

\* the rate of a source, rounded to the nearest integer
FrameRate(t) ==
    LET total == t.htotal * t.vtotal
    IN  Larger(1, (2 * t.clock + total) \div (2 * total))

\* a sum or a product that leaves the range of int32_t wraps around
Wrap(x) == ((x + MaxInt + 1) % (2 * MaxInt + 2)) - MaxInt - 1

\* a floating-point value that int32_t cannot hold becomes an end of the range
Cast(x) == IF x \in (-MaxInt - 1)..MaxInt THEN {x} ELSE {MaxInt, -MaxInt - 1}

\* RK_U32 of an int32_t
Unsigned(x) == x % (2 * MaxInt + 2)

\* division by two truncates towards zero
Half(x) == IF x < 0 THEN -((-x) \div 2) ELSE x \div 2

\* what calculate_bitrate may return, in kbit/s; a picture is counted in tiles of
\* 64 pixels, of which 1920x1080 has 32400
calculate_bitrate(q, width, height) ==
    LET tiles == (width * height) \div 64
        bases == {Wrap(512 + x) : x \in Cast(((4000 - 512) * q) \div 100)}
    IN  {Larger(200, r) : r \in UNION {Cast((base * tiles) \div 32400) : base \in bases}}

\* mutant: the group of pictures has no lower limit
attr_without_gop_limit(q, kbit, k, t) ==
    [factor |-> q, codec |-> k, bitrate |-> kbit, max |-> Unsigned(Half(Wrap(kbit * 3))),
     min |-> Larger(2, kbit \div 2), gop |-> FrameRate(t) \div 2, rate |-> FrameRate(t),
     stride |-> Align16(t.width), width |-> t.width]

\* the channel of venc_start, with the factor it was computed for
populate_venc_attr(q, kbit, k, t) ==
    [factor |-> q, codec |-> k, bitrate |-> kbit, max |-> Unsigned(Half(Wrap(kbit * 3))),
     min |-> Larger(2, kbit \div 2), gop |-> Larger(1, FrameRate(t) \div 2), rate |-> FrameRate(t),
     stride |-> Align16(t.width), width |-> t.width]

NoAttr == [factor |-> 100, codec |-> 0, bitrate |-> 200, max |-> 300, min |-> 100, gop |-> 1,
           rate |-> 1, stride |-> 16, width |-> 16]

(***************************************************************************)
(* The calls.                                                              *)
(***************************************************************************)

NoCall == [op |-> "none"]

Calls ==
    [op : {"edid"}, text : Texts] \cup [op : {"quality"}, factor : Qualities]
    \cup [op : {"codec"}, type : 0..2] \cup {[op |-> "getEdid"], [op |-> "logStatus"]}

Init ==
    /\ videoLock = Nobody
    /\ extraLock = Nobody
    /\ pc = [c \in Callers |-> "idle"]
    /\ arg = [c \in Callers |-> NoCall]
    /\ edid = <<>>
    /\ asked = <<>>
    /\ quality = 100
    /\ codec = 0
    /\ attr = NoAttr

Begin(c) ==
    /\ pc[c] = "idle"
    /\ arg' \in {[arg EXCEPT ![c] = a] : a \in Calls}
    /\ pc' = [pc EXCEPT ![c] = "lock"]
    /\ UNCHANGED <<videoLock, extraLock, edid, asked, quality, codec, attr>>

\* n.videoLock.Lock(); EDID and quality also need the extra lock
TakeVideoLock(c) ==
    /\ pc[c] = "lock"
    /\ videoLock = Nobody
    /\ videoLock' = c
    /\ pc' = [pc EXCEPT ![c] = IF arg[c].op \in {"edid", "quality"} THEN "try" ELSE "run"]
    /\ UNCHANGED <<extraLock, arg, edid, asked, quality, codec, attr>>

\* n.extraLock.TryLock()
TryExtraLock(c) ==
    /\ pc[c] = "try"
    /\ pc' = [pc EXCEPT ![c] = IF extraLock = Nobody THEN "run" ELSE "refused"]
    /\ extraLock' = IF extraLock = Nobody THEN c ELSE extraLock
    /\ UNCHANGED <<videoLock, arg, edid, asked, quality, codec, attr>>

After(c) == pc' = [pc EXCEPT ![c] = IF extraLock = c THEN "extra" ELSE "unlock"]

\* an empty text stands for the default
Wanted(s) == IF s = <<>> THEN DefaultEDID ELSE s

SetEdid(c) ==
    /\ pc[c] = "run" /\ arg[c].op = "edid"
    /\ \E b \in SetEdidResults(Wanted(arg[c].text)) :
          IF b = Error THEN UNCHANGED <<edid, asked>>
                       ELSE edid' = b /\ asked' = Wanted(arg[c].text)
    /\ After(c)
    /\ UNCHANGED <<videoLock, extraLock, arg, quality, codec, attr>>

\* a factor that is not positive is refused
SetQualityFactor(c) ==
    /\ pc[c] = "run" /\ arg[c].op = "quality"
    /\ quality' = IF arg[c].factor <= 0 THEN quality ELSE arg[c].factor
    /\ After(c)
    /\ UNCHANGED <<videoLock, extraLock, arg, edid, asked, codec, attr>>

SetCodecType(c) ==
    /\ pc[c] = "run" /\ arg[c].op = "codec"
    /\ codec' = IF arg[c].type \in 0..1 THEN arg[c].type ELSE codec
    /\ After(c)
    /\ UNCHANGED <<videoLock, extraLock, arg, edid, asked, quality, attr>>

\* get_edid asks for two blocks and the kernel answers with those there are
VideoGetEDID == bytes_to_hex(edid)

\* the answer changes nothing
GetEdid(c) ==
    /\ pc[c] = "run" /\ arg[c].op = "getEdid"
    /\ After(c)
    /\ UNCHANGED <<videoLock, extraLock, arg, edid, asked, quality, codec, attr>>

\* the driver writes its status to the kernel log, which is then read; the answer
\* is kept with the call; the device or the log may fail
VideoLogStatus(c) ==
    /\ pc[c] = "run" /\ arg[c].op = "logStatus"
    /\ \E log \in Logs, ok \in BOOLEAN :
          arg' = [arg EXCEPT ![c] = [op |-> "answered", log |-> log,
                                     text |-> IF ok THEN videoc_log_status(log) ELSE Error]]
    /\ After(c)
    /\ UNCHANGED <<videoLock, extraLock, edid, asked, quality, codec, attr>>

\* mutant: the extra lock outlives the video lock
KeepExtraLock(c) ==
    /\ pc[c] = "extra"
    /\ videoLock' = Nobody
    /\ pc' = [pc EXCEPT ![c] = "unlock"]
    /\ UNCHANGED <<extraLock, arg, edid, asked, quality, codec, attr>>

\* after five seconds if the call succeeded, else at once; the call for an EDID
\* always does, cgo_linux.go drops the result of the C function
ReleaseExtraLock(c) ==
    /\ pc[c] = "extra"
    /\ extraLock' = Nobody
    /\ pc' = [pc EXCEPT ![c] = "unlock"]
    /\ UNCHANGED <<videoLock, arg, edid, asked, quality, codec, attr>>

ReleaseVideoLock(c) ==
    /\ pc[c] \in {"unlock", "refused"}
    /\ videoLock' = Nobody
    /\ pc' = [pc EXCEPT ![c] = "idle"]
    /\ arg' = [arg EXCEPT ![c] = NoCall]
    /\ UNCHANGED <<extraLock, edid, asked, quality, codec, attr>>

\* a stream thread creates an encoder channel, under no lock
VencStart ==
    /\ \E t \in Timings : \E kbit \in calculate_bitrate(quality, t.width, t.height) :
          attr' = populate_venc_attr(quality, kbit, codec, t)
    /\ UNCHANGED <<videoLock, extraLock, pc, arg, edid, asked, quality, codec>>

Serve(c) ==
    \/ TakeVideoLock(c) \/ TryExtraLock(c) \/ SetEdid(c) \/ SetQualityFactor(c)
    \/ SetCodecType(c) \/ GetEdid(c) \/ VideoLogStatus(c)
    \/ ReleaseExtraLock(c) \/ ReleaseVideoLock(c)

Next ==
    \/ \E c \in Callers : Begin(c) \/ Serve(c)
    \/ VencStart

Spec == Init /\ [][Next]_vars

(***************************************************************************)
(* Properties.                                                             *)
(***************************************************************************)

\* Type correctness: the locks are held by callers, and the chip holds no EDID or
\* one of one or two blocks of bytes.
TypeOK ==
    /\ videoLock \in Callers \cup {Nobody}
    /\ extraLock \in Callers \cup {Nobody}
    /\ pc \in [Callers -> {"idle", "lock", "try", "run", "extra", "refused", "unlock"}]
    /\ \A c \in Callers : arg[c] \in Calls \cup {NoCall} \/ arg[c].op = "answered"
    /\ Len(edid) \in {0, BlockSize, 2 * BlockSize}
    /\ \A i \in DOMAIN edid : edid[i] \in 0..255
    /\ quality \in Nat \ {0}

\* useExtraLock never finds its lock taken, because every caller holds videoLock
\* for as long as it holds extraLock, the five seconds of sleep included: a second
\* change waits instead of being refused.
NeverRefused == \A c \in Callers : pc[c] # "refused"

\* The bit rates of the encoder are in order.  The RPC takes every positive factor,
\* and large ones overflow the int32_t arithmetic of video.c: this is not true of them.
RatesOrdered == attr.min <= attr.bitrate /\ attr.bitrate <= attr.max

\* What populate_venc_attr hands to the encoder can be encoded: a group of pictures
\* of at least one frame and at most half a second, a stride of whole macroblocks,
\* and, for the factors up to 1 that the user interface offers, bit rates in order:
\* none of the casts and products of video.c has overflowed.
Offered == 100
EncoderAccepts ==
    /\ attr.gop >= 1 /\ (2 * attr.gop <= attr.rate \/ attr.gop = 1)
    /\ attr.stride % 16 = 0 /\ attr.stride >= attr.width
    /\ attr.codec \in 0..1
    /\ attr.factor <= Offered => RatesOrdered

\* VideoGetEDID returns the EDID that was last accepted, byte for byte, but for the
\* last byte of each block, which makes the block add up to a multiple of 256: the
\* conversions to bytes and back agree, and a source, which refuses a wrong sum,
\* accepts whatever text was.
ReadsBack ==
    LET b == hex_to_bytes(VideoGetEDID, 2 * BlockSize)
        w == hex_to_bytes(asked, 2 * BlockSize)
    IN  /\ Len(b) = Len(w)
        /\ \A i \in DOMAIN b : IF i % BlockSize # 0 THEN b[i] = w[i]
                              ELSE BlockSum(b, i - BlockSize)[BlockSize] = 0

\* The answer of VideoLogStatus is the newest status of the kernel log and the whole
\* of it: no older status is shown with it, nothing after it is cut off, and no
\* level mark of the driver is left in it.  Everybody writes to that log.
StatusIsNewest ==
    \A c \in Callers : arg[c].op = "answered" /\ arg[c].text # Error =>
        LET log  == arg[c].log
            text == arg[c].text
            newest == {i \in DOMAIN log : log[i] = Start /\ \A j \in (i + 1)..Len(log) : log[j] # Start}
        IN  /\ Quantify(DOMAIN text, LAMBDA i : text[i] = Start) = Cardinality(newest)
            /\ \A i \in newest : /\ Len(text) >= Len(log) - i + 1
                                  /\ \A j \in DOMAIN text : text[j] # Mark
=============================================================================
