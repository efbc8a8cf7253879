--------------------------- MODULE GrallocLayout ---------------------------
(***************************************************************************)
(* What the allocator, the mapper and the legacy gralloc module each       *)
(* compute about a buffer: its gbm format and size, its usage bits, and    *)
(* where its planes are.  Three files compute the planes of a YUV buffer   *)
(* for themselves and have to agree.                                       *)
(*                                                                         *)
(* Pure functions; formats stand for their HAL_PIXEL_FORMAT constants and  *)
(* a usage is the set of the numbers of its bits.                          *)
(***************************************************************************)
EXTENDS Integers

-----------------------------------------------------------------------------
(* Formats. *)

Rgba32    == {"RGBA_8888", "RGBX_8888", "BGRA_8888"}
Planar420 == {"YCbCr_420_888", "IMPLEMENTATION_DEFINED", "YV12"}
Formats   == Rgba32 \cup Planar420
                \cup {"RGB_565", "BLOB", "YCbCr_422_I", "YCbCr_422_SP", "YCrCb_420_SP"}

(* "GR88" for the planar formats; "none" (0) for those gbm is not asked for. *)
get_gbm_format(format) ==
    CASE format \in Rgba32    -> "8888"
      [] format = "RGB_565"   -> "RGB565"
      [] format \in Planar420 -> "GR88"
      [] format = "BLOB"      -> "R8"
      [] OTHER                -> "none"

(* Bytes per pixel; "planar: only Y is considered". *)
gralloc_gbm_get_bpp(format) ==
    CASE format \in Rgba32 -> 4
      [] format \in {"RGB_565", "YCbCr_422_I", "YCbCr_420_888", "IMPLEMENTATION_DEFINED"} -> 2
      [] format \in {"YV12", "YCbCr_422_SP", "YCrCb_420_SP", "BLOB"} -> 1
      [] OTHER -> 0

(* The size asked of gbm, the same for a new and for an imported object.   *)
GbmWidth(format, width)   == IF format = "YV12" THEN width \div 2 ELSE width
GbmHeight(format, height) == IF format = "YV12" THEN height + height \div 2 ELSE height

-----------------------------------------------------------------------------
(* Usages.  BufferUsage and gralloc 0 share their CPU bits; those of       *)
(* gralloc 1 differ.                                                       *)

CpuReadMask  == 0 .. 3
CpuWriteMask == 4 .. 7
ReadRarely   == {1}         \* BufferUsage::CPU_READ_RARELY, GRALLOC_USAGE_SW_READ_RARELY
ReadOften    == {0, 1}
WriteRarely  == {5}
WriteOften   == {4, 5}
CpuRead      == {1}         \* GRALLOC1_{PRODUCER,CONSUMER}_USAGE_CPU_READ
CpuReadOften == {1, 2}
CpuWrite     == {5}         \* GRALLOC1_PRODUCER_USAGE_CPU_WRITE
CpuWriteOften == {5, 6}
GpuTexture   == 8
RenderTarget == 9
Hwcomposer   == 11
ClientTarget == 12
SensorDirect == 23
GpuData      == 24

readBits(usage) ==
    CASE usage \cap CpuReadMask = ReadRarely -> CpuRead
      [] usage \cap CpuReadMask = ReadOften  -> CpuReadOften
      [] OTHER -> {}

(* Mutant: often and rarely written are not told apart. *)
mutantWriteBits(usage) == IF usage \cap CpuWriteMask = WriteRarely THEN CpuWrite ELSE {}

writeBits(usage) ==
    CASE usage \cap CpuWriteMask = WriteRarely -> CpuWrite
      [] usage \cap CpuWriteMask = WriteOften  -> CpuWriteOften
      [] OTHER -> {}

toProducerUsage(usage) ==
    (usage \ (CpuReadMask \cup CpuWriteMask \cup {GpuData}))
        \cup writeBits(usage) \cup readBits(usage)

toConsumerUsage(usage) ==
    (usage \ (CpuReadMask \cup CpuWriteMask \cup {SensorDirect, GpuData}))
        \cup readBits(usage) \cup (usage \cap {GpuData})

(* PRODUCER_MASK and CONSUMER_MASK together. *)
Gralloc0Mask == CpuRead \cup CpuWrite
                    \cup {8, 9, 11, 12, 14, 15, 16, 17, 18, 20, 22, 23, 24}

(* The union of the two usages it returns. *)
android_convertGralloc0To1Usage(usage) ==
    (usage \cap Gralloc0Mask)
        \cup (IF ReadOften \subseteq usage THEN CpuReadOften ELSE {})
        \cup (IF WriteOften \subseteq usage THEN CpuWriteOften ELSE {})

(* gbm flags: any bit of a constant counts. *)
get_pipe_bind(usage) ==
    (IF usage \cap (CpuReadOften \cup CpuWriteOften) # {} THEN {"LINEAR"} ELSE {})
    \cup (IF usage \cap {RenderTarget, GpuTexture} # {} THEN {"RENDERING"} ELSE {})
    \cup (IF ClientTarget \in usage THEN {"SCANOUT"} ELSE {})
    \cup (IF Hwcomposer \in usage THEN {"SCANOUT", "RENDERING"} ELSE {})

-----------------------------------------------------------------------------
(* Planes. *)

Align(value, base) == ((value + base - 1) \div base) * base

Interleaved == {"YCbCr_420_888", "IMPLEMENTATION_DEFINED"}
YuvFormats  == Planar420 \cup {"YCrCb_420_SP"}

Ycbcr(cb, cr, ystride, cstride, step) ==
    [cb |-> cb, cr |-> cr, ystride |-> ystride, cstride |-> cstride, chroma_step |-> step]

(* Mutant: the chroma planes of YV12 are swapped. *)
mutantLockedPlanes(format, width, height) ==
    LET aligned == Align(width, 16)
        luma    == aligned * height
        half    == Align(width \div 2, 16)
    IN  CASE format \in Interleaved   -> Ycbcr(luma, luma + 1, aligned, aligned, 2)
          [] format = "YCrCb_420_SP"  -> Ycbcr(luma + 1, luma, aligned, aligned, 2)
          [] format = "YV12"          -> Ycbcr(width * height,
                                            width * height + (half * height) \div 2,
                                            width, half, 1)

(* The android_ycbcr that gbm_lock_ycbcr fills in, relative to its y.      *)
LockedPlanes(format, width, height) ==
    LET aligned == Align(width, 16)
        luma    == aligned * height
        half    == Align(width \div 2, 16)
    IN  CASE format \in Interleaved   -> Ycbcr(luma, luma + 1, aligned, aligned, 2)
          [] format = "YCrCb_420_SP"  -> Ycbcr(luma + 1, luma, aligned, aligned, 2)
          [] format = "YV12"          -> Ycbcr(width * height + (half * height) \div 2,
                                            width * height, width, half, 1)

Layout(offset, increment, stride, width, height) ==
    [offsetInBytes |-> offset, sampleIncrementInBits |-> increment, strideInBytes |-> stride,
     widthInSamples |-> width, heightInSamples |-> height]

(* Mapper::get for PLANE_LAYOUTS: Y, then CR and CB subsampled by two.     *)
get_plane_layouts(format, width, height) ==
    LET aligned == Align(width, 16)
        half    == Align(width \div 2, 16)
        chroma(offset, increment, stride) ==
            Layout(offset, increment, stride, width \div 2, height \div 2)
    IN  IF format = "YV12"
        THEN [Y  |-> Layout(0, 8, width, width, height),
              CR |-> chroma(width * height, 8, half),
              CB |-> chroma(width * height + (half * height) \div 2, 8, half)]
        ELSE LET first  == chroma(aligned * height, 16, aligned)
                 second == chroma(aligned * height + 1, 16, aligned)
             IN  [Y  |-> Layout(0, 8, aligned, width, height),
                  CR |-> IF format = "YCrCb_420_SP" THEN first ELSE second,
                  CB |-> IF format = "YCrCb_420_SP" THEN second ELSE first]

-----------------------------------------------------------------------------
(* What the three have to agree on. *)

(* The planes a CPU lock returns are those the mapper describes.           *)
LayoutsAgree(format, width, height) ==
    LET planes  == LockedPlanes(format, width, height)
        layouts == get_plane_layouts(format, width, height)
        Chroma(layout, offset) ==
            /\ layout.offsetInBytes = offset
            /\ layout.strideInBytes = planes.cstride
            /\ layout.sampleIncrementInBits = 8 * planes.chroma_step
    IN  /\ layouts.Y.offsetInBytes = 0
        /\ layouts.Y.strideInBytes = planes.ystride
        /\ Chroma(layouts.CR, planes.cr)
        /\ Chroma(layouts.CB, planes.cb)

(* The bytes from the start of a buffer to the end of a plane. *)
EndOf(layout) ==
    layout.offsetInBytes + (layout.heightInSamples - 1) * layout.strideInBytes
        + ((layout.widthInSamples - 1) * layout.sampleIncrementInBits) \div 8 + 1

(* Every plane lies inside the object gbm was asked for, of stride bytes a *)
(* row.                                                                    *)
PlanesFit(format, width, height, stride) ==
    \A plane \in {"Y", "CR", "CB"} :
        EndOf(get_plane_layouts(format, width, height)[plane])
            <= stride * GbmHeight(format, height)

(* External: a row of a gbm object holds its pixels, two bytes each in the *)
(* GR88 of the planar formats, and rows are padded to 32 bytes.            *)
StridesOf(format, width) ==
    {stride \in Nat : stride >= 2 * GbmWidth(format, width) /\ stride % 32 = 0}
=============================================================================
