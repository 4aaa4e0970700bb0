----------------------------- MODULE FrameBuffer -----------------------------
(***************************************************************************)
(* The frame buffer that a guest asks the GPU for, and what becomes of it  *)
(* on the display: Gpu's readMessage and draw (armgpu.cpp), the default    *)
(* Canvas (canvas.cpp) and the one of emulens (display.cpp).               *)
(*                                                                         *)
(* A request is a virtual width, a virtual height and a bit depth, each a  *)
(* 32-bit word of the guest, here modulo WordSize.  Memory is not looked   *)
(* into: of every byte of a picture it is kept which address it is from.   *)
(***************************************************************************)
EXTENDS Integers

CONSTANTS WordSize,  \* 2^32 in the code
          PointerEnd \* frameBufferPointerEnd, 0x20000000

ASSUME FrameBufferAssumption == /\ WordSize \in Nat \ {0}
                                /\ PointerEnd \in 0..WordSize - 1

HighColor == 16      \* the only BitDepth that is drawn

BytesPerPixelOneMore(r) == r.depth \div 8 + 1

BytesPerPixel(r) == r.depth \div 8 + (IF r.depth % 8 # 0 THEN 1 ELSE 0)

Pitch(r) == (r.width * BytesPerPixel(r)) % WordSize

SizeOf(r) == (Pitch(r) * r.height) % WordSize

\* The guest finds its picture below PointerEnd, or at the top of its address
\* space if it is too big for that.
Pointer(r) == (PointerEnd - SizeOf(r)) % WordSize

\* Gpu::drawRgb16: the bytes of the chunk at the pointer, by their addresses.
Pixels(r) == [k \in 0..SizeOf(r) - 1 |-> Pointer(r) + k]

AsInt32(v) == IF v >= WordSize \div 2 THEN v - WordSize ELSE v

(* QImage of the emulens Canvas's changeSize: lines of 16-bit pixels are    *)
(* padded to 4 bytes.  Qt makes a null image, without bytes, of an empty   *)
(* or negative size and of one whose bytes an int cannot count (its limits *)
(* on lines and on memory come on top).  Canvas does not ask it which.     *)
BytesPerLine(r) == ((r.width * 2 + 3) \div 4) * 4

HasImage(r) == /\ AsInt32(r.width) > 0 /\ AsInt32(r.height) > 0
               /\ BytesPerLine(r) * r.height < WordSize \div 2

ImageBytes(r) == IF HasImage(r) THEN BytesPerLine(r) * r.height ELSE 0

\* What Gpu::draw has the emulens Canvas copy to the image's bits, null or not.
Copied(r) == IF r.depth = HighColor THEN Pixels(r) ELSE <<>>

\* Whether the image's bits are there for all of it.
CopyFits(r) == DOMAIN Copied(r) \subseteq 0..ImageBytes(r) - 1

\* What pixel (x, y) of the image then shows.
Shown(r, x, y) == Copied(r)[y * BytesPerLine(r) + 2 * x]

\* The bytes that the default drawPicture16 looks up, two for each pixel.
LookedUp(r) == {i \in 0..2 * r.width * r.height - 1 :
                  r.depth = HighColor /\ AsInt32(r.width) > 0 /\ AsInt32(r.height) > 0}
===============================================================================
