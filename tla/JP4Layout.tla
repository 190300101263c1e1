----------------------------- MODULE JP4Layout ------------------------------
(***************************************************************************)
(* How the order in which the patched libjpeg places the blocks of a scan  *)
(* (ScanOrder) and the order in which JP4::open reads the pixels of a      *)
(* block back (Deblock) fit together.                                      *)
(***************************************************************************)
EXTENDS Deblock, ScanOrder

\* JP4::open takes the pixel at an even or odd line and column of a block of
\* 16 by 16 from one block of the JPEG data each: the camera coded the pixels
\* of one Bayer colour together, and the tiles of the patched library put that
\* block where the deblocking looks for it.
OneColourPerBlock ==
  (/\ scanPc = "completed" /\ comps = <<[h |-> 2, v |-> 2]>>
   /\ image.width % Block = 0 /\ image.height % Block = 0) =>
    \A p, q \in 0..(Block - 1),
       m \in 0..(image.width \div Block - 1), k \in 0..(image.height \div Block - 1) :
      LET blockX == (m * Block + index1[p]) \div DCTSIZE
          blockY == (k * Block + index1[q]) \div DCTSIZE
      IN  placed[<<1, blockY \div 2, blockY % 2, blockX>>]
            = <<k * (image.width \div Block) + m, 2 * (q % 2) + (p % 2)>>
=============================================================================
