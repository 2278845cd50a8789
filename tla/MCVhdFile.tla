----------------------------- MODULE MCVhdFile -----------------------------
(* Instances of VhdFile: requests for which the layout has special cases.  *)
EXTENDS VhdFile

Ask(type, sectors, log2) == [type |-> type, sectors |-> sectors, secPerBlockLog2 |-> log2]

Blocks4 == 4 * 4096
Table128 == 128 * 4096    \* entries that fill one sector

FilesMade == {
  Ask("Fixed", Blocks4, 12),
  Ask("Fixed", MaxSectors + 1, 12),   \* more than a VHD can have
  Ask("Dynamic", 67, 12),             \* less than a cylinder: refused
  Ask("Dynamic", 17000, 8),           \* made, but cannot be opened
  Ask("Dynamic", Blocks4, 13),        \* two sectors of bitmap in a block
  Ask("Dynamic", Table128, 12),
  Ask("Diff", Blocks4, 12),
  Ask("Diff", Table128 + 4096, 12)}   \* entries in the sector before the locators

Overlapping == {Ask("Dynamic", Table128 + 4096, 12)}
=============================================================================
