--------------------------------- MODULE Pic ---------------------------------
(***************************************************************************)
(* The interrupt controller (platform/x86/pic.c) as the keyboard sees it:  *)
(* the line of IRQ 1, its mask bit, and the vectors it is given to, which  *)
(* are those of the BIOS during a BIOS call (bios/int.c).                  *)
(***************************************************************************)
EXTENDS Integers

VARIABLES
  irr,          \* a request is latched
  masked,       \* the mask bit in the controller
  masks,        \* what masks[0] has for it
  bios_masks,   \* what bios_masks[0] has for it
  offsets       \* whose vectors interrupts go to

picVars == <<irr, masked, masks, bios_masks, offsets>>

PicType ==
  /\ irr \in BOOLEAN
  /\ masked \in BOOLEAN /\ masks \in BOOLEAN /\ bios_masks \in BOOLEAN
  /\ offsets \in {"bios", "loom"}

(* loomPlatformInit has saved the masks of the BIOS and masks every line.  *)
PicInit ==
  /\ irr \in BOOLEAN
  /\ bios_masks = FALSE
  /\ masks = TRUE /\ masked = TRUE
  /\ offsets = "loom"
----------------------------------------------------------------------------
(* loomPICMask and loomPICUnmask.                                          *)
SetMask(m) == masked' = m /\ masks' = m /\ UNCHANGED <<irr, bios_masks, offsets>>

(* picRemap: initialisation forgets a latched request.                     *)
Remap(whose) == offsets' = whose /\ irr' = FALSE

(* The hook of loomBiosInt, before and after the call.                     *)
ResetBiosDefaults ==
  /\ Remap("bios")
  /\ masked' = bios_masks
  /\ UNCHANGED <<masks, bios_masks>>

RestoreMasks_Bios == masked' = masked /\ UNCHANGED masks
RestoreMasks == masked' = masks /\ UNCHANGED masks

SaveAndRestore ==
  /\ bios_masks' = masked
  /\ Remap("loom")
  /\ RestoreMasks

(* The controller (external): a line that rises is latched; serving it     *)
(* clears the latch.                                                       *)
Rise == irr' = TRUE /\ UNCHANGED <<masked, masks, bios_masks, offsets>>

Serves(whose) == irr /\ ~masked /\ offsets = whose

Serve == irr' = FALSE /\ UNCHANGED <<masked, masks, bios_masks, offsets>>
=============================================================================
