------------------------- MODULE MCAttachmentUpload -------------------------
EXTENDS AttachmentUpload, TLC
MCSymmetry == Permutations(Slots) \cup Permutations(Users)
=============================================================================
