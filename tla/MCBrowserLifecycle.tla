------------------------- MODULE MCBrowserLifecycle -------------------------
(* Instances of BrowserLifecycle for TLC.  The bounds are the cfg's.       *)
EXTENDS BrowserLifecycle

CONSTANTS b1, b2, u1, u2

OneBrowser == {b1}
TwoBrowsers == {b1, b2}
OneSlot == {u1}
TwoSlots == {u1, u2}
=============================================================================
