----------------------------- MODULE MCSwapchain -----------------------------
(* Small instances of Swapchain.                                           *)
EXTENDS Swapchain

CONSTANTS a1, a2
=============================================================================
