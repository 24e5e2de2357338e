-------------------------- MODULE MCVulkanLifecycle --------------------------
(* Small instances of VulkanLifecycle.                                     *)
EXTENDS VulkanLifecycle

CONSTANTS a1, a2, s1, s2, c1, c2, c3
=============================================================================
