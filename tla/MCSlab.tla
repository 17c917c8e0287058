-------------------------------- MODULE MCSlab --------------------------------
(* A small kernel heap: pages with room for two chunks of the first size    *)
(* class or one of the second.                                              *)
EXTENDS Slab

MCSizes == <<8, 12>>
=============================================================================
