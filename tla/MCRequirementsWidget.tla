------------------------- MODULE MCRequirementsWidget -------------------------
(* Model checking RequirementsWidget; its constants are given in the .cfg. *)
EXTENDS RequirementsWidget

(* Steps lead out of it, and are checked: from an archived requirement to  *)
(* one created, which is written and navigated to.                         *)
Bound == writes + Len(m_navHistory) <= 2
=============================================================================
