----------------------- MODULE MCOrganizationWorkspaces -----------------------
(***************************************************************************)
(* An instance of OrganizationWorkspaces for TLC.                          *)
(***************************************************************************)
EXTENDS OrganizationWorkspaces, TLC
=============================================================================
