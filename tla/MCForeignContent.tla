-------------------------- MODULE MCForeignContent --------------------------
EXTENDS ForeignContent

\* The run ends where nothing more is claimed.
Followed == track # "gone"
=============================================================================
