---------------------------- MODULE MCSavedFile ----------------------------
EXTENDS SavedFile
=============================================================================
