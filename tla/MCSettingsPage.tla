--------------------------- MODULE MCSettingsPage ---------------------------
EXTENDS SettingsPage
=============================================================================
