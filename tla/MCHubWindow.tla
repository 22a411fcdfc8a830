---------------------------- MODULE MCHubWindow -----------------------------
EXTENDS HubWindow
=============================================================================
