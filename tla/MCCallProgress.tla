--------------------------- MODULE MCCallProgress ---------------------------
EXTENDS CallProgress

MCThread == {"main", "network", "relay"}
MCWatcher == {"screen", "background"}
MCScreen == {"screen"}
=============================================================================
