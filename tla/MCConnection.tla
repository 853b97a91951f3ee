------------------------------ MODULE MCConnection ------------------------------
\* Connection for TLC: configurations in which every kind of login and every mode
\* occurs, with file transfer and without.
EXTENDS Connection

MCConfigs == {
    [auth |-> "on",     mode |-> "shared_readwrite", files |-> TRUE],
    [auth |-> "on",     mode |-> "isolated",         files |-> FALSE],
    [auth |-> "off",    mode |-> "shared_readonly",  files |-> TRUE],
    [auth |-> "off",    mode |-> "shared_readwrite", files |-> FALSE],
    [auth |-> "broken", mode |-> "shared_readwrite", files |-> TRUE]}
================================================================================
