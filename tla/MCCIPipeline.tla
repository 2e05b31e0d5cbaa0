---------------------------- MODULE MCCIPipeline ----------------------------
EXTENDS CIPipeline

\* 1 tracks git and makes with the library 3; 2 makes with 1 and links 3; 4 stands alone.
MCMake == <<{3}, {1}, {}, {}>>
MCRun  == <<{}, {3}, {}, {}>>
MCSo   == <<0, 3, 0, 0>>
=============================================================================
