----------------------------- MODULE MCSmiDispatch -----------------------------
EXTENDS SmiDispatch
\* Two records for each of two sources, one that shares an enable bit, and one for the
\* software SMI.
MCSrc      == [tt1 |-> "TcoTimeout", tt2 |-> "TcoTimeout", nc |-> "NewCentury",
               t1 |-> "Timer", t2 |-> "Timer", sw |-> "Sw"]
MCRecords  == DOMAIN MCSrc
MCValue    == [r \in MCRecords |-> 1]
MCInterval == [r \in MCRecords |-> IF r = "t1" THEN 2 ELSE 1]
MCPeriod   == [r \in MCRecords |-> 2]
===============================================================================
