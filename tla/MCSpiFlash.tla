------------------------------ MODULE MCSpiFlash ------------------------------
EXTENDS SpiFlash
Rq(k, g, f, c) == [kind |-> k, region |-> g, first |-> f, count |-> c]
\* Ranges within a page and across pages, of less than a unit and more than a cycle;
\* erases of both sizes, across both components; requests that are refused, that
\* wrap, that ask for nothing.
MCRequests ==
  [dxe |-> {Rq(k, "bios", 3, 12) : k \in {"read", "write"}}
           \union {Rq("write", "bios", 7, c) : c \in {1, 5}}
           \union {Rq("read", "unused", 0, 1), Rq("read", "bios", 62, 4), Rq("write", "bios", 1, 0)}
           \union {Rq("erase", "bios", 8, 32), Rq("erase", "bios", 4, 8), Rq("erase", "bios", 0, 0)}
           \union {Rq("sfdp", "all", 32, 3), Rq("jedec", "all", 32, 3),
                   Rq("readStatus", "all", 0, 1), Rq("writeStatus", "all", 0, 2)},
   smm |-> {Rq("read", "bios", 1, 3), Rq("write", "bios", 6, 3), Rq("erase", "bios", 8, 8)}]
P(l, e, s, g) == [smiLock |-> l, le |-> e, eiss |-> s, gbl |-> g]
MCPlatforms == {P(FALSE, FALSE, FALSE, FALSE), P(FALSE, TRUE, FALSE, TRUE), P(TRUE, FALSE, FALSE, TRUE),
                P(TRUE, TRUE, FALSE, TRUE), P(TRUE, FALSE, TRUE, TRUE)}
===============================================================================
