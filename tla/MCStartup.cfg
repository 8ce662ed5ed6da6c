\* Two daemons started by clients and one of another socket directory, one client
\* of each kind.  The open and flock of one start do not straddle the unlock and
\* remove of another.
CONSTANTS
    d1 = d1
    d2 = d2
    e1 = e1
    c1 = c1
    r1 = r1
    s1 = s1
    Daemons = {d1, d2, e1}
    Direct = {}
    Elsewhere = {e1}
    Spawners = {c1}
    Restarters = {r1}
    Stoppers = {s1}
    Inodes = {1, 2, 3}
    NoInode = 0
    Nobody = Nobody
    MayStraddle = FALSE
SPECIFICATION FairSpec
INVARIANT TypeOK
INVARIANT OneWriter
 
 
 
PROPERTY BootSettles
