---------------------------- MODULE MCPovWorker ----------------------------
EXTENDS PovWorker

CONSTANTS m1, m2, sha

MCMiners == {m1, m2}
MCAlgos == {sha}
MCPledged == {m1}

====
