SPECIFICATION Spec
CONSTANTS
  p1 = p1
  p2 = p2
  w1 = w1
  w2 = w2
  c1 = c1
  c2 = c2
  c3 = c3
  c4 = c4
  c5 = c5
  Clients <- TwoClients
  Workers <- TwoWorkers
  producer = producer
  recycler = recycler
  starter = starter
  Conns <- FiveConns
  OptMinAlive = 1
  OptMaxAlive = 2
  OptMaxIdle = 0
  MaxNewConnectionAtOnce = 5
SYMMETRY Symmetry
INVARIANTS TypeOK TotalCountExact OneOwner OpenAreOwned  IdleWithinCap
