SPECIFICATION FairSpec
CONSTANTS
  p1 = p1
  p2 = p2
  w1 = w1
  w2 = w2
  c1 = c1
  c2 = c2
  c3 = c3
  c4 = c4
  c5 = c5
  Clients <- OneClient
  Workers <- OneWorker
  producer = producer
  recycler = recycler
  starter = starter
  Conns <- TwoConns
  OptMinAlive = 1
  OptMaxAlive = 1
  OptMaxIdle = 1
  MaxNewConnectionAtOnce = 5
PROPERTIES WaiterServed CloseDrains
