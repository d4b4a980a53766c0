\* Two fetcher loops, four tweets and a transcoder with room for one image,
\* the smallest that the loops can fight over.
CONSTANTS
  Loops = {l1, l2}
  MaxTweets = 4
  Buffer = 1
  Method = "dataurl"
SPECIFICATION Spec
INVARIANTS TypeOK PushersBounded GettersBounded
